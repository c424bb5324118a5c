-------------------------- MODULE TaskManager_proofs --------------------------
(***************************************************************************)
(* The task manager implements the rules of TaskRules for any tasks,       *)
(* instances and groups.  A pass decides on what it has read; the          *)
(* invariant says what of that is still true when it commits.              *)
(***************************************************************************)
EXTENDS TaskManager, TLAPS

Typed ==
    /\ status \in [Tasks -> {"new", "pending", "active"} \cup Ended]
    /\ deps \in [Tasks -> SUBSET Tasks]
    /\ processed \subseteq Tasks
    /\ todo \subseteq Tasks
    /\ heard \in [Tasks -> {"failed", "unfinished", "clear"}]
    /\ writes \in [Tasks -> {"none", "active", "failed", "canceled"}]
    /\ closing \subseteq Tasks

\* Not started: a request may have canceled a workflow job meanwhile.
Waits(t) == status[t] = "pending" \/ (IsWorkflow(t) /\ status[t] = "canceled")

\* What the dependency manager has not looked at has not started.
Unlooked == \A t \in Tasks : t \notin processed => status[t] = "new" \/ Waits(t)

\* What is waited for exists and is no workflow job; what a request works on
\* exists and is one.
NoNewDeps == /\ \A t \in Tasks : \A d \in deps[t] : status[d] # "new" /\ ~IsWorkflow(d)
             /\ \A t \in closing : status[t] # "new" /\ IsWorkflow(t)

\* Nobody but the pass starts the tasks it has listed.
Listed == \A t \in todo : Waits(t) /\ t \in processed /\ writes[t] = "none"
Written == \A t \in Tasks : writes[t] # "none" => Waits(t) /\ t \in processed

\* A pass that has not come to decide has written nothing, and one that has
\* not begun has listed nothing.
Unwritten == /\ pc # "deciding" => writes = NothingWritten
             /\ pc = "idle" => todo = {}

\* The pass counts all that is under way; it may count what has ended.
Counted == pc # "idle" => \A t \in Tasks : status[t] = "active" => t \in DOMAIN on

\* What it heard of a task's dependencies stays true while it succeeds.
Succeeded(t) == \A d \in deps[t] : status[d] = "successful"
HeardRight == pc = "deciding" => \A t \in todo : heard[t] = "clear" => Succeeded(t)

\* What it will start may start.
Cleared ==
    \A t \in Tasks : writes[t] = "active" =>
        /\ t \in DOMAIN on
        /\ Succeeded(t)
        /\ \A r \in Tasks : status[r] = "active" => ~HindersByRule(r, t)
        /\ \A r \in Tasks \ {t} : writes[r] = "active" =>
               ~HindersByRule(r, t) \/ ~HindersByRule(t, r)

IInv ==
    /\ Typed /\ Unlooked /\ NoNewDeps /\ Listed /\ Written
    /\ Unwritten /\ Counted /\ HeardRight /\ Cleared

\* The rules in the words of the documentation are found by the lookups of
\* DependencyGraph.
LEMMA RulesAreMarked ==
    ASSUME NEW r \in Tasks, NEW t \in Tasks, HindersByRule(r, t)
    PROVE  Marks(r) \cap Asks(t) # {}
<1>1. CASE Kind(r) = "project update"
  <2>1. <<"project", Info[r].project>> \in Marks(r)
    BY <1>1 DEF Marks, Key, HindersByRule
  <2>2. <<"project", Info[r].project>> \in Asks(t)
    BY <1>1 DEF Asks, Key, HindersByRule
  <2> QED  BY <2>1, <2>2
<1>2. CASE Kind(r) = "inventory update" /\ Kind(t) = "inventory update"
  <2>1. CASE Info[r].source = Info[t].source /\ Info[r].source # None
    <3>1. <<"source", Info[r].source>> \in Marks(r)
      BY <1>2, <2>1 DEF Marks, Key
    <3>2. <<"source", Info[r].source>> \in Asks(t)
      BY <1>2, <2>1 DEF Asks, Key
    <3> QED  BY <3>1, <3>2
  <2> QED  BY <1>2, <2>1 DEF HindersByRule
<1>3. CASE Kind(r) = "inventory update" /\ Kind(t) \in {"job", "ad hoc command"}
  <2>1. <<"inventory", Info[r].inventory>> \in Marks(r)
    BY <1>3 DEF Marks, Key, HindersByRule
  <2>2. <<"inventory", Info[r].inventory>> \in Asks(t)
    BY <1>3 DEF Asks, Key, HindersByRule
  <2> QED  BY <2>1, <2>2
<1>4. CASE Kind(r) = "job"
  <2>1. <<"template", Info[r].template>> \in Marks(r)
    BY <1>4 DEF Marks, Key, HindersByRule
  <2>2. <<"template", Info[r].template>> \in Asks(t)
    BY <1>4 DEF Asks, Key, HindersByRule
  <2> QED  BY <2>1, <2>2
<1>5. CASE Kind(r) = "workflow job"
  <2>1. <<"workflow", Info[r].template>> \in Marks(r)
    BY <1>5 DEF Marks, Key, HindersByRule
  <2>2. <<"workflow", Info[r].template>> \in Asks(t)
    BY <1>5 DEF Asks, Key, HindersByRule
  <2> QED  BY <2>1, <2>2
<1>6. CASE Kind(r) = "system job"
  <2>1. <<"system", "system_job">> \in Marks(r)
    BY <1>6 DEF Marks, Key, HindersByRule
  <2>2. <<"system", "system_job">> \in Asks(t)
    BY <1>6 DEF Asks, Key, HindersByRule
  <2> QED  BY <2>1, <2>2
<1> QED  BY <1>1, <1>2, <1>3, <1>4, <1>5, <1>6 DEF HindersByRule

-----------------------------------------------------------------------------
(* What the actions have in common.                                        *)

\* The pass is over: nothing is listed, counted or written.
LEMMA Rest ==
    ASSUME PassEnds
    PROVE  /\ Listed' /\ Written' /\ Unwritten' /\ Counted' /\ HeardRight' /\ Cleared'
           /\ todo' \subseteq Tasks
           /\ heard' \in [Tasks -> {"failed", "unfinished", "clear"}]
           /\ writes' \in [Tasks -> {"none", "active", "failed", "canceled"}]
<1>1. /\ pc' = "idle" /\ todo' = {} /\ writes' = [t \in Tasks |-> "none"]
      /\ heard' = [t \in Tasks |-> "clear"]
  BY DEF PassEnds, NothingRead, NothingWritten
<1> QED  BY <1>1 DEF Listed, Written, Unwritten, Counted, HeardRight, Cleared, NothingWritten, Waits

\* The dependency manager: it touches only tasks nobody has looked at.
LEMMA ResolveKeeps == IInv /\ ResolveDependencies => IInv' /\ Rules!Prepare
<1> SUFFICES ASSUME IInv, ResolveDependencies  PROVE IInv' /\ Rules!Prepare
  OBVIOUS
<1> DEFINE first  == {t \in Tasks : status[t] = "pending" /\ t \notin processed}
           looked == first \cup (UpdatesFor(first) \ processed)
           made   == {u \in UpdatesFor(looked) : status[u] = "new"}
<1> USE DEF IInv
<1>1. /\ status' = [t \in Tasks |-> IF t \in made THEN "pending" ELSE status[t]]
      /\ deps' = [t \in Tasks |-> IF t \in looked THEN deps[t] \cup UpdatesFor({t})
                                  ELSE deps[t]]
      /\ processed' = processed \cup looked
      /\ UNCHANGED <<pc, todo, heard, on, writes, closing>>
  BY DEF ResolveDependencies, pass
<1>2. \A S : UpdatesFor(S) \subseteq Tasks /\ \A u \in UpdatesFor(S) : ~IsWorkflow(u)
  BY DEF UpdatesFor, UpdateFor, Latest, Spare, UpdatesOf, IsUpdate, IsWorkflow
<1>3. looked \subseteq Tasks /\ \A t \in looked : t \notin processed
  BY <1>2
<1>4. \A t \in looked : UpdatesFor({t}) \subseteq UpdatesFor(looked)
  BY DEF UpdatesFor
<1>5. \A t \in looked : status[t] \in {"new", "pending"}
  BY <1>2, <1>3 DEF Unlooked, Waits
<1>6. \A t \in Tasks : /\ t \in made => status[t] = "new" /\ status'[t] = "pending"
                       /\ t \notin made => status'[t] = status[t]
  BY <1>1
<1>7. \A t \in Tasks : /\ t \in looked => deps'[t] = deps[t] \cup UpdatesFor({t})
                       /\ t \notin looked => deps'[t] = deps[t]
  BY <1>1
<1>m. \A u \in UpdatesFor(looked) : u \in made \/ status[u] # "new"
  OBVIOUS
<1> HIDE DEF first, looked, made
<1>8. Rules!Prepare
  BY <1>1, <1>3, <1>5, <1>6, <1>7 DEF Rules!Prepare, Held
<1>9. Typed'
  BY <1>1, <1>2, <1>3 DEF Typed
<1>10. \A t \in Tasks : Succeeded(t) /\ t \in processed => Succeeded(t)'
  BY <1>3, <1>6, <1>7 DEF Succeeded, Typed
<1>11. \A t \in processed : status'[t] = "active" <=> status[t] = "active"
  BY <1>6 DEF Typed
<1>12. \A u \in UpdatesFor(looked) : status'[u] # "new"
  BY <1>2, <1>6, <1>m DEF Typed
<1>13. Unlooked'
  BY <1>1, <1>3, <1>6 DEF Unlooked, Waits
<1>14. NoNewDeps'
  <2>1. ASSUME NEW t \in Tasks, NEW d \in deps'[t]
        PROVE  status'[d] # "new" /\ ~IsWorkflow(d)
    <3>1. CASE d \in deps[t]
      BY <1>6, <3>1 DEF NoNewDeps, Typed
    <3>2. CASE d \notin deps[t]
      <4>1. t \in looked /\ d \in UpdatesFor({t})
        BY <1>7, <3>2
      <4> QED  BY <1>2, <1>4, <1>12, <4>1
    <3> QED  BY <3>1, <3>2
  <2> QED  BY <1>1, <1>6, <2>1 DEF NoNewDeps, Typed
<1>15. Listed' /\ Written'
  BY <1>1, <1>6, <1>11 DEF Listed, Written, Typed, Waits
<1>16. Unwritten' /\ Counted'
  BY <1>1, <1>6 DEF Unwritten, NothingWritten, Counted, Typed
<1>17. HeardRight'
  BY <1>1, <1>10 DEF HeardRight, Listed, Typed, Waits
<1>18. Cleared'
  BY <1>1, <1>6, <1>10 DEF Cleared, Written, Typed, Waits
<1> QED  BY <1>8, <1>9, <1>13, <1>14, <1>15, <1>16, <1>17, <1>18

\* Reading.
LEMMA ReadTasksKeeps == IInv /\ ReadTasks => IInv'
<1> SUFFICES ASSUME IInv, ReadTasks  PROVE IInv'
  OBVIOUS
<1> USE DEF IInv
<1>1. /\ pc = "idle" /\ pc' = "listed"
      /\ todo' = {t \in processed : status[t] = "pending"}
      /\ DOMAIN on' = {s \in processed : status[s] = "active"}
      /\ UNCHANGED <<status, deps, processed, heard, writes, closing>>
  BY DEF ReadTasks, rows
<1>2. writes = [t \in Tasks |-> "none"]
  BY <1>1 DEF Unwritten, NothingWritten
<1>3. Typed' /\ Unlooked' /\ NoNewDeps'
  BY <1>1 DEF Typed, Unlooked, NoNewDeps, Waits
<1>4. Listed' /\ Written' /\ Unwritten' /\ Cleared'
  BY <1>1, <1>2 DEF Listed, Written, Unwritten, NothingWritten, Cleared, Typed, Waits
<1>5. Counted' /\ HeardRight'
  BY <1>1 DEF Counted, HeardRight, Unlooked, Waits
<1> QED  BY <1>3, <1>4, <1>5

LEMMA ReadDependenciesKeeps == IInv /\ ReadDependencies => IInv'
<1> SUFFICES ASSUME IInv, ReadDependencies  PROVE IInv'
  OBVIOUS
<1> USE DEF IInv
<1>1. /\ pc = "listed" /\ pc' = "deciding"
      /\ heard' = [t \in Tasks |-> IF t \in todo THEN Verdict(t) ELSE "clear"]
      /\ UNCHANGED <<status, deps, processed, todo, on, writes, closing>>
  BY DEF ReadDependencies, rows
<1>2. \A t \in Tasks : Verdict(t) \in {"failed", "unfinished", "clear"}
  BY DEF Verdict
<1>3. Typed' /\ Unlooked' /\ NoNewDeps'
  BY <1>1, <1>2 DEF Typed, Unlooked, NoNewDeps, Waits
<1>4. Listed' /\ Written' /\ Unwritten' /\ Counted'
  BY <1>1 DEF Listed, Written, Unwritten, NothingWritten, Counted, Waits
<1>5. Cleared'
  BY <1>1 DEF Cleared, Succeeded
<1>6. HeardRight'
  <2> SUFFICES ASSUME NEW t \in todo, heard'[t] = "clear"  PROVE Succeeded(t)'
    BY <1>1 DEF HeardRight
  <2>1. Verdict(t) = "clear"
    BY <1>1 DEF Typed
  <2>2. \A d \in deps[t] : status[d] \notin {"failed", "canceled", "pending", "active"}
    BY <2>1 DEF Verdict
  <2>3. \A d \in deps[t] : status[d] = "successful"
    BY <2>2 DEF Typed, NoNewDeps, Ended
  <2> QED  BY <2>3, <1>1 DEF Succeeded
<1> QED  BY <1>3, <1>4, <1>5, <1>6

\* Deciding.
LEMMA TurnDownKeeps ==
    ASSUME IInv, NEW t \in Tasks, NEW verdict \in {"failed", "canceled"}, TurnDown(t, verdict)
    PROVE  IInv'
<1> USE DEF IInv
<1>1. /\ pc = "deciding" /\ t \in todo /\ todo' = todo \ {t}
      /\ writes' = [writes EXCEPT ![t] = verdict]
      /\ UNCHANGED <<status, deps, processed, pc, heard, on, closing>>
  BY DEF TurnDown, Considers, rows
<1>2. Typed' /\ Unlooked' /\ NoNewDeps'
  BY <1>1 DEF Typed, Unlooked, NoNewDeps, Waits
<1>3. Listed' /\ Written' /\ Unwritten' /\ Counted'
  BY <1>1 DEF Listed, Written, Unwritten, Counted, Typed, Waits
<1>4. HeardRight'
  BY <1>1 DEF HeardRight, Succeeded
<1>5. Cleared'
  BY <1>1 DEF Cleared, Succeeded, Typed
<1> QED  BY <1>2, <1>3, <1>4, <1>5

LEMMA LeaveKeeps == ASSUME IInv, NEW t \in Tasks, LeavePending(t)  PROVE IInv'
<1> USE DEF IInv
<1>1. /\ todo' = todo \ {t}
      /\ UNCHANGED <<status, deps, processed, pc, heard, on, writes, closing>>
  BY DEF LeavePending, Considers, rows
<1>2. Typed' /\ Unlooked' /\ NoNewDeps' /\ Listed' /\ Written' /\ Unwritten' /\ Counted'
  BY <1>1 DEF Typed, Unlooked, NoNewDeps, Listed, Written, Unwritten, NothingWritten, Counted, Waits
<1>3. HeardRight' /\ Cleared'
  BY <1>1 DEF HeardRight, Cleared, Succeeded
<1> QED  BY <1>2, <1>3

LEMMA StartKeeps ==
    ASSUME IInv, NEW t \in Tasks, NEW refused \in BOOLEAN, StartTask(t, refused)
    PROVE  IInv'
<1> USE DEF IInv
<1>1. /\ pc = "deciding" /\ t \in todo /\ todo' = todo \ {t}
      /\ heard[t] # "failed" /\ heard[t] # "unfinished"
      /\ Asks(t) \cap UNION {Marks(r) : r \in DOMAIN on} = {}
      /\ UNCHANGED <<status, deps, processed, pc, heard, closing>>
  BY DEF StartTask, Considers, Ready, Blocked, rows
<1>2. DOMAIN on' = DOMAIN on \cup {t}
  BY DEF StartTask
<1>3. \/ writes' = [writes EXCEPT ![t] = "active"]
      \/ writes' = [writes EXCEPT ![t] = "failed"]
  BY DEF StartTask
<1>4. /\ \A s \in Tasks \ {t} : writes'[s] = writes[s]
      /\ writes'[t] \in {"active", "failed"}
  BY <1>3 DEF Typed
<1>5. Succeeded(t)
  BY <1>1 DEF HeardRight, Typed
<1>6. \A r \in DOMAIN on \cap Tasks : ~HindersByRule(r, t)
  BY <1>1, RulesAreMarked
<1>7. \A r \in Tasks : status[r] = "active" => ~HindersByRule(r, t)
  BY <1>1, <1>6 DEF Counted
<1>8. \A r \in Tasks \ {t} : writes[r] = "active" => ~HindersByRule(r, t)
  BY <1>6 DEF Cleared
<1>9. Typed' /\ Unlooked' /\ NoNewDeps'
  BY <1>1, <1>3 DEF Typed, Unlooked, NoNewDeps, Waits
<1>10. Listed' /\ Written' /\ Unwritten' /\ Counted'
  BY <1>1, <1>2, <1>4 DEF Listed, Written, Unwritten, Counted, Typed, Waits
<1>11. HeardRight'
  BY <1>1 DEF HeardRight, Succeeded
<1>12. Cleared'
  <2> SUFFICES ASSUME NEW s \in Tasks, writes'[s] = "active"
               PROVE  /\ s \in DOMAIN on'
                      /\ Succeeded(s)'
                      /\ \A r \in Tasks : status'[r] = "active" => ~HindersByRule(r, s)
                      /\ \A r \in Tasks \ {s} : writes'[r] = "active" =>
                             ~HindersByRule(r, s) \/ ~HindersByRule(s, r)
    BY DEF Cleared
  <2>1. CASE s = t
    BY <2>1, <1>1, <1>2, <1>4, <1>5, <1>7, <1>8 DEF Succeeded
  <2>2. CASE s # t
    <3>1. writes[s] = "active" /\ ~HindersByRule(s, t)
      BY <2>2, <1>4, <1>8
    <3>2. /\ s \in DOMAIN on /\ Succeeded(s)
          /\ \A r \in Tasks : status[r] = "active" => ~HindersByRule(r, s)
          /\ \A r \in Tasks \ {s} : writes[r] = "active" =>
                 ~HindersByRule(r, s) \/ ~HindersByRule(s, r)
      BY <3>1 DEF Cleared
    <3> QED  BY <3>1, <3>2, <1>1, <1>2, <1>4 DEF Succeeded
  <2> QED  BY <2>1, <2>2
<1> QED  BY <1>9, <1>10, <1>11, <1>12

LEMMA TimeOutKeeps == IInv /\ TimeOut => IInv'
<1> SUFFICES ASSUME IInv, TimeOut  PROVE IInv'
  OBVIOUS
<1> USE DEF IInv
<1>1. /\ todo' = {}
      /\ UNCHANGED <<status, deps, processed, pc, heard, on, writes, closing>>
  BY DEF TimeOut, rows
<1>2. Typed' /\ Unlooked' /\ NoNewDeps' /\ Listed' /\ Written' /\ Unwritten' /\ Counted'
  BY <1>1 DEF Typed, Unlooked, NoNewDeps, Listed, Written, Unwritten, NothingWritten, Counted, Waits
<1>3. HeardRight' /\ Cleared'
  BY <1>1 DEF HeardRight, Cleared, Succeeded
<1> QED  BY <1>2, <1>3

LEMMA DiesKeeps == IInv /\ PassDies => IInv'
<1> SUFFICES ASSUME IInv, PassDies  PROVE IInv'
  OBVIOUS
<1> USE DEF IInv
<1>1. PassEnds /\ UNCHANGED <<status, deps, processed, closing>>
  BY DEF PassDies, rows
<1>2. Typed' /\ Unlooked' /\ NoNewDeps'
  BY <1>1, Rest DEF Typed, Unlooked, NoNewDeps, Waits
<1> QED  BY <1>1, <1>2, Rest

\* The commit: what was written is still allowed.
LEMMA CommitKeeps == IInv /\ Commit => IInv' /\ Rules!Decide
<1> SUFFICES ASSUME IInv, Commit  PROVE IInv' /\ Rules!Decide
  OBVIOUS
<1> USE DEF IInv
<1>1. /\ status' = [t \in Tasks |-> IF writes[t] = "none" THEN status[t] ELSE writes[t]]
      /\ PassEnds
      /\ UNCHANGED <<deps, processed, closing>>
  BY DEF Commit
<1>2. \A t \in Tasks : /\ writes[t] = "none" => status'[t] = status[t]
                       /\ writes[t] # "none" => /\ status'[t] = writes[t]
                                                /\ Waits(t) /\ t \in Held
                                                /\ t \in processed
  BY <1>1 DEF Written, Held
<1>3. \A t \in Tasks : writes[t] \in {"none", "active", "failed", "canceled"}
  BY DEF Typed
<1>4. Typed'
  BY <1>1, <1>3, Rest DEF Typed, Ended
<1>5. Unlooked'
  BY <1>1, <1>2 DEF Unlooked, Waits
<1>6. NoNewDeps'
  BY <1>1, <1>2, <1>3 DEF NoNewDeps, Typed
<1>7. \A t \in Tasks : status[t] # "active" /\ status'[t] = "active" => writes[t] = "active"
  BY <1>2, <1>3
<1>8. \A t \in Rules!Started : Rules!MayStart(t)
  BY <1>7 DEF Rules!Started, Rules!MayStart, Cleared, Succeeded
<1>9. Held' = {}
  BY <1>1 DEF PassEnds, NothingWritten, Held
<1>10. Rules!Decide
  BY <1>1, <1>2, <1>3, <1>8, <1>9 DEF Rules!Decide, Waits
<1> QED  BY <1>1, <1>4, <1>5, <1>6, <1>10, Rest

LEMMA LaunchKeeps == ASSUME IInv, NEW t \in Tasks, Launch(t)  PROVE IInv' /\ Rules!Prepare
<1> USE DEF IInv
<1>1. /\ status[t] = "new" /\ status' = [status EXCEPT ![t] = "pending"]
      /\ UNCHANGED <<deps, processed, pc, todo, heard, on, writes, closing>>
  BY DEF Launch, pass
<1>2. Rules!Prepare
  BY <1>1 DEF Rules!Prepare, Typed, Held
<1>3. Typed' /\ Unlooked' /\ NoNewDeps'
  BY <1>1 DEF Typed, Unlooked, NoNewDeps, Waits
<1>4. Listed' /\ Written' /\ Unwritten' /\ Counted'
  BY <1>1 DEF Listed, Written, Unwritten, NothingWritten, Counted, Typed, Waits
<1>5. \A s \in Tasks : Succeeded(s) => Succeeded(s)'
  BY <1>1 DEF Succeeded, Typed
<1>6. HeardRight' /\ Cleared'
  BY <1>1, <1>5 DEF HeardRight, Cleared, Typed
<1> QED  BY <1>2, <1>3, <1>4, <1>6

LEMMA EndKeeps == ASSUME IInv, NEW t \in Tasks, EndTask(t)  PROVE IInv' /\ Rules!End
<1> USE DEF IInv
<1> PICK outcome \in Ended : /\ status[t] = "active"
                             /\ status' = [status EXCEPT ![t] = outcome]
                             /\ UNCHANGED <<deps, processed, pc, todo, heard, on, writes, closing>>
  BY DEF EndTask, pass
<1>1. Rules!End
  BY DEF Rules!End, Ended, Rules!Ended, Held
<1>2. Typed' /\ Unlooked' /\ NoNewDeps'
  BY DEF Typed, Unlooked, NoNewDeps, Ended, Waits
<1>3. Listed' /\ Written' /\ Unwritten' /\ Counted'
  BY DEF Listed, Written, Unwritten, NothingWritten, Counted, Typed, Ended, Waits
<1>4. \A s \in Tasks : Succeeded(s) => Succeeded(s)'
  BY DEF Succeeded, Typed
<1>5. HeardRight' /\ Cleared'
  BY <1>4 DEF HeardRight, Cleared, Typed, Ended
<1> QED  BY <1>1, <1>2, <1>3, <1>5

\* Tasks handed back are counted by a pass that has begun, and listed by none.
LEMMA BackKeeps ==
    ASSUME IInv, NEW S \in SUBSET Tasks, \A t \in S : status[t] = "active",
           status' = [t \in Tasks |-> IF t \in S THEN "pending" ELSE status[t]],
           UNCHANGED <<deps, processed, pass, closing>>
    PROVE  IInv' /\ Rules!HandBack
<1> USE DEF IInv, pass
<1>1. \A t \in Tasks : /\ t \in S => status[t] = "active" /\ status'[t] = "pending"
                       /\ t \notin S => status'[t] = status[t]
  OBVIOUS
<1>2. Rules!HandBack
  BY <1>1 DEF Rules!HandBack, Held
<1>3. Typed' /\ Unlooked' /\ NoNewDeps'
  BY <1>1 DEF Typed, Unlooked, NoNewDeps, Waits
<1>4. Listed' /\ Written' /\ Unwritten' /\ Counted'
  BY <1>1 DEF Listed, Written, Unwritten, NothingWritten, Counted, Typed, Waits
<1>5. \A t \in Tasks : Succeeded(t) => Succeeded(t)'
  BY <1>1 DEF Succeeded, Typed
<1>6. HeardRight' /\ Cleared'
  BY <1>1, <1>5 DEF HeardRight, Cleared, Typed
<1> QED  BY <1>2, <1>3, <1>4, <1>6

LEMMA QuotaKeeps == ASSUME IInv, NEW t \in Tasks, ExceedQuota(t)  PROVE IInv' /\ Rules!HandBack
<1>1. PICK S \in SUBSET Tasks : S = {t}
  OBVIOUS
<1>2. /\ \A s \in S : status[s] = "active"
      /\ status' = [s \in Tasks |-> IF s \in S THEN "pending" ELSE status[s]]
      /\ UNCHANGED <<deps, processed, pass, closing>>
  BY <1>1 DEF ExceedQuota, IInv, Typed
<1> QED  BY <1>2, BackKeeps

LEMMA LoseKeeps == ASSUME IInv, NEW n \in Nodes, LoseController(n)  PROVE IInv' /\ Rules!HandBack
<1>1. PICK waiting \in SUBSET Tasks :
         /\ \A t \in waiting : status[t] = "active"
         /\ status' = [t \in Tasks |-> IF t \in waiting THEN "pending" ELSE status[t]]
         /\ UNCHANGED <<deps, processed, pass, closing>>
  BY DEF LoseController
<1> QED  BY <1>1, BackKeeps

LEMMA ChainsAreTasks ==
    ASSUME deps \in [Tasks -> SUBSET Tasks], NEW t \in Tasks, NEW chain \in FailChains(t)
    PROVE  chain \subseteq Tasks
<1>1. \A u : Dependents(u) \subseteq Tasks
  BY DEF Dependents
<1>2. \A s \in Tasks : deps[s] \subseteq Tasks
  OBVIOUS
<1>3. CASE Kind(t) = "project update"
  <2>1. chain = Dependents(t) \cup UNION {Dependents(s) : s \in Dependents(t)}
    BY <1>3 DEF FailChains
  <2> QED  BY <1>1, <2>1
<1>4. CASE Kind(t) = "inventory update"
  BY <1>1, <1>2, <1>4 DEF FailChains
<1>5. CASE Kind(t) \notin {"project update", "inventory update"}
  BY <1>5 DEF FailChains
<1> QED  BY <1>3, <1>4, <1>5

\* The two steps of a request.
LEMMA CancelKeeps == ASSUME IInv, NEW t \in Tasks, Cancel(t)  PROVE IInv' /\ Rules!Call
<1> USE DEF IInv
<1>1. PICK chain \in FailChains(t) :
        closing' = closing \cup
            {s \in {r \in chain \cup {t} : status[r] \in {"pending", "active"}} : IsWorkflow(s)}
  BY DEF Cancel
<1>2. UNCHANGED <<status, deps, processed, pc, todo, heard, on, writes>>
  BY DEF Cancel, pass
<1>3. \A s \in closing' \ closing : IsWorkflow(s) /\ status[s] \in {"pending", "active"}
  BY <1>1
<1>n. \A s \in closing' : status[s] # "new"
  BY <1>3 DEF NoNewDeps
<1>4. chain \subseteq Tasks
  BY ChainsAreTasks DEF Typed
<1>5. closing' \subseteq {s \in Tasks : IsWorkflow(s)}
  BY <1>1, <1>3, <1>4 DEF Typed, NoNewDeps
<1>6. Rules!Call
  BY <1>1, <1>2, <1>3, <1>5 DEF Rules!Call, Held
<1>7. Typed' /\ Unlooked' /\ NoNewDeps' /\ Listed' /\ Written' /\ Unwritten' /\ Counted'
  BY <1>2, <1>5, <1>n DEF Typed, Unlooked, NoNewDeps, Listed, Written, Unwritten, NothingWritten,
                    Counted, Waits
<1>8. HeardRight' /\ Cleared'
  BY <1>2 DEF HeardRight, Cleared, Succeeded
<1> QED  BY <1>6, <1>7, <1>8

LEMMA CloseKeeps == ASSUME IInv, NEW t \in Tasks, CancelCloses(t)  PROVE IInv' /\ Rules!Answer
<1> USE DEF IInv
<1>1. /\ t \in closing /\ writes[t] = "none" /\ closing' = closing \ {t}
      /\ status' \in {status, [status EXCEPT ![t] = "canceled"]}
      /\ UNCHANGED <<deps, processed, pc, todo, heard, on, writes>>
  BY DEF CancelCloses, pass
<1>2. IsWorkflow(t)
  BY <1>1 DEF NoNewDeps
<1>3. Rules!Answer
  BY <1>1 DEF Rules!Answer, Held
<1>4. \A s \in Tasks : status'[s] = status[s] \/ (s = t /\ status'[s] = "canceled")
  BY <1>1 DEF Typed
<1>5. Typed' /\ NoNewDeps'
  BY <1>1, <1>4 DEF Typed, NoNewDeps, Ended
<1>6. \A s \in Tasks : Waits(s) => Waits(s)'
  BY <1>2, <1>4 DEF Waits, IsWorkflow
<1>7. Unlooked'
  BY <1>1, <1>2, <1>4 DEF Unlooked, Waits, IsWorkflow
<1>8. Listed' /\ Written'
  BY <1>1, <1>6 DEF Listed, Written, Typed
<1>9. Unwritten' /\ Counted'
  BY <1>1, <1>4 DEF Unwritten, NothingWritten, Counted
<1>10. \A s \in Tasks : Succeeded(s) => Succeeded(s)'
  BY <1>1, <1>2, <1>4 DEF Succeeded, Typed, NoNewDeps
<1>11. HeardRight' /\ Cleared'
  BY <1>1, <1>4, <1>10 DEF HeardRight, Cleared, Typed
<1> QED  BY <1>3, <1>5, <1>7, <1>8, <1>9, <1>11

\* Expire and steps that change nothing.
LEMMA OthersKeep ==
    ASSUME IInv, UNCHANGED <<status, deps, processed, pass, closing>>
    PROVE  IInv'
<1> USE DEF IInv, pass
<1>1. Typed' /\ Unlooked' /\ NoNewDeps' /\ Listed' /\ Written' /\ Unwritten' /\ Counted'
  BY DEF Typed, Unlooked, NoNewDeps, Listed, Written, Unwritten, NothingWritten, Counted, Waits
<1>2. HeardRight' /\ Cleared'
  BY DEF HeardRight, Cleared, Succeeded
<1> QED  BY <1>1, <1>2
-----------------------------------------------------------------------------
LEMMA InitIInv == Init => IInv /\ Rules!Init
<1> SUFFICES ASSUME Init  PROVE IInv /\ Rules!Init
  OBVIOUS
<1>1. /\ status = [t \in Tasks |-> "new"] /\ deps = [t \in Tasks |-> {}]
      /\ processed = {} /\ pc = "idle" /\ todo = {} /\ closing = {}
      /\ heard = [t \in Tasks |-> "clear"] /\ writes = [t \in Tasks |-> "none"]
  BY DEF Init, NothingRead, NothingWritten
<1>2. Typed /\ Unlooked /\ NoNewDeps /\ Listed /\ Written
  BY <1>1 DEF Typed, Unlooked, NoNewDeps, Listed, Written, Waits
<1>3. Unwritten /\ Counted /\ HeardRight /\ Cleared
  BY <1>1 DEF Unwritten, NothingWritten, Counted, HeardRight, Cleared
<1>4. Held = {}
  BY <1>1 DEF Held
<1> QED  BY <1>1, <1>2, <1>3, <1>4 DEF IInv, Rules!Init

\* What the rules see of the steps of a pass before its commit.
LEMMA ReadIsHold == IInv /\ ReadTasks => Rules!Hold
<1> SUFFICES ASSUME IInv, ReadTasks  PROVE Rules!Hold
  OBVIOUS
<1>1. writes = [t \in Tasks |-> "none"] /\ todo = {}
  BY DEF ReadTasks, IInv, Unwritten, NothingWritten
<1>2. todo' = {t \in processed : status[t] = "pending"} /\ UNCHANGED <<status, deps, closing, writes>>
  BY DEF ReadTasks, rows
<1> QED  BY <1>1, <1>2 DEF Rules!Hold, Held, IInv, Typed

LEMMA DecideIsRelease ==
    ASSUME IInv, NEW t \in Tasks, Considers(t), UNCHANGED <<status, deps, closing>>,
           \E v \in {"none", "active", "failed", "canceled"} : writes' = [writes EXCEPT ![t] = v]
    PROVE  Rules!Release
<1>1. t \in todo /\ todo' \subseteq todo
  BY DEF Considers
<1>2. \A s \in Tasks \ {t} : writes'[s] = writes[s]
  BY DEF IInv, Typed
<1> QED  BY <1>1, <1>2 DEF Rules!Release, Held

LEMMA StopIsRelease ==
    ASSUME UNCHANGED <<status, deps, closing>>, todo' = {},
           writes' = writes \/ writes' = NothingWritten
    PROVE  Rules!Release
BY DEF Rules!Release, Held, NothingWritten

LEMMA SameIsStutter ==
    ASSUME UNCHANGED <<status, deps, todo, writes, closing>>
    PROVE  UNCHANGED Rules!vars
BY DEF Rules!vars, Held

\* Every step keeps the invariant and is a step of the rules or none.
LEMMA StepKeeps == IInv /\ [Next]_vars => IInv' /\ [Rules!Next]_Rules!vars
<1> SUFFICES ASSUME IInv, [Next]_vars  PROVE IInv' /\ [Rules!Next]_Rules!vars
  OBVIOUS
<1>1. CASE ResolveDependencies
  BY <1>1, ResolveKeeps DEF Rules!Next
<1>2. CASE Commit
  BY <1>2, CommitKeeps DEF Rules!Next
<1>3. CASE ReadTasks
  BY <1>3, ReadTasksKeeps, ReadIsHold DEF Rules!Next
<1>4. CASE ReadDependencies
  BY <1>4, ReadDependenciesKeeps, SameIsStutter DEF ReadDependencies, rows
<1>5. CASE TimeOut
  BY <1>5, TimeOutKeeps, StopIsRelease DEF TimeOut, rows, Rules!Next
<1>6. CASE PassDies
  BY <1>6, DiesKeeps, StopIsRelease DEF PassDies, PassEnds, rows, Rules!Next
<1>7. ASSUME NEW t \in Tasks, CancelPending(t) \/ FailForDependency(t)
      PROVE  IInv' /\ [Rules!Next]_Rules!vars
  <2>1. PICK verdict \in {"failed", "canceled"} : TurnDown(t, verdict)
    BY <1>7 DEF CancelPending, FailForDependency
  <2>2. Considers(t) /\ UNCHANGED <<status, deps, closing>> /\ writes' = [writes EXCEPT ![t] = verdict]
    BY <2>1 DEF TurnDown, rows
  <2> QED  BY <2>1, <2>2, TurnDownKeeps, DecideIsRelease DEF Rules!Next
<1>8. ASSUME NEW t \in Tasks, LeavePending(t)
      PROVE  IInv' /\ [Rules!Next]_Rules!vars
  <2>1. Considers(t) /\ UNCHANGED <<status, deps, closing, writes>>
    BY <1>8 DEF LeavePending, rows
  <2>2. writes' = [writes EXCEPT ![t] = writes[t]] /\ writes[t] \in {"none", "active", "failed", "canceled"}
    BY <2>1 DEF IInv, Typed
  <2> QED  BY <1>8, <2>1, <2>2, LeaveKeeps, DecideIsRelease DEF Rules!Next
<1>9. ASSUME NEW t \in Tasks, NEW refused \in BOOLEAN, StartTask(t, refused)
      PROVE  IInv' /\ [Rules!Next]_Rules!vars
  <2>1. /\ Considers(t) /\ UNCHANGED <<status, deps, closing>>
        /\ \E v \in {"active", "failed"} : writes' = [writes EXCEPT ![t] = v]
    BY <1>9 DEF StartTask, rows
  <2> QED  BY <1>9, <2>1, StartKeeps, DecideIsRelease DEF Rules!Next
<1>10. ASSUME NEW t \in Tasks, Launch(t)
       PROVE  IInv' /\ [Rules!Next]_Rules!vars
  BY <1>10, LaunchKeeps DEF Rules!Next
<1>11. ASSUME NEW t \in Tasks, EndTask(t)
       PROVE  IInv' /\ [Rules!Next]_Rules!vars
  BY <1>11, EndKeeps DEF Rules!Next
<1>12. ASSUME NEW t \in Tasks, Cancel(t) \/ CancelCloses(t) \/ Expire(t)
       PROVE  IInv' /\ [Rules!Next]_Rules!vars
  <2>1. CASE Cancel(t)
    BY <2>1, CancelKeeps DEF Rules!Next
  <2>2. CASE Expire(t)
    BY <2>2, OthersKeep, SameIsStutter DEF Expire, pass
  <2>3. CASE CancelCloses(t)
    BY <2>3, CloseKeeps DEF Rules!Next
  <2> QED  BY <1>12, <2>1, <2>2, <2>3
<1>13. ASSUME NEW t \in Tasks, ExceedQuota(t)
       PROVE  IInv' /\ [Rules!Next]_Rules!vars
  BY <1>13, QuotaKeeps DEF Rules!Next
<1>14. ASSUME NEW n \in Nodes, LoseController(n)
       PROVE  IInv' /\ [Rules!Next]_Rules!vars
  BY <1>14, LoseKeeps DEF Rules!Next
<1>15. CASE UNCHANGED vars
  BY <1>15, OthersKeep, SameIsStutter DEF vars, pass
<1>16. ASSUME Next
       PROVE  \/ ResolveDependencies \/ Commit \/ ReadTasks \/ ReadDependencies
              \/ TimeOut \/ PassDies
              \/ \E t \in Tasks : \/ CancelPending(t) \/ FailForDependency(t)
                                  \/ LeavePending(t) \/ Launch(t) \/ EndTask(t)
                                  \/ Cancel(t) \/ CancelCloses(t) \/ Expire(t)
                                  \/ ExceedQuota(t)
                                  \/ \E refused \in BOOLEAN : StartTask(t, refused)
              \/ \E n \in Nodes : LoseController(n)
  BY <1>16 DEF Next, TaskManagerStep, Decides
<1> QED  BY <1>1, <1>2, <1>3, <1>4, <1>5, <1>6, <1>7, <1>8, <1>9, <1>10,
            <1>11, <1>12, <1>13, <1>14, <1>15, <1>16

\* What a pass has written is allowed at every moment until its commit.
THEOREM Invariant == Spec => []IInv
<1>1. Init => IInv
  BY InitIInv
<1>2. IInv /\ [Next]_vars => IInv'
  BY StepKeeps
<1> QED  BY <1>1, <1>2, PTL DEF Spec

\* The task manager keeps the rules: task_manager.py implements what
\* docs/task_manager_system.md says of blocking and of dependencies.
THEOREM Implements == Spec => KeepsTheRules
<1>1. Init => Rules!Init
  BY InitIInv
<1>2. IInv /\ [Next]_vars => [Rules!Next]_Rules!vars
  BY StepKeeps
<1> QED  BY <1>1, <1>2, Invariant, PTL DEF Spec, KeepsTheRules, Rules!Spec
-----------------------------------------------------------------------------
(* One update at a time: the latest one is the only one that can be        *)
(* unfinished, and nobody makes a new one beside it.                       *)

Unfinished(u) == status[u] \in {"pending", "active"}

\* A row exists once it has a time of creation.
Clocked ==
    /\ clock \in Nat /\ born \in [Tasks -> Nat]
    /\ \A t \in Tasks : born[t] <= clock /\ (status[t] = "new" <=> born[t] = 0)

Younger ==
    \A k : UpdatesOf(k) \cap Launchable = {} =>
        \A u, v \in UpdatesOf(k) : Unfinished(u) /\ v # u => born[v] < born[u]

\* Whatever neither makes a row nor takes up one that had ended.
LEMMA NothingMade ==
    ASSUME Clocked, Younger, UNCHANGED <<born, clock>>,
           \A t \in Tasks : /\ Unfinished(t)' => Unfinished(t) \/ IsWorkflow(t)
                            /\ status'[t] = "new" <=> status[t] = "new"
    PROVE  Clocked' /\ Younger'
<1>1. Clocked'
  BY DEF Clocked
<1>2. \A k : \A u \in UpdatesOf(k) : u \in Tasks /\ ~IsWorkflow(u)
  BY DEF UpdatesOf, IsUpdate, IsWorkflow
<1>3. Younger'
  BY <1>2 DEF Younger, UpdatesOf
<1> QED  BY <1>1, <1>3

LEMMA ResolveMakesOne ==
    ASSUME Typed, Clocked, Younger, ResolveDependencies
    PROVE  Clocked' /\ Younger'
<1> DEFINE first  == {t \in Tasks : status[t] = "pending" /\ t \notin processed}
           looked == first \cup (UpdatesFor(first) \ processed)
           made   == {u \in UpdatesFor(looked) : status[u] = "new"}
<1>1. /\ status' = [t \in Tasks |-> IF t \in made THEN "pending" ELSE status[t]]
      /\ born' = [t \in Tasks |-> IF t \in made THEN clock + 1 ELSE born[t]]
      /\ clock' = clock + 1
  BY DEF ResolveDependencies
<1>2. \A m \in made : \E k : m \in UpdateFor(k) /\ status[m] = "new"
  BY DEF UpdatesFor
<1> HIDE DEF first, looked, made
<1>3. \A k : \A u \in UpdateFor(k) : u \in UpdatesOf(k) /\ u \in Tasks
  BY DEF UpdateFor, Latest, Spare, UpdatesOf
<1>4. \A t \in Tasks : /\ t \in made => status'[t] = "pending" /\ born'[t] = clock + 1
                       /\ t \notin made => status'[t] = status[t] /\ born'[t] = born[t]
  BY <1>1
<1>5. Clocked'
  BY <1>1, <1>4 DEF Clocked
<1>6. \A k : \A m \in made : m \in UpdatesOf(k) => m \in UpdateFor(k)
  BY <1>2, <1>3 DEF UpdatesOf
\* What is made is the one spare row, and no update that stands was found.
<1>7. \A k : \A m \in made : m \in UpdatesOf(k) =>
          /\ m = CHOOSE v \in Spare(k) : TRUE
          /\ ~ \E u \in Latest(k) : Stands(u)
  <2> SUFFICES ASSUME NEW k, NEW m \in made, m \in UpdatesOf(k)
               PROVE  /\ m = CHOOSE v \in Spare(k) : TRUE
                      /\ ~ \E u \in Latest(k) : Stands(u)
    OBVIOUS
  <2>1. m \in UpdateFor(k) /\ m \in Tasks /\ status[m] = "new"
    BY <1>2, <1>3, <1>6
  <2>2. m \notin Latest(k)
    BY <2>1 DEF Latest, Clocked
  <2> QED  BY <2>1, <2>2 DEF UpdateFor
<1>8. Younger'
  <2> SUFFICES ASSUME NEW k, UpdatesOf(k) \cap Launchable = {},
                      NEW u \in UpdatesOf(k), NEW v \in UpdatesOf(k),
                      Unfinished(u)', v # u
               PROVE  born'[v] < born'[u]
    BY DEF Younger, UpdatesOf
  <2>1. u \in Tasks /\ v \in Tasks
    BY DEF UpdatesOf
  <2>2. CASE u \in made
    <3>1. v \notin made
      BY <1>7, <2>2
    <3> QED  BY <1>4, <2>1, <2>2, <3>1 DEF Clocked
  <2>3. CASE u \notin made
    <3>1. Unfinished(u)
      BY <1>4, <2>1, <2>3 DEF Unfinished
    <3>2. \A w \in UpdatesOf(k) : w # u => born[w] < born[u]
      BY <3>1 DEF Younger
    <3>3. born[u] > 0 /\ \A w \in UpdatesOf(k) : born[w] <= born[u]
      BY <2>1, <3>1, <3>2 DEF Unfinished, Clocked, UpdatesOf
    <3>4. u \in Latest(k) /\ Stands(u)
      BY <3>1, <3>3 DEF Latest, Stands, Unfinished
    <3>5. v \notin made
      BY <1>7, <3>4
    <3> QED  BY <1>4, <2>1, <2>3, <3>2, <3>5
  <2> QED  BY <2>2, <2>3
<1> QED  BY <1>5, <1>8

LEMMA LaunchIsNoUpdate ==
    ASSUME Typed, Clocked, Younger, NEW t \in Tasks, Launch(t)
    PROVE  Clocked' /\ Younger'
<1>1. /\ t \in Launchable /\ status' = [status EXCEPT ![t] = "pending"]
      /\ born' = [born EXCEPT ![t] = clock + 1] /\ clock' = clock + 1
  BY DEF Launch
<1>2. Clocked'
  BY <1>1 DEF Clocked, Typed
<1>3. \A s \in Tasks \ {t} : status'[s] = status[s] /\ born'[s] = born[s]
  BY <1>1 DEF Clocked, Typed
<1>4. Younger'
  <2> SUFFICES ASSUME NEW k, UpdatesOf(k) \cap Launchable = {},
                      NEW u \in UpdatesOf(k), NEW v \in UpdatesOf(k),
                      Unfinished(u)', v # u
               PROVE  born'[v] < born'[u]
    BY DEF Younger, UpdatesOf
  <2>1. u \in Tasks \ {t} /\ v \in Tasks \ {t}
    BY <1>1 DEF UpdatesOf
  <2> QED  BY <1>3, <2>1 DEF Younger, Unfinished
<1> QED  BY <1>2, <1>4

LEMMA StepMakesOne == IInv /\ Clocked /\ Younger /\ [Next]_vars => Clocked' /\ Younger'
<1> SUFFICES ASSUME IInv, Clocked, Younger, [Next]_vars  PROVE Clocked' /\ Younger'
  OBVIOUS
<1>1. CASE ResolveDependencies
  BY <1>1, ResolveMakesOne DEF IInv
<1>2. ASSUME NEW t \in Tasks, Launch(t)  PROVE Clocked' /\ Younger'
  BY <1>2, LaunchIsNoUpdate DEF IInv
<1>3. CASE Commit
  <2>1. status' = [t \in Tasks |-> IF writes[t] = "none" THEN status[t] ELSE writes[t]]
    BY <1>3 DEF Commit
  <2>2. \A t \in Tasks : /\ writes[t] # "none" => Waits(t)
                         /\ writes[t] \in {"none", "active", "failed", "canceled"}
    BY DEF IInv, Typed, Written, Waits
  <2>3. \A t \in Tasks : /\ Unfinished(t)' => Unfinished(t) \/ IsWorkflow(t)
                         /\ status'[t] = "new" <=> status[t] = "new"
    BY <2>1, <2>2 DEF Unfinished, Waits
  <2> QED  BY <1>3, <2>3, NothingMade DEF Commit
<1>4. ASSUME NEW t \in Tasks, EndTask(t) \/ ExceedQuota(t)  PROVE Clocked' /\ Younger'
  <2>1. /\ status[t] = "active"
        /\ \E s \in Ended \cup {"pending"} : status' = [status EXCEPT ![t] = s]
        /\ UNCHANGED <<born, clock>>
    BY <1>4 DEF EndTask, ExceedQuota
  <2>2. \A s \in Tasks : /\ Unfinished(s)' => Unfinished(s)
                         /\ status'[s] = "new" <=> status[s] = "new"
    BY <2>1 DEF Unfinished, Ended, IInv, Typed
  <2> QED  BY <2>1, <2>2, NothingMade
<1>5. ASSUME NEW n \in Nodes, LoseController(n)  PROVE Clocked' /\ Younger'
  <2>1. \A s \in Tasks : /\ Unfinished(s)' => Unfinished(s)
                         /\ status'[s] = "new" <=> status[s] = "new"
    BY <1>5 DEF LoseController, Unfinished
  <2> QED  BY <1>5, <2>1, NothingMade DEF LoseController
<1>6. CASE UNCHANGED <<status, born, clock>>
  <2>1. \A s \in Tasks : /\ Unfinished(s)' => Unfinished(s)
                         /\ status'[s] = "new" <=> status[s] = "new"
    BY <1>6 DEF Unfinished
  <2> QED  BY <1>6, <2>1, NothingMade
<1>7. CASE Next
  <2>1. CASE (TaskManagerStep /\ ~Commit) \/ TimeOut \/ PassDies
    BY <1>6, <2>1 DEF TaskManagerStep, ReadTasks, ReadDependencies, Decides, CancelPending,
       FailForDependency, TurnDown, LeavePending, StartTask, TimeOut, PassDies, rows
  <2>2. ASSUME NEW t \in Tasks, StartTask(t, TRUE) \/ Cancel(t) \/ Expire(t)
        PROVE  Clocked' /\ Younger'
    BY <1>6, <2>2 DEF StartTask, Cancel, Expire, rows
  <2>3. ASSUME NEW t \in Tasks, CancelCloses(t)  PROVE Clocked' /\ Younger'
    <3>1. t \in closing /\ UNCHANGED <<born, clock>>
      BY <2>3 DEF CancelCloses
    <3>2. \A s \in Tasks : status'[s] = status[s] \/ (s = t /\ status'[s] = "canceled")
      BY <2>3 DEF CancelCloses, IInv, Typed
    <3>3. status[t] # "new"
      BY <3>1 DEF IInv, NoNewDeps
    <3>4. \A s \in Tasks : /\ Unfinished(s)' => Unfinished(s)
                           /\ status'[s] = "new" <=> status[s] = "new"
      BY <3>2, <3>3 DEF Unfinished
    <3> QED  BY <3>1, <3>4, NothingMade
  <2> QED  BY <1>1, <1>2, <1>3, <1>4, <1>5, <1>7, <2>1, <2>2, <2>3 DEF Next
<1> QED  BY <1>6, <1>7 DEF vars

\* Jobs share the updates they wait for: DependencyManager makes none beside an
\* unfinished one, however many jobs are launched and passes are made meanwhile.
THEOREM UpdatesAreShared == Spec => []OneUpdateAtATime
<1>1. Init => Clocked /\ Younger
  BY DEF Init, Clocked, Younger, Unfinished, UpdatesOf
<1>2. IInv /\ Clocked /\ Younger /\ [Next]_vars => Clocked' /\ Younger'
  BY StepMakesOne
<1>3. Clocked /\ Younger => OneUpdateAtATime
  <2> SUFFICES ASSUME Clocked, Younger, NEW k \in OnLaunch, UpdatesOf(k) \cap Launchable = {},
                      NEW u \in UpdatesOf(k), NEW v \in UpdatesOf(k),
                      Unfinished(u), Unfinished(v), u # v
               PROVE  FALSE
    BY DEF OneUpdateAtATime, Unfinished
  <2>1. born[v] < born[u] /\ born[u] < born[v]
    BY DEF Younger
  <2> QED  BY <2>1 DEF Clocked, UpdatesOf
<1> QED  BY <1>1, <1>2, <1>3, Invariant, PTL DEF Spec
-----------------------------------------------------------------------------
(* Types, and where a task is put.                                         *)

\* A task that will start has a place, and somebody who controls it.
Put(t, site) == site \in Places /\ (Kind(t) = "workflow job" \/ site.controller \in Nodes)
Placed == \A t \in Tasks : writes[t] = "active" => t \in DOMAIN on /\ Put(t, on[t])

LEMMA FitsOnNodes ==
    ASSUME NEW g \in Groups, NEW type, NEW impact, NEW cost, NEW at
    PROVE  Fit(g, type, impact, cost, at) \subseteq Nodes /\ LargestIdle(g, type, at) \subseteq Nodes
BY GroupsAssumption DEF Fit, LargestIdle, OfType

LEMMA PutAt ==
    ASSUME NEW t \in Tasks, NEW g \in Groups \cup {None}, NEW n \in Nodes \cup {None}, NEW c \in Nodes
    PROVE  Put(t, [group |-> g, node |-> n, controller |-> c])
BY DEF Put, Places

LEMMA SitesArePlaces ==
    ASSUME NEW t \in Tasks, NEW at, NEW site \in Sites(t, at)
    PROVE  Put(t, site)
<1>1. Controllers(t, at) \subseteq Nodes
  BY FitsOnNodes, GroupsAssumption DEF Controllers
<1>2. \A g \in Groups : Hosts(t, g, at) \subseteq Nodes
  BY FitsOnNodes DEF Hosts
<1>3. ASSUME NEW g \in Groups, site \in PlacesIn(t, g, at)  PROVE Put(t, site)
  <2>1. CASE GroupInfo[g].container
    <3>1. PICK c \in Controllers(t, at) : site = [group |-> g, node |-> None, controller |-> c]
      BY <1>3, <2>1 DEF PlacesIn
    <3> QED  BY <1>1, <3>1, PutAt
  <2>2. CASE ~GroupInfo[g].container
    <3>1. PICK p \in Hosts(t, g, at) \X Controllers(t, at) :
             site = [group |-> g, node |-> p[1],
                     controller |-> IF NodeInfo[p[1]].type = "hybrid" THEN p[1] ELSE p[2]]
      BY <1>3, <2>2 DEF PlacesIn
    <3>2. p[1] \in Nodes /\ p[2] \in Nodes
      BY <1>1, <1>2
    <3>3. PICK c \in Nodes : c = IF NodeInfo[p[1]].type = "hybrid" THEN p[1] ELSE p[2]
      BY <3>2
    <3> QED  BY <3>1, <3>2, <3>3, PutAt
  <2> QED  BY <2>1, <2>2
<1>4. CASE Kind(t) = "workflow job"
  <2>1. site = Nowhere
    BY <1>4 DEF Sites
  <2>2. Nowhere \in Places
    BY DEF Nowhere, Places
  <2> QED  BY <1>4, <2>1, <2>2 DEF Put
<1>5. CASE Kind(t) # "workflow job" /\ OnControlPlane(t)
  <2>1. PICK c \in Controllers(t, at) :
           site = [group |-> ControlPlane, node |-> c, controller |-> c]
    BY <1>5 DEF Sites
  <2> QED  BY <1>1, <2>1, GroupsAssumption, PutAt
<1>6. CASE Kind(t) # "workflow job" /\ ~OnControlPlane(t)
  <2>1. PICK i \in DOMAIN Info[t].groups : site \in PlacesIn(t, Info[t].groups[i], at)
    BY <1>6 DEF Sites
  <2>2. Info[t].groups \in Seq(Groups)
    BY InfoAssumption
  <2>3. Info[t].groups[i] \in Groups
    BY <2>2
  <2> QED  BY <1>3, <2>1, <2>3
<1> QED  BY <1>4, <1>5, <1>6

RowsTyped ==
    /\ status \in [Tasks -> {"new", "pending", "active"} \cup Ended]
    /\ deps \in [Tasks -> SUBSET Tasks]
    /\ processed \subseteq Tasks /\ flagged \subseteq Tasks /\ fresh \subseteq Tasks
    /\ closing \subseteq Tasks
    /\ place \in [Tasks -> Places]
    /\ born \in [Tasks -> Nat] /\ clock \in Nat
PassTyped ==
    /\ pc \in {"idle", "listed", "deciding"}
    /\ todo \subseteq Tasks /\ asked \subseteq Tasks
    /\ heard \in [Tasks -> {"failed", "unfinished", "clear"}]
    /\ on \in [DOMAIN on -> Places] /\ DOMAIN on \subseteq Tasks
    /\ writes \in [Tasks -> {"none", "active", "failed", "canceled"}]
    /\ left \in 0 .. StartLimit
FewFaults == faults \in 0 .. MaxFaults
Started ==
    \A t \in Tasks : status[t] = "active" =>
        t \in processed /\ (Kind(t) = "workflow job" \/ place[t].controller \in Nodes)

TInv == RowsTyped /\ PassTyped /\ FewFaults /\ Started /\ Placed

LEMMA Limits == StartLimit \in Nat /\ MaxFaults \in Nat
BY NumbersAssumption

LEMMA OneMore ==
    FewFaults /\ (faults' = faults \/ (faults < MaxFaults /\ faults' = faults + 1)) => FewFaults'
BY Limits DEF FewFaults

\* What reads and writes only the pass, and what reads and writes only the rows.
LEMMA SameRows == RowsTyped /\ Started /\ UNCHANGED rows => RowsTyped' /\ Started'
BY DEF RowsTyped, Started, rows

LEMMA SamePass == PassTyped /\ Placed /\ UNCHANGED pass => PassTyped' /\ Placed'
BY DEF PassTyped, Placed, pass

LEMMA RestTyped == PassEnds => PassTyped' /\ Placed'
<1> SUFFICES ASSUME PassEnds  PROVE PassTyped' /\ Placed'
  OBVIOUS
<1>1. on' = NoneCounted /\ writes' = NothingWritten
  BY DEF PassEnds
<1>2. on' \in [DOMAIN on' -> Places] /\ DOMAIN on' \subseteq Tasks
  BY <1>1 DEF NoneCounted
<1>3. Placed'
  BY <1>1 DEF Placed, NothingWritten
<1>4. left' \in 0 .. StartLimit
  BY Limits DEF PassEnds
<1> QED  BY <1>2, <1>3, <1>4 DEF PassEnds, PassTyped, NothingRead, NothingWritten

LEMMA ResolveTyped == IInv /\ TInv /\ ResolveDependencies => TInv'
<1> SUFFICES ASSUME IInv, TInv, ResolveDependencies  PROVE TInv'
  OBVIOUS
<1> DEFINE first  == {t \in Tasks : status[t] = "pending" /\ t \notin processed}
           looked == first \cup (UpdatesFor(first) \ processed)
           made   == {u \in UpdatesFor(looked) : status[u] = "new"}
<1>1. /\ status' = [t \in Tasks |-> IF t \in made THEN "pending" ELSE status[t]]
      /\ born' = [t \in Tasks |-> IF t \in made THEN clock + 1 ELSE born[t]]
      /\ clock' = clock + 1
      /\ UNCHANGED <<flagged, place, fresh, pass, faults, closing>>
  BY DEF ResolveDependencies
<1>2. processed \subseteq processed'
  BY DEF ResolveDependencies
<1>3. /\ status' \in [Tasks -> {"new", "pending", "active"} \cup Ended]
      /\ deps' \in [Tasks -> SUBSET Tasks] /\ processed' \subseteq Tasks
  BY ResolveKeeps DEF IInv, Typed
<1> HIDE DEF made
<1>4. \A t \in Tasks : status'[t] = "active" => status[t] = "active"
  BY <1>1
<1>5. born' \in [Tasks -> Nat] /\ clock' \in Nat
  BY <1>1 DEF TInv, RowsTyped
<1>6. RowsTyped'
  BY <1>1, <1>3, <1>5 DEF TInv, RowsTyped
<1>7. Started'
  BY <1>1, <1>2, <1>4 DEF TInv, Started
<1> QED  BY <1>1, <1>6, <1>7, OneMore, SamePass DEF TInv

LEMMA ReadTyped == IInv /\ TInv /\ (ReadTasks \/ ReadDependencies) => TInv'
<1> SUFFICES ASSUME IInv, TInv, ReadTasks \/ ReadDependencies  PROVE TInv'
  OBVIOUS
<1>1. UNCHANGED <<rows, writes, faults>>
  BY DEF ReadTasks, ReadDependencies
<1>2. /\ todo' \subseteq Tasks
      /\ heard' \in [Tasks -> {"failed", "unfinished", "clear"}]
  BY ReadTasksKeeps, ReadDependenciesKeeps DEF IInv, Typed
<1>3. CASE ReadTasks
  <2>1. /\ asked' \subseteq todo' /\ left' = StartLimit /\ pc' = "listed"
        /\ on' = [t \in {s \in processed : status[s] = "active"} |-> place[t]]
        /\ writes' = NothingWritten
    BY <1>1, <1>3 DEF ReadTasks, IInv, Unwritten
  <2>2. on' \in [DOMAIN on' -> Places] /\ DOMAIN on' \subseteq Tasks
    BY <2>1 DEF TInv, RowsTyped
  <2>3. left' \in 0 .. StartLimit
    BY <2>1, Limits
  <2>4. PassTyped'
    BY <1>2, <2>1, <2>2, <2>3 DEF PassTyped, NothingWritten
  <2>5. Placed'
    BY <2>1 DEF Placed, NothingWritten
  <2> QED  BY <1>1, <2>4, <2>5, SameRows, OneMore DEF TInv
<1>4. CASE ReadDependencies
  <2>1. pc' = "deciding" /\ UNCHANGED <<todo, asked, on, writes, left>>
    BY <1>4 DEF ReadDependencies
  <2>2. PassTyped'
    BY <1>2, <2>1 DEF TInv, PassTyped
  <2>3. Placed'
    BY <2>1 DEF TInv, Placed
  <2> QED  BY <1>1, <2>2, <2>3, SameRows, OneMore DEF TInv
<1> QED  BY <1>3, <1>4

LEMMA DecideTyped ==
    ASSUME TInv, NEW t \in Tasks,
           CancelPending(t) \/ FailForDependency(t) \/ LeavePending(t) \/ TimeOut
    PROVE  TInv'
<1>1. /\ todo' \subseteq todo
      /\ faults' = faults \/ (faults < MaxFaults /\ faults' = faults + 1)
      /\ \E v \in {writes[t], "canceled", "failed"} : writes' = [writes EXCEPT ![t] = v]
      /\ UNCHANGED <<rows, pc, asked, heard, on, left>>
  <2>1. CASE TimeOut \/ LeavePending(t)
    <3>1. writes' = [writes EXCEPT ![t] = writes[t]]
      BY <2>1 DEF TimeOut, LeavePending, TInv, PassTyped
    <3> QED  BY <2>1, <3>1 DEF TimeOut, LeavePending, Considers
  <2>2. CASE CancelPending(t) \/ FailForDependency(t)
    BY <2>2 DEF CancelPending, FailForDependency, TurnDown, Considers
  <2> QED  BY <2>1, <2>2
<1>2. PassTyped'
  BY <1>1 DEF TInv, PassTyped
<1>3. \A s \in Tasks : writes'[s] = "active" => writes[s] = "active"
  BY <1>1 DEF TInv, PassTyped
<1>4. Placed'
  BY <1>1, <1>3 DEF TInv, Placed
<1> QED  BY <1>1, <1>2, <1>4, SameRows, OneMore DEF TInv

LEMMA StartTyped ==
    ASSUME TInv, NEW t \in Tasks, NEW refused \in BOOLEAN, StartTask(t, refused)
    PROVE  TInv'
<1>1. PICK site \in Sites(t, on) :
         on' = [s \in DOMAIN on \cup {t} |-> IF s = t THEN site ELSE on[s]]
  BY DEF StartTask
<1>2. Put(t, site)
  BY SitesArePlaces
<1>3. /\ todo' \subseteq todo /\ left > 0 /\ left' = left - 1
      /\ writes' \in {[writes EXCEPT ![t] = "failed"], [writes EXCEPT ![t] = "active"]}
      /\ UNCHANGED <<rows, pc, asked, heard>>
  BY DEF StartTask, Considers
<1>4. faults' = faults \/ (faults < MaxFaults /\ faults' = faults + 1)
  BY DEF StartTask
<1>5. left' \in 0 .. StartLimit
  BY <1>3, Limits DEF TInv, PassTyped
<1>6. on' \in [DOMAIN on' -> Places] /\ DOMAIN on' \subseteq Tasks
  BY <1>1, <1>2 DEF Put, TInv, PassTyped
<1>7. writes' \in [Tasks -> {"none", "active", "failed", "canceled"}]
  BY <1>3 DEF TInv, PassTyped
<1>8. PassTyped'
  BY <1>3, <1>5, <1>6, <1>7 DEF TInv, PassTyped
<1>9. Placed'
  <2> SUFFICES ASSUME NEW s \in Tasks, writes'[s] = "active"
               PROVE  s \in DOMAIN on' /\ Put(s, on'[s])
    BY DEF Placed
  <2>1. CASE s = t
    BY <1>1, <1>2, <2>1
  <2>2. CASE s # t
    <3>1. writes[s] = "active"
      BY <1>3, <2>2 DEF TInv, PassTyped
    <3>2. s \in DOMAIN on /\ Put(s, on[s])
      BY <3>1 DEF TInv, Placed
    <3> QED  BY <1>1, <2>2, <3>2
  <2> QED  BY <2>1, <2>2
<1> QED  BY <1>3, <1>4, <1>8, <1>9, SameRows, OneMore DEF TInv

LEMMA CommitTyped == IInv /\ TInv /\ Commit => TInv'
<1> SUFFICES ASSUME IInv, TInv, Commit  PROVE TInv'
  OBVIOUS
<1> DEFINE saved == {t \in DOMAIN on : writes[t] # "none"}
<1>1. /\ status' = [t \in Tasks |-> IF writes[t] = "none" THEN status[t] ELSE writes[t]]
      /\ place' = [t \in Tasks |-> IF t \in saved THEN on[t] ELSE place[t]]
      /\ flagged' \subseteq flagged /\ PassEnds
      /\ UNCHANGED <<deps, processed, born, clock, fresh, faults, closing>>
  BY DEF Commit
<1>2. /\ status' \in [Tasks -> {"new", "pending", "active"} \cup Ended]
      /\ place' \in [Tasks -> Places]
  <2>1. place' \in [Tasks -> Places]
    BY <1>1 DEF TInv, RowsTyped, PassTyped
  <2> QED  BY <2>1, CommitKeeps DEF IInv, Typed
<1>3. ASSUME NEW t \in Tasks, status'[t] = "active"
      PROVE  t \in processed /\ (Kind(t) = "workflow job" \/ place'[t].controller \in Nodes)
  <2>1. CASE writes[t] = "none"
    <3>1. status[t] = "active" /\ place'[t] = place[t]
      BY <1>1, <1>3, <2>1
    <3> QED  BY <3>1 DEF TInv, Started
  <2>2. CASE writes[t] # "none"
    <3>1. writes[t] = "active" /\ t \in processed
      BY <1>1, <1>3, <2>2 DEF IInv, Written, Waits
    <3>2. t \in DOMAIN on /\ Put(t, on[t])
      BY <3>1 DEF TInv, Placed
    <3>3. place'[t] = on[t]
      BY <1>1, <2>2, <3>2
    <3> QED  BY <3>1, <3>2, <3>3 DEF Put
  <2> QED  BY <2>1, <2>2
<1> HIDE DEF saved
<1>4. RowsTyped'
  BY <1>1, <1>2 DEF TInv, RowsTyped
<1>5. Started'
  BY <1>1, <1>3 DEF Started
<1> QED  BY <1>1, <1>4, <1>5, OneMore, RestTyped DEF TInv

LEMMA DiesTyped == TInv /\ PassDies => TInv'
BY RestTyped, SameRows, OneMore DEF TInv, PassDies

\* Users, and tasks that end or are handed back: the pass keeps what it has.
LEMMA UsersTyped ==
    ASSUME IInv', TInv, UNCHANGED pass, place' \in [Tasks -> Places],
           processed' = processed, born' \in [Tasks -> Nat], clock' \in Nat,
           flagged' \subseteq Tasks, fresh' \subseteq Tasks,
           faults' = faults \/ (faults < MaxFaults /\ faults' = faults + 1),
           \A t \in Tasks : status'[t] = "active" => status[t] = "active" /\ place'[t] = place[t]
    PROVE  TInv'
<1>1. /\ status' \in [Tasks -> {"new", "pending", "active"} \cup Ended]
      /\ deps' \in [Tasks -> SUBSET Tasks] /\ closing' \subseteq Tasks
  BY DEF IInv, Typed
<1>2. RowsTyped'
  BY <1>1 DEF TInv, RowsTyped
<1>3. Started'
  BY DEF TInv, Started
<1> QED  BY <1>2, <1>3, OneMore, SamePass DEF TInv

LEMMA StepTyped == IInv /\ TInv /\ [Next]_vars => TInv'
<1> SUFFICES ASSUME IInv, TInv, [Next]_vars  PROVE TInv'
  OBVIOUS
<1>i. IInv'
  BY StepKeeps
<1>r. RowsTyped
  BY DEF TInv
<1>1. CASE ResolveDependencies
  BY <1>1, ResolveTyped
<1>2. CASE ReadTasks \/ ReadDependencies
  BY <1>2, ReadTyped
<1>3. CASE Commit
  BY <1>3, CommitTyped
<1>4. CASE PassDies
  BY <1>4, DiesTyped
<1>5. CASE TimeOut
  <2>1. \E t \in Tasks : TRUE
    BY <1>5 DEF TimeOut, TInv, PassTyped
  <2> QED  BY <1>5, <2>1, DecideTyped
<1>6. ASSUME NEW t \in Tasks, CancelPending(t) \/ FailForDependency(t) \/ LeavePending(t)
      PROVE  TInv'
  BY <1>6, DecideTyped
<1>7. ASSUME NEW t \in Tasks, NEW refused \in BOOLEAN, StartTask(t, refused)  PROVE TInv'
  BY <1>7, StartTyped
<1>8. ASSUME NEW t \in Tasks, Launch(t)  PROVE TInv'
  <2>1. UNCHANGED <<pass, place, processed, flagged, fresh, faults>>
    BY <1>8 DEF Launch
  <2>2. born' \in [Tasks -> Nat] /\ clock' \in Nat
    BY <1>8, <1>r DEF Launch, RowsTyped
  <2>3. \A s \in Tasks : status'[s] = "active" => status[s] = "active"
    BY <1>8, <1>r DEF Launch, RowsTyped
  <2>4. place' \in [Tasks -> Places] /\ flagged' \subseteq Tasks /\ fresh' \subseteq Tasks
    BY <2>1, <1>r DEF RowsTyped
  <2> QED  BY <1>i, <2>1, <2>2, <2>3, <2>4, UsersTyped
<1>9. ASSUME NEW t \in Tasks, Cancel(t)  PROVE TInv'
  <2>1. UNCHANGED <<status, processed, place, born, clock, fresh, pass, faults>>
    BY <1>9 DEF Cancel
  <2>2. PICK chain \in FailChains(t) : flagged' \subseteq flagged \cup chain \cup {t}
    BY <1>9 DEF Cancel
  <2>3. chain \subseteq Tasks
    BY ChainsAreTasks, <1>r DEF RowsTyped
  <2>4. /\ flagged' \subseteq Tasks
        /\ place' \in [Tasks -> Places] /\ fresh' \subseteq Tasks
        /\ born' \in [Tasks -> Nat] /\ clock' \in Nat
    BY <2>1, <2>2, <2>3, <1>r DEF RowsTyped
  <2> QED  BY <1>i, <2>1, <2>4, UsersTyped
<1>10. ASSUME NEW t \in Tasks, EndTask(t) \/ ExceedQuota(t)  PROVE TInv'
  <2>1. /\ UNCHANGED <<processed, flagged, place, born, clock, pass>>
        /\ fresh' \subseteq fresh \cup {t}
        /\ faults' = faults \/ (faults < MaxFaults /\ faults' = faults + 1)
    BY <1>10 DEF EndTask, ExceedQuota
  <2>2. PICK s \in Ended \cup {"pending"} : status' = [status EXCEPT ![t] = s]
    BY <1>10 DEF EndTask, ExceedQuota
  <2>3. \A r \in Tasks : status'[r] = "active" => status[r] = "active"
    BY <2>2, <1>r DEF Ended, RowsTyped
  <2>4. /\ flagged' \subseteq Tasks
        /\ place' \in [Tasks -> Places] /\ fresh' \subseteq Tasks
        /\ born' \in [Tasks -> Nat] /\ clock' \in Nat
    BY <2>1, <1>r DEF RowsTyped
  <2> QED  BY <1>i, <2>1, <2>3, <2>4, UsersTyped
<1>11. ASSUME NEW n \in Nodes, LoseController(n)  PROVE TInv'
  <2>1. PICK waiting :
           /\ status' = [t \in Tasks |-> IF t \in waiting THEN "pending" ELSE status[t]]
           /\ place' = [t \in Tasks |-> IF t \in waiting
                                        THEN [place[t] EXCEPT !.node = None, !.controller = None]
                                        ELSE place[t]]
    BY <1>11 DEF LoseController
  <2>2. /\ UNCHANGED <<processed, flagged, born, clock, fresh, pass>>
        /\ faults < MaxFaults /\ faults' = faults + 1
    BY <1>11 DEF LoseController
  <2>3. \A p \in Places : [p EXCEPT !.node = None, !.controller = None] \in Places
    BY DEF Places
  <2>4. place' \in [Tasks -> Places]
    BY <2>1, <2>3, <1>r DEF RowsTyped
  <2>5. \A s \in Tasks : status'[s] = "active" => status[s] = "active" /\ place'[s] = place[s]
    BY <2>1
  <2>6. /\ flagged' \subseteq Tasks /\ fresh' \subseteq Tasks
        /\ born' \in [Tasks -> Nat] /\ clock' \in Nat
    BY <2>2, <1>r DEF RowsTyped
  <2> QED  BY <1>i, <2>2, <2>4, <2>5, <2>6, UsersTyped
<1>14. ASSUME NEW t \in Tasks, CancelCloses(t)  PROVE TInv'
  <2>1. /\ UNCHANGED <<processed, flagged, place, born, clock, fresh, pass, faults>>
        /\ status' \in {status, [status EXCEPT ![t] = "canceled"]}
    BY <1>14 DEF CancelCloses
  <2>2. \A s \in Tasks : status'[s] = "active" => status[s] = "active"
    BY <2>1, <1>r DEF RowsTyped
  <2>3. /\ flagged' \subseteq Tasks
        /\ place' \in [Tasks -> Places] /\ fresh' \subseteq Tasks
        /\ born' \in [Tasks -> Nat] /\ clock' \in Nat
    BY <2>1, <1>r DEF RowsTyped
  <2> QED  BY <1>i, <2>1, <2>2, <2>3, UsersTyped
<1>12. ASSUME NEW t \in Tasks, Expire(t)  PROVE TInv'
  <2>1. /\ UNCHANGED <<status, processed, flagged, place, born, clock, pass, faults>>
        /\ fresh' \subseteq fresh
    BY <1>12 DEF Expire
  <2>2. /\ flagged' \subseteq Tasks
        /\ place' \in [Tasks -> Places] /\ fresh' \subseteq Tasks
        /\ born' \in [Tasks -> Nat] /\ clock' \in Nat
    BY <2>1, <1>r DEF RowsTyped
  <2> QED  BY <1>i, <2>1, <2>2, UsersTyped
<1>13. CASE UNCHANGED vars
  <2>1. UNCHANGED rows /\ UNCHANGED pass /\ UNCHANGED faults
    BY <1>13 DEF vars, rows, pass
  <2> QED  BY <2>1, SameRows, SamePass, OneMore DEF TInv
<1> QED  BY <1>1, <1>2, <1>3, <1>4, <1>5, <1>6, <1>7, <1>8, <1>9, <1>10, <1>11, <1>12, <1>13, <1>14
         DEF Next, TaskManagerStep, Decides

LEMMA InitTyped == Init => TInv
<1> SUFFICES ASSUME Init  PROVE TInv
  OBVIOUS
<1>1. on \in [DOMAIN on -> Places] /\ DOMAIN on \subseteq Tasks
  BY DEF Init, NoneCounted
<1>2. RowsTyped
  BY DEF Init, RowsTyped, Nowhere, Places
<1>3. PassTyped /\ FewFaults
  BY <1>1, Limits DEF Init, PassTyped, FewFaults, NothingRead, NothingWritten
<1>4. Started /\ Placed
  BY DEF Init, Started, Placed, NothingWritten
<1> QED  BY <1>2, <1>3, <1>4 DEF TInv

\* Every variable keeps its type; what starts has been looked at by the
\* dependency manager and has a controller among the instances.
THEOREM TypeCorrect == Spec => []TypeOK
<1>1. Init => TInv
  BY InitTyped
<1>2. IInv /\ TInv /\ [Next]_vars => TInv'
  BY StepTyped
<1>3. TInv => TypeOK
  BY DEF TInv, RowsTyped, PassTyped, FewFaults, Started, TypeOK
<1> QED  BY <1>1, <1>2, <1>3, Invariant, PTL DEF Spec
==============================================================================
