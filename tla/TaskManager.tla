----------------------------- MODULE TaskManager -----------------------------
(***************************************************************************)
(* The dependency manager and the task manager (awx/main/scheduler):       *)
(* which updates a job waits for, which task starts next, and where.       *)
(*                                                                         *)
(* A pass of the task manager is one transaction under an advisory lock.   *)
(* It reads the rows, then the rows they depend on, takes the pending      *)
(* tasks one by one, and everything it decided appears with its commit;    *)
(* meanwhile tasks end, are launched and are cancelled.  A pass of the     *)
(* dependency manager is one step: it writes nothing before its commit,    *)
(* and an update that ends after it looked might as well have ended after  *)
(* the commit.  What becomes of a task between start and end is the matter *)
(* of JobLifecycle.                                                        *)
(***************************************************************************)
EXTENDS Integers, Sequences, FiniteSets, FiniteSetsExt

CONSTANTS
    Tasks,          \* the rows there can be, launched or made as dependencies
    Info,           \* Info[t]: kind, project, inventory, source, template,
                    \* simultaneous (allow_simultaneous), impact, groups (a
                    \* sequence, preferred_instance_groups_cache)
    Nodes,          \* NodeInfo[n]: type, capacity
    NodeInfo,
    Groups,         \* GroupInfo[g]: members, container, maxJobs, maxForks
    GroupInfo,
    ControlPlane,   \* the control plane's instance group
    ControlImpact,  \* AWX_CONTROL_NODE_TASK_IMPACT
    OnLaunch,       \* the <<kind, id>> of projects and sources marked update on launch
    Launchable,     \* what users launch
    MaxLaunched,    \* bound on how many of those they do launch
    Cancelable,     \* what users cancel
    StartLimit,     \* START_TASK_LIMIT
    None,
    MaxFaults       \* bound on passes cut off, starts refused and tasks handed back

Kinds == {"job", "project update", "inventory update", "system job",
          "ad hoc command", "workflow job"}
\* _get_task_impact of each kind: only a workflow job, which executes nowhere,
\* has none.
ASSUME InfoAssumption ==
    \A t \in Tasks : /\ Info[t].kind \in Kinds /\ Info[t].impact \in Nat
                     /\ Info[t].impact > 0 \/ Info[t].kind = "workflow job"
                     /\ Info[t].groups \in Seq(Groups)
\* The control plane is no container group, and its serializer keeps it so.
ASSUME GroupsAssumption ==
    /\ ControlPlane \in Groups /\ None \notin Nodes \cup Groups
    /\ \A g \in Groups : GroupInfo[g].members \subseteq Nodes /\ GroupInfo[g].maxJobs \in Nat
    /\ ~GroupInfo[ControlPlane].container
ASSUME NodesAssumption == \A n \in Nodes : NodeInfo[n].capacity \in Nat
ASSUME LaunchAssumption ==
    IsFiniteSet(Tasks) /\ Launchable \subseteq Tasks /\ Cancelable \subseteq Tasks
\* A control impact of 0 would count as none given.
ASSUME NumbersAssumption ==
    {ControlImpact, StartLimit, MaxFaults} \subseteq Nat /\ ControlImpact > 0

VARIABLES
    status,     \* "active" is waiting or running
    deps,       \* dependent_jobs
    processed,  \* the tasks whose dependencies_processed is set
    flagged,    \* the tasks whose cancel_flag is set
    place,      \* instance_group, execution_node and controller_node
    born,       \* when the row was created, 0 before
    clock,
    fresh,      \* successful updates still within their cache timeout
    closing,    \* the workflow jobs a cancel request is at work on
    \* the pass of the task manager
    pc,
    todo,       \* pending tasks it has still to look at
    asked,      \* those of them it saw cancel_flag on
    heard,      \* what it makes of the tasks they depend on
    on,         \* the tasks it counts as under way, and where
    writes,     \* what it will commit
    left,       \* start_task_limit
    faults

rows == <<status, deps, processed, flagged, place, born, clock, fresh, closing>>
pass == <<pc, todo, asked, heard, on, writes, left>>
vars == <<status, deps, processed, flagged, place, born, clock, fresh, closing,
          pc, todo, asked, heard, on, writes, left, faults>>

Ended == {"successful", "failed", "canceled"}
Kind(t) == Info[t].kind
IsWorkflow(t) == Kind(t) = "workflow job"

Nowhere == [group |-> None, node |-> None, controller |-> None]
Places == [group : Groups \cup {None}, node : Nodes \cup {None},
           controller : Nodes \cup {None}]
-----------------------------------------------------------------------------
(* Which task holds up which: DependencyGraph. *)

\* A missing id is no key.
Key(field, id) == IF id = None THEN {} ELSE {<<field, id>>}

\* The keys a task under way is found under.
Marks(t) ==
    CASE Kind(t) = "project update"   -> Key("project", Info[t].project)
      [] Kind(t) = "inventory update" -> Key("inventory", Info[t].inventory)
                                         \cup Key("source", Info[t].source)
      [] Kind(t) = "job"              -> Key("template", Info[t].template)
      [] Kind(t) = "workflow job"     -> Key("workflow", Info[t].template)
      [] Kind(t) = "system job"       -> {<<"system", "system_job">>}
      [] Kind(t) = "ad hoc command"   -> Key("inventory", Info[t].inventory)

\* The keys a pending task looks up.
Asks(t) ==
    CASE Kind(t) = "project update"   -> Key("project", Info[t].project)
      [] Kind(t) = "inventory update" -> Key("source", Info[t].source)
      [] Kind(t) = "job"              -> Key("project", Info[t].project)
                                         \cup Key("inventory", Info[t].inventory)
                                         \cup (IF Info[t].simultaneous THEN {}
                                               ELSE Key("template", Info[t].template))
      [] Kind(t) = "workflow job"     -> (IF Info[t].simultaneous THEN {}
                                          ELSE Key("workflow", Info[t].template))
      [] Kind(t) = "system job"       -> {<<"system", "system_job">>}
      [] Kind(t) = "ad hoc command"   -> Key("inventory", Info[t].inventory)
-----------------------------------------------------------------------------
(* Where a task fits: TaskManagerInstances and TaskManagerInstanceGroups.  *)
(* on[t] is the place of each task the pass counts as under way.           *)

OnControlPlane(t) == Kind(t) \in {"project update", "system job"}
TypeNeeded(t) == IF OnControlPlane(t) THEN "control" ELSE "execution"

ExecutesOn(n, at) ==
    {t \in DOMAIN at : at[t].node = n /\ NodeInfo[n].type \in {"hybrid", "execution"}}

ControlledFrom(n, at) ==
    {t \in DOMAIN at : at[t].controller = n /\ NodeInfo[n].type \in {"hybrid", "control"}}

ImpactOf(S) == MapThenSumSet(LAMBDA t : Info[t].impact, S)

Consumed(n, at) ==
    ImpactOf(ExecutesOn(n, at)) + ControlImpact * Cardinality(ControlledFrom(n, at))

Remaining(n, at) ==
    LET left_over == NodeInfo[n].capacity - Consumed(n, at)
    IN  IF left_over < 0 THEN 0 ELSE left_over

InGroup(g, at) == {t \in DOMAIN at : at[t].group = g}

\* has_remaining_capacity: the group's own limits, 0 for none.
HasRoom(g, jobs, impact, at) ==
    LET members  == GroupInfo[g].members
        running  == IF GroupInfo[g].container THEN Cardinality(InGroup(g, at))
                    ELSE MapThenSumSet(LAMBDA n : Cardinality(ExecutesOn(n, at)), members)
        consumed == IF GroupInfo[g].container THEN ImpactOf(InGroup(g, at))
                    ELSE MapThenSumSet(LAMBDA n : Consumed(n, at), members)
    IN  /\ GroupInfo[g].maxJobs = 0 \/ running + jobs <= GroupInfo[g].maxJobs
        /\ GroupInfo[g].maxForks = 0 \/ consumed + impact <= GroupInfo[g].maxForks

OfType(g, type) == {n \in GroupInfo[g].members : NodeInfo[n].type \in {type, "hybrid"}}

\* The instances with the most left after a task of this impact.
Fit(g, type, impact, hybridCost, at) ==
    LET Left(n) == Remaining(n, at) - impact
                   - (IF hybridCost /\ NodeInfo[n].type = "hybrid" THEN ControlImpact ELSE 0)
        able    == {n \in OfType(g, type) : Left(n) >= 0}
    IN  {n \in able : \A m \in able : Left(m) <= Left(n)}

\* Mutant: a task too big for every instance is not given an idle one.
LargestIdle_none(g, type, at) == {}

LargestIdle(g, type, at) ==
    LET idle == {n \in OfType(g, type) :
                    /\ NodeInfo[n].capacity > 0
                    /\ ExecutesOn(n, at) = {} \/ Consumed(n, at) = 0}
    IN  {n \in idle : \A m \in idle : NodeInfo[m].capacity <= NodeInfo[n].capacity}

\* An idle instance takes a task of any size.
Hosts(t, g, at) ==
    LET fits == Fit(g, TypeNeeded(t), Info[t].impact, TRUE, at)
    IN  IF fits # {} THEN fits ELSE LargestIdle(g, TypeNeeded(t), at)

\* Mutant: what an update that runs on its controller needs is not asked for.
Controllers_without_impact(t, at) ==
    Fit(ControlPlane, "control", ControlImpact, FALSE, at)

Controllers(t, at) ==
    Fit(ControlPlane, "control",
        ControlImpact + (IF OnControlPlane(t) THEN Info[t].impact ELSE 0), FALSE, at)

\* A hybrid instance controls what it executes.
PlacesIn(t, g, at) ==
    IF GroupInfo[g].container
    THEN {[group |-> g, node |-> None, controller |-> c] : c \in Controllers(t, at)}
    ELSE {[group |-> g, node |-> p[1],
           controller |-> IF NodeInfo[p[1]].type = "hybrid" THEN p[1] ELSE p[2]] :
             p \in Hosts(t, g, at) \X Controllers(t, at)}

\* The first of the task's groups that has room and, unless it is a container
\* group, an instance.
Sites(t, at) ==
    LET groups == Info[t].groups
        suits  == {i \in DOMAIN groups :
                      /\ HasRoom(groups[i], 1, Info[t].impact, at)
                      /\ GroupInfo[groups[i]].container \/ Hosts(t, groups[i], at) # {}}
        first  == {i \in suits : \A j \in suits : i <= j}
    IN  IF Kind(t) = "workflow job" THEN {Nowhere}
        ELSE IF OnControlPlane(t)
             THEN {[group |-> ControlPlane, node |-> c, controller |-> c] :
                      c \in {m \in Controllers(t, at) :
                                HasRoom(ControlPlane, 0, ControlImpact, at)}}
        ELSE UNION {PlacesIn(t, groups[i], at) : i \in first}
-----------------------------------------------------------------------------
(* The dependency manager.                                                 *)

\* The project or source an update is an update of.
Serves(u) == <<Kind(u), IF Kind(u) = "project update" THEN Info[u].project
                        ELSE Info[u].source>>

SourcesOf(inventory) ==
    {Info[u].source : u \in {v \in Tasks : /\ Kind(v) = "inventory update"
                                           /\ Info[v].inventory = inventory}}

\* The updates a task waits for: gen_dep_for_job, gen_dep_for_inventory_update.
Needs(t) ==
    CASE Kind(t) = "job" ->
            {k \in OnLaunch : \/ k = <<"project update", Info[t].project>>
                              \/ /\ k[1] = "inventory update"
                                 /\ k[2] \in SourcesOf(Info[t].inventory)}
      [] Kind(t) = "inventory update" -> OnLaunch \cap {<<"project update", Info[t].project>>}
      [] OTHER -> {}

IsUpdate(u) == Kind(u) \in {"project update", "inventory update"}

UpdatesOf(k) == {u \in Tasks : IsUpdate(u) /\ Serves(u) = k}
Latest(k) == {u \in UpdatesOf(k) : /\ born[u] > 0
                                   /\ \A v \in UpdatesOf(k) : born[v] <= born[u]}

\* Mutant: an update that is not finished counts for nothing.
Stands_finished(u) == u \in fresh

\* should_update_again
Stands(u) == status[u] \in {"pending", "active"} \/ u \in fresh

Spare(k) == {u \in UpdatesOf(k) : status[u] = "new"}

\* The update that serves k: the latest one while it stands, else a new row.
UpdateFor(k) ==
    IF \E u \in Latest(k) : Stands(u) THEN Latest(k)
    ELSE {u \in Spare(k) : u = CHOOSE v \in Spare(k) : TRUE}

UpdatesFor(S) == UNION {UpdateFor(k) : k \in UNION {Needs(t) : t \in S}}

\* The tasks launched since the last pass, then those of the updates they wait
\* for that have not been looked at either: two rounds, one transaction.
ResolveDependencies ==
    LET first  == {t \in Tasks : status[t] = "pending" /\ t \notin processed}
        looked == first \cup (UpdatesFor(first) \ processed)
        made   == {u \in UpdatesFor(looked) : status[u] = "new"}
    IN  /\ first # {}
        /\ \A t \in looked : \A k \in Needs(t) : UpdateFor(k) # {}
        /\ status' = [t \in Tasks |-> IF t \in made THEN "pending" ELSE status[t]]
        /\ deps' = [t \in Tasks |-> IF t \in looked THEN deps[t] \cup UpdatesFor({t})
                                    ELSE deps[t]]
        /\ processed' = processed \cup looked
        /\ born' = [t \in Tasks |-> IF t \in made THEN clock + 1 ELSE born[t]]
        /\ clock' = clock + 1
        /\ UNCHANGED <<flagged, place, fresh, pass, faults, closing>>
-----------------------------------------------------------------------------
(* A pass of the task manager.                                             *)

NothingRead == [t \in Tasks |-> "clear"]
NoneCounted == [t \in {} |-> Nowhere]
NothingWritten == [t \in Tasks |-> "none"]

PassEnds ==
    /\ pc' = "idle" /\ todo' = {} /\ asked' = {} /\ left' = 0
    /\ heard' = NothingRead /\ on' = NoneCounted /\ writes' = NothingWritten

\* get_tasks: the rows, without those they depend on.
ReadTasks ==
    /\ pc = "idle"
    /\ pc' = "listed"
    /\ todo' = {t \in processed : status[t] = "pending"}
    /\ asked' = todo' \cap flagged
    /\ on' = [t \in {s \in processed : status[s] = "active"} |-> place[t]]
    /\ left' = StartLimit
    /\ UNCHANGED <<rows, heard, writes, faults>>

\* Mutant: a cancelled dependency is nothing to fail for.
Verdict_canceled_passes(t) ==
    IF \E d \in deps[t] : status[d] = "failed" THEN "failed"
    ELSE IF \E d \in deps[t] : status[d] \in {"pending", "active"} THEN "unfinished"
    ELSE "clear"

\* What process_job_dep_failures and job_blocked_by will see in dependent_jobs.
Verdict(t) ==
    IF \E d \in deps[t] : status[d] \in {"failed", "canceled"} THEN "failed"
    ELSE IF \E d \in deps[t] : status[d] \in {"pending", "active"} THEN "unfinished"
    ELSE "clear"

\* prefetch_related('dependent_jobs'), a query of its own.
ReadDependencies ==
    /\ pc = "listed"
    /\ pc' = "deciding"
    /\ heard' = [t \in Tasks |-> IF t \in todo THEN Verdict(t) ELSE "clear"]
    /\ UNCHANGED <<rows, todo, asked, on, writes, left, faults>>

Blocked(t) ==
    heard[t] = "unfinished" \/ Asks(t) \cap UNION {Marks(r) : r \in DOMAIN on} # {}

\* The pass turns to t, the oldest of the tasks it has left.
Considers(t) ==
    /\ pc = "deciding" /\ left > 0 /\ t \in todo
    /\ \A s \in todo : born[t] <= born[s]
    /\ todo' = todo \ {t}

\* It will not start: cancelled, or what it waits for has not succeeded.
TurnDown(t, verdict) ==
    /\ Considers(t)
    /\ writes' = [writes EXCEPT ![t] = verdict]
    /\ UNCHANGED <<rows, pc, asked, heard, on, left, faults>>

CancelPending(t) == t \in asked /\ TurnDown(t, "canceled")
FailForDependency(t) == t \notin asked /\ heard[t] = "failed" /\ TurnDown(t, "failed")

Ready(t) == t \notin asked /\ heard[t] # "failed" /\ ~Blocked(t)

\* It stays pending: something under way holds it up, or it fits nowhere.
LeavePending(t) ==
    /\ Considers(t)
    /\ t \notin asked /\ heard[t] # "failed"
    /\ Blocked(t) \/ Sites(t, on) = {}
    /\ UNCHANGED <<rows, pc, asked, heard, on, writes, left, faults>>

\* start_task.  A task its pre_start turns away has been counted all the same.
StartTask(t, refused) ==
    /\ Considers(t)
    /\ Ready(t)
    /\ \E site \in Sites(t, on) :
         on' = [s \in DOMAIN on \cup {t} |-> IF s = t THEN site ELSE on[s]]
    /\ left' = left - 1
    /\ writes' = [writes EXCEPT ![t] = IF refused THEN "failed" ELSE "active"]
    /\ refused => faults < MaxFaults
    /\ faults' = IF refused THEN faults + 1 ELSE faults
    /\ UNCHANGED <<rows, pc, asked, heard>>

\* TASK_MANAGER_TIMEOUT: the rest waits for the next pass.
TimeOut ==
    /\ pc = "deciding" /\ todo # {} /\ faults < MaxFaults
    /\ todo' = {}
    /\ faults' = faults + 1
    /\ UNCHANGED <<rows, pc, asked, heard, on, writes, left>>

\* Mutant: a task that starts is saved without its place.
Commit_status_only ==
    LET saved == {t \in DOMAIN on : writes[t] # "none"}
    IN  /\ pc = "deciding" /\ (todo = {} \/ left = 0)
        /\ status' = [t \in Tasks |-> IF writes[t] = "none" THEN status[t] ELSE writes[t]]
        /\ flagged' = flagged \ saved
        /\ PassEnds
        /\ UNCHANGED <<deps, processed, place, born, clock, fresh, faults, closing>>

\* A task that starts or is refused is saved whole, with its place and with
\* cancel_flag as the pass had read it: a workflow job canceled meanwhile runs.
Commit ==
    LET saved == {t \in DOMAIN on : writes[t] # "none"}
    IN  /\ pc = "deciding" /\ (todo = {} \/ left = 0)
        /\ status' = [t \in Tasks |-> IF writes[t] = "none" THEN status[t] ELSE writes[t]]
        /\ place' = [t \in Tasks |-> IF t \in saved THEN on[t] ELSE place[t]]
        /\ flagged' = flagged \ saved
        /\ PassEnds
        /\ UNCHANGED <<deps, processed, born, clock, fresh, faults, closing>>

\* Killed, or cut off from the database: the transaction is rolled back.
PassDies ==
    /\ pc # "idle" /\ faults < MaxFaults
    /\ PassEnds
    /\ faults' = faults + 1
    /\ UNCHANGED rows
-----------------------------------------------------------------------------
(* Users, and the tasks themselves.                                        *)

Launch(t) ==
    /\ t \in Launchable /\ status[t] = "new"
    /\ Cardinality({s \in Launchable : status[s] # "new"}) < MaxLaunched
    /\ status' = [status EXCEPT ![t] = "pending"]
    /\ born' = [born EXCEPT ![t] = clock + 1]
    /\ clock' = clock + 1
    /\ UNCHANGED <<deps, processed, flagged, place, fresh, pass, faults, closing>>

Dependents(u) == {t \in Tasks : u \in deps[t]}

\* get_jobs_fail_chain.  An inventory update takes along the other inventory
\* updates of one of the tasks that wait for it.
FailChains(u) ==
    CASE Kind(u) = "project update" ->
            {Dependents(u) \cup UNION {Dependents(t) : t \in Dependents(u)}}
      [] Kind(u) = "inventory update" ->
            IF Dependents(u) = {} THEN {{}}
            ELSE {Dependents(u) \cup {d \in deps[t] : Kind(d) = "inventory update"} :
                     t \in Dependents(u)}
      [] OTHER -> {{}}

\* A request for a row the open transaction has written waits for its commit.
\* The view is not one transaction: what a request does to a workflow job
\* beside the flag comes later.
Cancel(t) ==
    /\ t \in Cancelable /\ status[t] \in {"pending", "active"}
    /\ \E chain \in FailChains(t) :
         LET reached == {s \in chain \cup {t} : status[s] \in {"pending", "active"}}
         IN  /\ \A s \in reached : writes[s] = "none"
             /\ flagged' = flagged \cup reached
             /\ closing' = closing \cup {s \in reached : IsWorkflow(s)}
    /\ UNCHANGED <<status, deps, processed, place, born, clock, fresh, pass, faults>>

\* It writes the status of a workflow job in which it found nothing running,
\* whatever the row is by now; else, or if it dies, it leaves it.
CancelCloses(t) ==
    /\ t \in closing /\ writes[t] = "none"
    /\ closing' = closing \ {t}
    /\ status' \in {status, [status EXCEPT ![t] = "canceled"]}
    /\ UNCHANGED <<deps, processed, flagged, place, born, clock, fresh, pass, faults>>

EndTask(t) ==
    /\ status[t] = "active"
    /\ \E outcome \in Ended :
         /\ outcome = "canceled" => t \in flagged
         /\ status' = [status EXCEPT ![t] = outcome]
         /\ fresh' = IF outcome = "successful" /\ IsUpdate(t) THEN fresh \cup {t} ELSE fresh
    /\ UNCHANGED <<deps, processed, flagged, place, born, clock, pass, faults, closing>>

\* A pod that the quota does not admit: the task is pending again.
ExceedQuota(t) ==
    /\ status[t] = "active" /\ place[t].group # None
    /\ GroupInfo[place[t].group].container
    /\ faults < MaxFaults
    /\ status' = [status EXCEPT ![t] = "pending"]
    /\ faults' = faults + 1
    /\ UNCHANGED <<deps, processed, flagged, place, born, clock, fresh, pass, closing>>

\* A controller is taken for lost: its waiting tasks are handed back to the
\* task manager, all at once and without their nodes.
LoseController(n) ==
    /\ faults < MaxFaults
    /\ \E waiting \in SUBSET {t \in Tasks : status[t] = "active" /\ place[t].controller = n} :
         /\ waiting # {}
         /\ status' = [t \in Tasks |-> IF t \in waiting THEN "pending" ELSE status[t]]
         /\ place' = [t \in Tasks |-> IF t \in waiting
                                      THEN [place[t] EXCEPT !.node = None, !.controller = None]
                                      ELSE place[t]]
    /\ faults' = faults + 1
    /\ UNCHANGED <<deps, processed, flagged, born, clock, fresh, pass, closing>>

\* scm_update_cache_timeout, update_cache_timeout
Expire(u) ==
    /\ u \in fresh
    /\ fresh' = fresh \ {u}
    /\ UNCHANGED <<status, deps, processed, flagged, place, born, clock, pass, faults, closing>>

Init ==
    /\ status = [t \in Tasks |-> "new"]
    /\ deps = [t \in Tasks |-> {}]
    /\ processed = {} /\ flagged = {} /\ fresh = {} /\ closing = {}
    /\ place = [t \in Tasks |-> Nowhere]
    /\ born = [t \in Tasks |-> 0]
    /\ clock = 0 /\ faults = 0
    /\ pc = "idle" /\ todo = {} /\ asked = {} /\ left = 0
    /\ heard = NothingRead /\ on = NoneCounted /\ writes = NothingWritten

Decides(t) ==
    \/ CancelPending(t) \/ FailForDependency(t) \/ LeavePending(t)
    \/ StartTask(t, FALSE)

TaskManagerStep ==
    ReadTasks \/ ReadDependencies \/ Commit \/ \E t \in Tasks : Decides(t)

Next ==
    \/ ResolveDependencies
    \/ TaskManagerStep \/ TimeOut \/ PassDies
    \/ \E t \in Tasks : \/ StartTask(t, TRUE)
                        \/ Launch(t) \/ Cancel(t) \/ CancelCloses(t) \/ EndTask(t)
                        \/ ExceedQuota(t) \/ Expire(t)
    \/ \E n \in Nodes : LoseController(n)

\* Both managers run every 20 seconds and whenever a task is launched or ends,
\* and every task that starts comes to an end (see JobLifecycle).
Fairness ==
    /\ WF_vars(ResolveDependencies)
    /\ WF_vars(TaskManagerStep)
    /\ \A t \in Tasks : WF_vars(EndTask(t))

Spec == Init /\ [][Next]_vars /\ Fairness
-----------------------------------------------------------------------------
\* Types; and what is under way was looked at by the dependency manager and is
\* controlled from somewhere.
TypeOK ==
    /\ status \in [Tasks -> {"new", "pending", "active"} \cup Ended]
    /\ deps \in [Tasks -> SUBSET Tasks]
    /\ processed \subseteq Tasks /\ flagged \subseteq Tasks /\ fresh \subseteq Tasks
    /\ closing \subseteq Tasks
    /\ place \in [Tasks -> Places]
    /\ born \in [Tasks -> Nat] /\ clock \in Nat
    /\ pc \in {"idle", "listed", "deciding"}
    /\ todo \subseteq Tasks /\ asked \subseteq Tasks
    /\ heard \in [Tasks -> {"failed", "unfinished", "clear"}]
    /\ on \in [DOMAIN on -> Places] /\ DOMAIN on \subseteq Tasks
    /\ writes \in [Tasks -> {"none", "active", "failed", "canceled"}]
    /\ left \in 0 .. StartLimit /\ faults \in 0 .. MaxFaults
    /\ \A t \in Tasks : status[t] = "active" =>
           /\ t \in processed
           /\ Kind(t) = "workflow job" \/ place[t].controller \in Nodes

\* The rules, kind by kind, in the words of "Task Manager Rules".
HindersByRule(r, t) ==
    \/ /\ Kind(r) = "project update" /\ Kind(t) \in {"project update", "job"}
       /\ Info[r].project = Info[t].project /\ Info[r].project # None
    \/ /\ Kind(r) = "inventory update" /\ Kind(t) = "inventory update"
       /\ Info[r].source = Info[t].source /\ Info[r].source # None
    \/ /\ Kind(r) = "inventory update" /\ Kind(t) \in {"job", "ad hoc command"}
       /\ Info[r].inventory = Info[t].inventory /\ Info[r].inventory # None
    \/ /\ Kind(r) = "job" /\ Kind(t) = "job" /\ ~Info[t].simultaneous
       /\ Info[r].template = Info[t].template /\ Info[r].template # None
    \/ /\ Kind(r) = "workflow job" /\ Kind(t) = "workflow job" /\ ~Info[t].simultaneous
       /\ Info[r].template = Info[t].template /\ Info[r].template # None
    \/ Kind(r) = "system job" /\ Kind(t) = "system job"

\* What the pass has read and not yet left alone.
Held == todo \cup {t \in Tasks : writes[t] # "none"}

Rules == INSTANCE TaskRules
    WITH held <- Held,
         called <- closing,
         Workflows <- {t \in Tasks : IsWorkflow(t)},
         Hinders <- {p \in Tasks \X Tasks : HindersByRule(p[1], p[2])}

\* However tasks end, are cancelled and are launched between what a pass reads
\* and its commit: what starts has nothing unfinished or failed to wait for and
\* nothing beside it that excludes it, at the moment it starts; and what has
\* ended stays so, but for a workflow job that a request is at work on.
KeepsTheRules == Rules!Spec

UnderWay == [t \in {s \in Tasks : status[s] = "active"} |-> place[t]]

\* docs/capacity.md: an instance is over its capacity only for a single job,
\* which found it idle, and never for an update it controls itself; a container
\* group never exceeds its number of jobs.
CapacityKept ==
    /\ \A n \in Nodes :
         \/ Consumed(n, UnderWay) <= NodeInfo[n].capacity
         \/ \E t \in Tasks : ExecutesOn(n, UnderWay) = {t} /\ ~OnControlPlane(t)
    /\ \A g \in Groups : GroupInfo[g].container /\ GroupInfo[g].maxJobs > 0 =>
         Cardinality(InGroup(g, UnderWay)) <= GroupInfo[g].maxJobs

\* should_update_again: jobs share the update they wait for; none makes another
\* while one is unfinished, unless users start updates of their own.
OneUpdateAtATime ==
    \A k \in OnLaunch : UpdatesOf(k) \cap Launchable = {} =>
        \A u, v \in UpdatesOf(k) :
            {status[u], status[v]} \subseteq {"pending", "active"} => u = v

\* Of finitely many tasks none stays pending for ever: not for an update that
\* failed, not for a place while smaller tasks come and go, not because of a
\* pass that died or ran out of time, not after it was handed back.
EveryTaskEnds == []<>(\A t \in Tasks : status[t] \notin {"pending", "active"})
=============================================================================
