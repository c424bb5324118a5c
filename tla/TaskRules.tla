------------------------------ MODULE TaskRules ------------------------------
(***************************************************************************)
(* What the scheduler promises, whatever it reads and when: the rules of   *)
(* docs/task_manager_system.md ("Task Manager Rules", "Hard blocking").    *)
(* TaskManager is shown to implement this module.  Decisions fall in       *)
(* batches, because a pass of the task manager commits all of its own at   *)
(* once; each rule is about the rows as they are at that moment, not as    *)
(* the pass had read them.                                                 *)
(***************************************************************************)
CONSTANTS
    Tasks,      \* unified jobs of every kind
    Workflows,  \* those of them that are workflow jobs
    Hinders     \* <<r, t>>: t must not start while r is under way

VARIABLES
    status,     \* "active" is waiting or running
    deps,       \* the tasks a task waits for (dependent_jobs)
    held,       \* the tasks a pass has read and has still to decide on
    called      \* the workflow jobs a cancel request is at work on

vars == <<status, deps, held, called>>

Ended == {"successful", "failed", "canceled"}

Init ==
    /\ status = [t \in Tasks |-> "new"]
    /\ deps = [t \in Tasks |-> {}]
    /\ held = {} /\ called = {}

\* Tasks come into being, and those that have not started learn what they
\* wait for.
Prepare ==
    /\ \A t \in Tasks :
        \/ status'[t] = status[t]
        \/ status[t] = "new" /\ status'[t] = "pending"
    /\ \A t \in Tasks :
        \/ deps'[t] = deps[t]
        \/ status[t] \in {"new", "pending"} /\ deps[t] \subseteq deps'[t]
    /\ UNCHANGED <<held, called>>

\* A pass begins with tasks that have not started.
Hold ==
    /\ held = {}
    /\ held' \subseteq {t \in Tasks : status[t] = "pending"}
    /\ UNCHANGED <<status, deps, called>>

\* It leaves some for the next pass, or all of them when it dies.
Release ==
    /\ held' \subseteq held
    /\ UNCHANGED <<status, deps, called>>

Started == {t \in Tasks : status[t] # "active" /\ status'[t] = "active"}

\* Everything t waits for succeeded; nothing under way hinders it, and of
\* two tasks that start together one may start after the other.
MayStart(t) ==
    /\ \A d \in deps[t] : status[d] = "successful"
    /\ \A r \in Tasks : status[r] = "active" => <<r, t>> \notin Hinders
    /\ \A r \in Started \ {t} : <<r, t>> \notin Hinders \/ <<t, r>> \notin Hinders

\* Only tasks it holds, which have not started.  The one exception: a workflow
\* job canceled since the pass read it is started, or failed, all the same.
Decide ==
    /\ \A t \in Tasks :
        \/ status'[t] = status[t]
        \/ /\ t \in held
           /\ status[t] = "pending" \/ (t \in Workflows /\ status[t] = "canceled")
           /\ status'[t] \in {"active", "failed", "canceled"}
    /\ \A t \in Started : MayStart(t)
    /\ held' = {}
    /\ UNCHANGED <<deps, called>>

End ==
    /\ \E t \in Tasks :
        /\ status[t] = "active"
        /\ \E outcome \in Ended : status' = [status EXCEPT ![t] = outcome]
    /\ UNCHANGED <<deps, held, called>>

\* A request on workflow jobs that have not ended.  It may write its status
\* when they have: of other tasks, what has ended stays so.
Call ==
    /\ called \subseteq called'
    /\ \A t \in called' \ called :
        t \in Workflows /\ status[t] \in {"pending", "active"}
    /\ UNCHANGED <<status, deps, held>>

Answer ==
    /\ \E t \in called :
        /\ called' = called \ {t}
        /\ status' \in {status, [status EXCEPT ![t] = "canceled"]}
    /\ UNCHANGED <<deps, held>>

\* Some go back to where they were before they started.
HandBack ==
    /\ \A t \in Tasks :
        \/ status'[t] = status[t]
        \/ status[t] = "active" /\ status'[t] = "pending"
    /\ UNCHANGED <<deps, held, called>>

Next == Prepare \/ Hold \/ Release \/ Decide \/ End \/ Call \/ Answer \/ HandBack

Spec == Init /\ [][Next]_vars
==============================================================================
