---------------------------- MODULE ProjectSync ----------------------------
(***************************************************************************)
(* The local copy of a project on one node (awx/main/tasks/jobs.py).       *)
(*                                                                         *)
(* Jobs that use the project, and updates of it, take turns by a lock on a *)
(* file.  Inside, a job brings the tree to the revision it is to run and   *)
(* copies it to a directory of its own: with an update of the project run  *)
(* in the same process (RunProjectUpdate, a "sync"), or without if the     *)
(* tree is as it should be.  Roles and collections are installed in a      *)
(* stage directory that then becomes the cache of a project update.        *)
(*                                                                         *)
(* A task may be cancelled while it waits for the lock: acquire_lock then  *)
(* returns without it, and the task goes on to the next place that looks   *)
(* for a cancellation.  A process may die anywhere.  An update of the same *)
(* project on another node, which changes its row and not this tree, may   *)
(* have come before.                                                       *)
(***************************************************************************)
EXTENDS Naturals

CONSTANTS Jobs,        \* jobs that run the project's default branch
          BranchJobs,  \* jobs that run another branch
          Updates,     \* updates of the project on this node
          Canceled,    \* tasks that somebody may cancel
          MaxRev,      \* bound: revisions the remote repository ever has
          MaxFaults    \* bound: deaths and failures

Users == Jobs \cup BranchJobs
Tasks == Users \cup Updates

ASSUME KindsAssumption ==
  /\ Jobs \cap BranchJobs = {} /\ Users \cap Updates = {} 
  /\ Canceled \subseteq Tasks
  /\ {"nobody", "first", "far"} \cap Tasks = {}
ASSUME BoundsAssumption == MaxRev \in Nat \ {0} /\ MaxFaults \in Nat

Feature == 0               \* the content of the other branch
Nothing == MaxRev + 1      \* no repository, no directory
Empty   == MaxRev + 2      \* a directory with nothing in it
Content == 0..(MaxRev + 2)
Caches  == Tasks \cup {"first", "far"}   \* cache_id: the update it was filled for

VARIABLES
  tip,       \* the newest revision of the default branch an update has met
  project,   \* its row: scm_revision, cache_id (current or last job), failed
  lock,      \* who has the lock of the file
  head,      \* what is checked out in the tree
  checkout,  \* whether a checkout is done, under way or was cut off
  stage,     \* the stage directory
  cache,     \* the cache directories
  pc,        \* where a task is
  mem,       \* what it holds
  flagged,   \* tasks whose cancel_flag is set
  signalled, \* tasks whose process has got the cancel signal
  gaveUp,    \* tasks that went on without the lock
  faults

row == <<tip, project>>
tree == <<head, checkout>>
requests == <<flagged, signalled>>
vars == <<row, lock, tree, stage, cache, pc, mem, requests, gaveUp, faults>>

Row == [rev : 0..MaxRev, cacheId : Caches, failed : BOOLEAN]
Memory ==
  [seen : Row, used : Row,                   \* the project for the task, for its sync
   needs : SUBSET {"update", "install"},     \* sync_needs
   saved : Content,                          \* original_branch
   revision : Content,                       \* scm_revision of the task's row
   copied : Content,                         \* the tree in its private directory,
   whole : BOOLEAN, roles : Content,         \*   no checkout under way; its roles
   told : BOOLEAN,                           \* cancel_flag as it last read it
   outcome : {"ok", "canceled", "failed"}]   \* of its sync, or update
Unset == [rev |-> 0, cacheId |-> "first", failed |-> FALSE]
Blank == [seen |-> Unset, used |-> Unset, needs |-> {}, saved |-> Nothing, revision |-> Nothing,
          copied |-> Nothing, whole |-> TRUE, roles |-> Nothing, told |-> FALSE,
          outcome |-> "ok"]

Over == {"canceled", "failed", "running", "updated", "dead"}
\* From the lock to its release.
Inside == {"looking", "preparing", "prepared", "fetching", "installing", "leaving",
           "copying", "restoring"}
Places == {"new", "waiting", "left", "publishing"} \cup Inside \cup Over

TypeOK ==
  /\ tip \in 1..MaxRev /\ project \in Row
  /\ lock \in Tasks \cup {"nobody"}
  /\ head \in Content /\ checkout \in {"done", "under way", "cut off"}
  /\ stage \in Content /\ cache \in [Caches -> Content]
  /\ pc \in [Tasks -> Places] /\ mem \in [Tasks -> Memory]
  /\ flagged \subseteq Tasks /\ signalled \subseteq flagged /\ gaveUp \subseteq flagged
  /\ faults \in 0..MaxFaults

\* A project that has been updated on this node, on another one, or first here
\* and then, to a newer revision, there.
Init ==
  /\ tip \in 1..MaxRev
  /\ lock = "nobody" /\ checkout = "done" /\ stage = Nothing
  /\ head \in {1, Nothing}
  /\ cache = [c \in Caches |-> IF c = "first" THEN head ELSE Nothing]
  /\ \/ project = [rev |-> 1, cacheId |-> "first", failed |-> FALSE] /\ tip = 1 /\ head = 1
     \/ /\ project = [rev |-> tip, cacheId |-> "far", failed |-> FALSE]
        /\ tip = 1 <=> head = Nothing
  /\ pc = [w \in Tasks |-> "new"] /\ mem = [w \in Tasks |-> Blank]
  /\ flagged = {} /\ signalled = {} /\ gaveUp = {} /\ faults = 0

Goto(w, place) == pc' = [pc EXCEPT ![w] = place]
At(w, place) == pc[w] = place
Active(w) == pc[w] \notin {"new"} \cup Over
Hold(w, m) == mem' = [mem EXCEPT ![w] = m]
\* What it held goes with the process.
Forget(w) == Hold(w, Blank)

-----------------------------------------------------------------------------
(* Around the tasks.                                                       *)

\* Since an update last met its tip, the remote branch may have grown.
Grow == tip' \in tip..MaxRev

\* UnifiedJob.cancel: the flag, then the signal.
Cancel(w) ==
  /\ w \in Canceled \ flagged /\ Active(w)
  /\ flagged' = flagged \cup {w}
  /\ UNCHANGED <<row, lock, tree, stage, cache, pc, mem, signalled, gaveUp, faults>>

Signal(w) ==
  /\ w \in flagged \ signalled /\ Active(w)
  /\ signalled' = signalled \cup {w}
  /\ UNCHANGED <<row, lock, tree, stage, cache, pc, mem, flagged, gaveUp, faults>>

CutOff(w) == checkout' = IF At(w, "fetching") THEN "cut off" ELSE checkout

\* Mutant: the lock's file is removed, whoever has it.
ReleaseLock_removed(w) == lock' = "nobody"

\* release_lock lets go of a lock only if it is there.
ReleaseLock(w) == lock' = IF lock = w THEN "nobody" ELSE lock

\* The process dies.  Its lock is free; the reaper fails the task.
Die(w) ==
  /\ faults < MaxFaults /\ Active(w)
  /\ faults' = faults + 1
  /\ Goto(w, "dead") /\ Forget(w)
  /\ ReleaseLock(w) /\ CutOff(w)
  /\ project' = IF w \in Updates THEN [project EXCEPT !.failed = TRUE] ELSE project
  /\ UNCHANGED <<tip, head, stage, cache, requests, gaveUp>>

-----------------------------------------------------------------------------
(* The lock.                                                               *)

\* A user reads the project with its row.  An update becomes the project's
\* current job when it is running.
Begin(w) ==
  /\ At(w, "new")
  /\ w \in Updates => \A u \in Updates : ~Active(u)
  /\ Goto(w, "waiting")
  /\ project' = IF w \in Updates THEN [project EXCEPT !.cacheId = w] ELSE project
  /\ Hold(w, [mem[w] EXCEPT !.seen = project'])
  /\ UNCHANGED <<tip, lock, tree, stage, cache, requests, gaveUp, faults>>

Entered(w, told) ==
  IF w \in Users THEN Goto(w, "looking") /\ Hold(w, [mem[w] EXCEPT !.told = told])
  ELSE /\ Goto(w, "preparing")
       /\ Hold(w, [mem[w] EXCEPT !.told = told, !.used = mem[w].seen,
                                 !.needs = {"update", "install"}])

AcquireLock(w) ==
  /\ At(w, "waiting") /\ lock = "nobody"
  /\ lock' = w
  /\ Entered(w, FALSE)
  /\ UNCHANGED <<row, tree, stage, cache, requests, gaveUp, faults>>

\* Mutant: the flag is looked up without a refresh of the instance.
GiveUp_unread(w) ==
  /\ At(w, "waiting") /\ w \in flagged
  /\ lock # "nobody"
  /\ gaveUp' = gaveUp \cup {w}
  /\ Entered(w, FALSE)
  /\ UNCHANGED <<row, lock, tree, stage, cache, requests, faults>>

\* The lock was not to be had, and the task is cancelled: the flag is read, and
\* who has got the signal has been flagged before.
GiveUp(w) ==
  /\ At(w, "waiting") /\ w \in flagged
  /\ lock # "nobody"
  /\ gaveUp' = gaveUp \cup {w}
  /\ Entered(w, TRUE)
  /\ UNCHANGED <<row, lock, tree, stage, cache, requests, faults>>

-----------------------------------------------------------------------------
(* sync_and_copy.                                                          *)

\* Mutant: a tree that is there is taken to be at the revision.
SyncNeeds_present(w) ==
  LET p == mem[w].seen IN
  {need \in {"update", "install"} :
     \/ w \in BranchJobs
     \/ need = "update" /\ head = Nothing
     \/ need = "install" /\ cache[p.cacheId] = Nothing}

\* What the tree and the cache lack.
SyncNeeds(w) ==
  LET p == mem[w].seen IN
  {need \in {"update", "install"} :
     \/ w \in BranchJobs
     \/ need = "update" /\ head # p.rev
     \/ need = "install" /\ cache[p.cacheId] = Nothing}

\* get_reason_if_failed, then get_sync_needs.
Look(w) ==
  /\ At(w, "looking")
  /\ IF mem[w].seen.failed
     THEN /\ Goto(w, "restoring")
          /\ Hold(w, [mem[w] EXCEPT !.outcome = "failed"])
     ELSE /\ Hold(w, [mem[w] EXCEPT !.needs = SyncNeeds(w),
                                    !.saved = IF w \in BranchJobs THEN head ELSE Nothing])
          /\ Goto(w, IF SyncNeeds(w) = {} THEN "copying" ELSE "preparing")
  /\ UNCHANGED <<row, lock, tree, stage, cache, requests, gaveUp, faults>>

\* make_local_copy: the tree as it is and the roles of a cache.  The job's row is
\* read again.
Copied(w, roles) ==
  [mem[w] EXCEPT !.copied = head, !.whole = (checkout # "under way"), !.roles = roles,
                 !.told = (w \in flagged)]

\* No sync: the cache of the project as it is held.
CopyTree(w) ==
  /\ At(w, "copying")
  /\ Hold(w, [Copied(w, cache[mem[w].seen.cacheId]) EXCEPT !.revision = mem[w].seen.rev])
  /\ Goto(w, "restoring")
  /\ UNCHANGED <<row, lock, tree, stage, cache, requests, gaveUp, faults>>

\* The tree is put back to the branch it was on, if that works, and the lock
\* released.  sync_and_copy is over.
Restore(w) ==
  /\ At(w, "restoring")
  /\ \/ UNCHANGED tree
     \/ mem[w].saved # Nothing /\ head' = mem[w].saved /\ checkout' = "done"
  /\ ReleaseLock(w)
  /\ Goto(w, "left")
  /\ Hold(w, [mem[w] EXCEPT !.seen = Unset, !.used = Unset, !.needs = {}, !.saved = Nothing])
  /\ UNCHANGED <<row, stage, cache, requests, gaveUp, faults>>

\* run: the job starts its playbook if nothing has gone wrong.
GoesOn(w) == At(w, "left") /\ mem[w].outcome # "failed" /\ ~mem[w].told /\ w \notin signalled

Start(w) ==
  /\ At(w, "left")
  /\ Goto(w, CASE GoesOn(w) -> "running"
               [] mem[w].outcome = "failed" -> "failed"
               [] OTHER -> "canceled")
  /\ Forget(w)
  /\ UNCHANGED <<row, lock, tree, stage, cache, requests, gaveUp, faults>>

-----------------------------------------------------------------------------
(* RunProjectUpdate, as a sync of a user or for itself.                    *)

\* pre_run_hook.  A sync reads the project again, or has it from its user.
Prepare(w) ==
  /\ At(w, "preparing")
  /\ stage' = Empty
  /\ IF w \in Updates THEN UNCHANGED mem
     ELSE \E p \in {project, mem[w].seen} : Hold(w, [mem[w] EXCEPT !.used = p])
  /\ Goto(w, "prepared")
  /\ UNCHANGED <<row, lock, tree, cache, requests, gaveUp, faults>>

\* After a failure or a cancellation the content cannot be trusted.
Stopped(w, how) ==
  /\ stage' = Nothing
  /\ Hold(w, [mem[w] EXCEPT !.outcome = how, !.told = @ \/ w \in Users \cap flagged])
  /\ IF w \in Users THEN Goto(w, "restoring") /\ UNCHANGED lock
     ELSE Goto(w, "publishing") /\ ReleaseLock(w)
  /\ UNCHANGED <<row, head, cache, requests, gaveUp>>

\* A sync has a flag of its own; who sets it sends the signal.
RunsOn(w) == w \notin signalled /\ (w \in Updates => ~mem[w].told)

NotStarted(w) ==
  /\ At(w, "prepared") /\ ~RunsOn(w)
  /\ Stopped(w, "canceled")
  /\ UNCHANGED <<checkout, faults>>

\* The playbook.
StartFetch(w) ==
  /\ At(w, "prepared") /\ RunsOn(w)
  /\ IF "update" \in mem[w].needs THEN checkout' = "under way" /\ Goto(w, "fetching")
     ELSE UNCHANGED checkout /\ Goto(w, "installing")
  /\ UNCHANGED <<row, lock, head, stage, cache, mem, requests, gaveUp, faults>>

\* An update fetches the tip, a sync what its job is to run.
Checkout(w) ==
  /\ At(w, "fetching")
  /\ IF w \in Updates THEN Grow ELSE UNCHANGED tip
  /\ head' = CASE w \in BranchJobs -> Feature
               [] w \in Updates    -> tip'
               [] OTHER            -> mem[w].used.rev
  /\ checkout' = "done"
  /\ Hold(w, [mem[w] EXCEPT !.revision = head'])
  /\ Goto(w, "installing")
  /\ UNCHANGED <<project, lock, stage, cache, requests, gaveUp, faults>>

Install(w) ==
  /\ At(w, "installing")
  /\ stage' = IF "install" \in mem[w].needs THEN head ELSE stage
  /\ Hold(w, [mem[w] EXCEPT !.revision = IF "update" \in mem[w].needs THEN @ ELSE mem[w].seen.rev])
  /\ Goto(w, "leaving")
  /\ UNCHANGED <<row, lock, tree, cache, requests, gaveUp, faults>>

\* post_run_hook after a success: the stage becomes the cache, others go, and
\* the sync copies tree and cache for its user.
CacheId(w) == IF w \in BranchJobs \cup Updates THEN w ELSE mem[w].used.cacheId

\* Mutant: the cache of the project is kept, and nothing else.
Kept_only(w) ==
  IF "install" \notin mem[w].needs THEN cache
  ELSE [c \in Caches |-> IF c = mem[w].used.cacheId THEN cache[c] ELSE Nothing]

Kept(w) ==
  IF "install" \notin mem[w].needs THEN cache
  ELSE [c \in Caches |-> IF c = CacheId(w) /\ stage # Nothing THEN stage
                         ELSE IF c = mem[w].used.cacheId THEN cache[c] ELSE Nothing]

Leave(w) ==
  /\ At(w, "leaving")
  /\ cache' = Kept(w) /\ stage' = Nothing
  /\ IF w \in Users
     THEN /\ Hold(w, Copied(w, Kept(w)[CacheId(w)]))
          /\ Goto(w, "restoring")
          /\ UNCHANGED lock
     ELSE UNCHANGED mem /\ Goto(w, "publishing") /\ ReleaseLock(w)
  /\ UNCHANGED <<row, tree, requests, gaveUp, faults>>

\* The playbook is cancelled, or fails.  A sync that was not there yet when its
\* job was cancelled has no cancel_flag, and takes the signal for a failure.
Stop(w) ==
  /\ pc[w] \in {"fetching", "installing", "leaving"}
  /\ \/ w \in signalled /\ Stopped(w, "canceled") /\ UNCHANGED faults
     \/ w \in signalled \cap Users /\ Stopped(w, "failed") /\ UNCHANGED faults
     \/ faults < MaxFaults /\ faults' = faults + 1 /\ Stopped(w, "failed")
  /\ CutOff(w)

\* Mutant: the revision is stored whatever became of the update.
Publish_always(w) ==
  /\ At(w, "publishing")
  /\ project' = [project EXCEPT !.rev = mem[w].revision, !.failed = (mem[w].outcome = "failed")]
  /\ Goto(w, IF mem[w].outcome = "ok" THEN "updated" ELSE mem[w].outcome)
  /\ Forget(w)
  /\ UNCHANGED <<tip, lock, tree, stage, cache, requests, gaveUp, faults>>

\* What an update tells the project, after it has released the lock.
Publish(w) ==
  /\ At(w, "publishing")
  /\ project' = IF mem[w].outcome = "ok"
                THEN [project EXCEPT !.rev = mem[w].revision, !.failed = FALSE]
                ELSE [project EXCEPT !.failed = (mem[w].outcome = "failed")]
  /\ Goto(w, IF mem[w].outcome = "ok" THEN "updated" ELSE mem[w].outcome)
  /\ Forget(w)
  /\ UNCHANGED <<tip, lock, tree, stage, cache, requests, gaveUp, faults>>

-----------------------------------------------------------------------------
Step(w) ==
  \/ Begin(w) \/ AcquireLock(w) \/ GiveUp(w)
  \/ Look(w) \/ CopyTree(w) \/ Restore(w) \/ Start(w)
  \/ Prepare(w) \/ NotStarted(w) \/ StartFetch(w) \/ Checkout(w) \/ Install(w) \/ Leave(w)
  \/ Publish(w)

Next == \E w \in Tasks : Step(w) \/ Stop(w) \/ Cancel(w) \/ Signal(w) \/ Die(w)

Spec == Init /\ [][Next]_vars

-----------------------------------------------------------------------------
(* Properties.                                                             *)

\* Whoever has the lock is inside, so that it is let go of whatever fails or
\* dies; whoever is inside has it, unless it went on without.
TakesTurns == \A w \in Tasks : lock = w <=> pc[w] \in Inside /\ w \notin gaveUp

\* As long as nobody went on without the lock, a job about to start its
\* playbook has the tree of the revision its row says, with no checkout under
\* way in it.
RunsWhatItSays ==
  gaveUp = {} =>
    \A w \in Users : GoesOn(w) =>
      /\ mem[w].copied = mem[w].revision /\ mem[w].whole
      /\ w \in BranchJobs <=> mem[w].revision = Feature

\* A job that has made its copy has the roles and collections installed for some
\* revision, not a directory that a sync had just emptied, if its own sync knew
\* the project as the job did when it noted what was lacking; a job of another
\* branch has those of its own tree.
RolesAreThere ==
  gaveUp = {} =>
    \A w \in Users :
      /\ At(w, "restoring") /\ mem[w].copied # Nothing
      /\ mem[w].needs # {} => mem[w].used = mem[w].seen
      => /\ mem[w].roles \notin {Nothing, Empty}
         /\ w \in BranchJobs => mem[w].roles = mem[w].copied

\* A task that went on without the lock does not come to run.
GivenUpNeverRuns == \A w \in gaveUp : pc[w] \notin {"running", "updated"}
=============================================================================
