------------------------- MODULE ProjectSync_proofs -------------------------
(***************************************************************************)
(* The turns at a project, for any jobs, updates and bounds.               *)
(***************************************************************************)
EXTENDS ProjectSync, TLAPS

\* Users and updates have places of their own.  What a task holds of the project
\* has a revision; an update fetches and installs, and has a revision when it
\* says it is ok.
Sound(w) ==
  /\ w \in Users => pc[w] \notin {"publishing", "updated"}
  /\ w \in Updates => pc[w] \notin {"looking", "copying", "restoring", "left", "running"}
  /\ pc[w] \in {"waiting"} \cup Inside => mem[w].seen.rev \in 1..MaxRev
  /\ pc[w] \in {"prepared", "fetching"} => mem[w].used.rev \in 1..MaxRev
  /\ w \in Updates /\ pc[w] \in Inside => mem[w].needs = {"update", "install"}
  /\ w \in Updates /\ pc[w] = "preparing" => mem[w].used.rev \in 1..MaxRev
  /\ \/ w \in Updates /\ pc[w] \in {"installing", "leaving"}
     \/ pc[w] = "publishing" /\ mem[w].outcome = "ok"
     => mem[w].revision \in 1..MaxRev

\* Who went on without the lock was told of its cancellation, and still knows.
Told(w) ==
  w \in gaveUp =>
    /\ pc[w] \notin {"new", "waiting", "running", "updated"}
    /\ w \in Users /\ pc[w] \in Inside \cup {"left"} => mem[w].told
    /\ w \in Updates =>
         /\ pc[w] \in {"preparing", "prepared", "publishing"} \cup Over
         /\ pc[w] \in {"preparing", "prepared"} => mem[w].told
         /\ pc[w] = "publishing" => mem[w].outcome # "ok"

IInv ==
  /\ TypeOK /\ TakesTurns /\ project.rev \in 1..MaxRev
  /\ \A w \in Tasks : Sound(w) /\ Told(w)

\* What a user that has not failed knows about the tree, as long as everybody
\* waits for the lock.
Ready(w) ==
  /\ pc[w] = "copying" => head = mem[w].seen.rev /\ w \notin BranchJobs
  /\ pc[w] \in {"preparing", "prepared", "installing"} /\ "update" \notin mem[w].needs =>
       head = mem[w].seen.rev /\ w \notin BranchJobs
  /\ pc[w] = "fetching" => "update" \in mem[w].needs
  /\ pc[w] = "leaving" \/ (pc[w] = "installing" /\ "update" \in mem[w].needs) =>
       head = mem[w].revision /\ (w \in BranchJobs <=> mem[w].revision = Feature)
  /\ pc[w] \in {"restoring", "left"} /\ mem[w].outcome = "ok" =>
       /\ mem[w].copied = mem[w].revision /\ mem[w].whole
       /\ w \in BranchJobs <=> mem[w].revision = Feature
  /\ mem[w].outcome = "canceled" => w \in signalled

RInv ==
  gaveUp = {} =>
    /\ checkout = "under way" => \E w \in Tasks : pc[w] = "fetching"
    /\ \A w \in Users : Ready(w)

-----------------------------------------------------------------------------
LEMMA BlankTypes == Unset \in Row /\ Blank \in Memory
BY BoundsAssumption DEF Unset, Blank, Memory, Row, Caches, Content, Nothing

LEMMA Contents == Nothing \in Content /\ Empty \in Content /\ 0..MaxRev \subseteq Content
BY BoundsAssumption DEF Content, Nothing, Empty

LEMMA Gone ==
  ASSUME pc \in [Tasks -> Places], NEW w \in Tasks, NEW place \in Places, Goto(w, place)
  PROVE  pc' \in [Tasks -> Places] /\ pc'[w] = place /\ \A v \in Tasks \ {w} : pc'[v] = pc[v]
BY DEF Goto

LEMMA Held ==
  ASSUME mem \in [Tasks -> Memory], NEW w \in Tasks, NEW m \in Memory, Hold(w, m)
  PROVE  mem' \in [Tasks -> Memory] /\ mem'[w] = m /\ \A v \in Tasks \ {w} : mem'[v] = mem[v]
BY DEF Hold

LEMMA Released ==
  ASSUME lock \in Tasks \cup {"nobody"}, NEW w \in Tasks, ReleaseLock(w)
  PROVE  lock' \in Tasks \cup {"nobody"}
BY DEF ReleaseLock

LEMMA Grown == ASSUME tip \in 1..MaxRev, Grow PROVE tip' \in 1..MaxRev
BY BoundsAssumption DEF Grow

LEMMA OneFault ==
  ASSUME faults \in 0..MaxFaults, faults < MaxFaults, faults' = faults + 1
  PROVE  faults' \in 0..MaxFaults
BY BoundsAssumption

-----------------------------------------------------------------------------
(* Types, one action at a time.                                            *)

LEMMA DieType == ASSUME TypeOK, NEW w \in Tasks, Die(w) PROVE TypeOK'
<1>1. pc' \in [Tasks -> Places] /\ mem' \in [Tasks -> Memory]
  BY Gone, Held, BlankTypes DEF TypeOK, Die, Forget, Places, Over
<1>2. project' \in Row /\ lock' \in Tasks \cup {"nobody"}
  BY Released DEF TypeOK, Die, Row
<1>3. checkout' \in {"done", "under way", "cut off"}
  BY DEF TypeOK, Die, CutOff
<1>4. faults' \in 0..MaxFaults
  BY OneFault DEF TypeOK, Die
<1> QED BY <1>1, <1>2, <1>3, <1>4 DEF TypeOK, Die, requests

LEMMA BeginType == ASSUME TypeOK, NEW w \in Tasks, Begin(w) PROVE TypeOK'
<1>1. project' \in Row
  BY DEF Begin, TypeOK, Row, Caches
<1>2. [mem[w] EXCEPT !.seen = project'] \in Memory
  BY <1>1 DEF TypeOK, Memory
<1> QED BY <1>1, <1>2, Gone, Held DEF TypeOK, Begin, tree, requests, Places

LEMMA EnteredType ==
  ASSUME TypeOK, NEW w \in Tasks, NEW told \in BOOLEAN, Entered(w, told)
  PROVE  pc' \in [Tasks -> Places] /\ mem' \in [Tasks -> Memory]
<1>1. /\ [mem[w] EXCEPT !.told = told] \in Memory
      /\ [mem[w] EXCEPT !.told = told, !.used = mem[w].seen, !.needs = {"update", "install"}]
           \in Memory
  BY DEF TypeOK, Memory
<1> QED BY <1>1, Gone, Held DEF TypeOK, Entered, Places, Inside

LEMMA LockType ==
  ASSUME TypeOK, NEW w \in Tasks, AcquireLock(w) \/ GiveUp(w) PROVE TypeOK'
<1>1. pc' \in [Tasks -> Places] /\ mem' \in [Tasks -> Memory]
  BY EnteredType DEF AcquireLock, GiveUp
<1> QED BY <1>1 DEF TypeOK, AcquireLock, GiveUp, row, tree, requests

LEMMA LookType == ASSUME TypeOK, NEW w \in Tasks, Look(w) PROVE TypeOK'
<1>1. SyncNeeds(w) \in SUBSET {"update", "install"}
  BY DEF SyncNeeds
<1>2. /\ [mem[w] EXCEPT !.outcome = "failed"] \in Memory
      /\ [mem[w] EXCEPT !.needs = SyncNeeds(w), !.saved = IF w \in BranchJobs THEN head ELSE Nothing]
           \in Memory
  BY <1>1, Contents DEF TypeOK, Memory
<1>3. pc' \in [Tasks -> Places] /\ mem' \in [Tasks -> Memory]
  BY <1>2, Gone, Held DEF TypeOK, Look, Places, Inside
<1> QED BY <1>3 DEF TypeOK, Look, row, tree, requests

LEMMA CopiedType ==
  ASSUME TypeOK, NEW w \in Tasks, NEW roles \in Content PROVE Copied(w, roles) \in Memory
<1> DEFINE whole == checkout # "under way"
           told == w \in flagged
<1>1. mem[w] \in Memory /\ head \in Content
  BY DEF TypeOK
<1>2. whole \in BOOLEAN /\ told \in BOOLEAN
  OBVIOUS
<1>3. Copied(w, roles)
        = [mem[w] EXCEPT !.copied = head, !.whole = whole, !.roles = roles, !.told = told]
  BY DEF Copied
<1> HIDE DEF whole, told
<1> QED BY <1>1, <1>2, <1>3 DEF Memory

LEMMA CopyTreeType == ASSUME TypeOK, NEW w \in Tasks, CopyTree(w) PROVE TypeOK'
<1>1. cache[mem[w].seen.cacheId] \in Content /\ mem[w].seen.rev \in Content
  BY Contents DEF TypeOK, Memory, Row
<1>2. [Copied(w, cache[mem[w].seen.cacheId]) EXCEPT !.revision = mem[w].seen.rev] \in Memory
  BY <1>1, CopiedType DEF Memory
<1> QED BY <1>2, Gone, Held DEF TypeOK, CopyTree, row, tree, requests, Places, Inside

LEMMA RestoreType == ASSUME TypeOK, NEW w \in Tasks, Restore(w) PROVE TypeOK'
<1>1. [mem[w] EXCEPT !.seen = Unset, !.used = Unset, !.needs = {}, !.saved = Nothing] \in Memory
  BY Contents, BlankTypes DEF TypeOK, Memory
<1>2. head' \in Content /\ checkout' \in {"done", "under way", "cut off"}
  BY DEF TypeOK, Restore, tree, Memory
<1> QED BY <1>1, <1>2, Gone, Held, Released DEF TypeOK, Restore, row, requests, Places

LEMMA StartType == ASSUME TypeOK, NEW w \in Tasks, Start(w) PROVE TypeOK'
<1>1. \E place \in Places : Goto(w, place)
  BY DEF Start, Places, Over
<1> QED BY <1>1, Gone, Held, BlankTypes DEF TypeOK, Start, Forget, row, tree, requests

LEMMA PrepareType == ASSUME TypeOK, NEW w \in Tasks, Prepare(w) PROVE TypeOK'
<1>1. \A p \in {project, mem[w].seen} : [mem[w] EXCEPT !.used = p] \in Memory
  BY DEF TypeOK, Memory
<1>2. pc' \in [Tasks -> Places] /\ mem' \in [Tasks -> Memory]
  BY <1>1, Gone, Held DEF TypeOK, Prepare, Places, Inside
<1> QED BY <1>2, Contents DEF TypeOK, Prepare, row, tree, requests

LEMMA StoppedType ==
  ASSUME TypeOK, NEW w \in Tasks, NEW how \in {"canceled", "failed"}, Stopped(w, how),
         checkout' \in {"done", "under way", "cut off"}, faults' \in 0..MaxFaults
  PROVE  TypeOK'
<1>1. [mem[w] EXCEPT !.outcome = how, !.told = @ \/ w \in Users \cap flagged] \in Memory
  BY DEF TypeOK, Memory
<1>2. pc' \in [Tasks -> Places] /\ mem' \in [Tasks -> Memory]
  BY <1>1, Gone, Held DEF TypeOK, Stopped, Places, Inside
<1> QED BY <1>2, Released, Contents DEF TypeOK, Stopped, row, requests

LEMMA StopType ==
  ASSUME TypeOK, NEW w \in Tasks, Stop(w) \/ NotStarted(w) PROVE TypeOK'
<1>1. checkout' \in {"done", "under way", "cut off"}
  BY DEF TypeOK, Stop, NotStarted, CutOff
<1>2. faults' \in 0..MaxFaults
  BY OneFault DEF TypeOK, Stop, NotStarted
<1> QED BY <1>1, <1>2, StoppedType DEF Stop, NotStarted

LEMMA StartFetchType == ASSUME TypeOK, NEW w \in Tasks, StartFetch(w) PROVE TypeOK'
BY Gone DEF TypeOK, StartFetch, row, requests, Places, Inside

LEMMA CheckoutType == ASSUME TypeOK, NEW w \in Tasks, Checkout(w) PROVE TypeOK'
<1>1. tip' \in 1..MaxRev
  BY Grown DEF TypeOK, Checkout
<1>2. head' \in {Feature, tip', mem[w].used.rev}
  BY DEF Checkout
<1>3. head' \in Content
  <2>1. Feature \in Content /\ tip' \in Content
    BY <1>1, Contents, BoundsAssumption DEF Feature
  <2>2. mem[w].used.rev \in Content
    BY Contents DEF TypeOK, Memory, Row
  <2> QED BY <1>2, <2>1, <2>2
<1>4. [mem[w] EXCEPT !.revision = head'] \in Memory
  BY <1>3 DEF TypeOK, Memory
<1> QED BY <1>1, <1>3, <1>4, Gone, Held DEF TypeOK, Checkout, requests, Places, Inside

LEMMA InstallType == ASSUME TypeOK, NEW w \in Tasks, Install(w) PROVE TypeOK'
<1> DEFINE rev == IF "update" \in mem[w].needs THEN mem[w].revision ELSE mem[w].seen.rev
<1>1. rev \in Content
  BY Contents DEF TypeOK, Memory, Row
<1>2. [mem[w] EXCEPT !.revision = rev] \in Memory
  BY <1>1 DEF TypeOK, Memory
<1>3. Hold(w, [mem[w] EXCEPT !.revision = rev])
  BY DEF Install
<1>4. head \in Content /\ stage' \in Content
  BY DEF TypeOK, Install
<1> QED BY <1>2, <1>3, <1>4, Gone, Held DEF TypeOK, Install, row, tree, requests, Places, Inside

LEMMA LeaveType == ASSUME TypeOK, NEW w \in Tasks, Leave(w) PROVE TypeOK'
<1>1. Kept(w) \in [Caches -> Content]
  BY Contents DEF TypeOK, Kept
<1>2. CacheId(w) \in Caches
  BY DEF TypeOK, CacheId, Caches, Memory, Row, Tasks
<1>3. Copied(w, Kept(w)[CacheId(w)]) \in Memory
  BY <1>1, <1>2, CopiedType
<1>4. pc' \in [Tasks -> Places] /\ mem' \in [Tasks -> Memory]
  BY <1>3, Gone, Held DEF TypeOK, Leave, Places, Inside
<1>5. lock' \in Tasks \cup {"nobody"}
  BY Released DEF TypeOK, Leave
<1> QED BY <1>1, <1>4, <1>5, Contents DEF TypeOK, Leave, row, tree, requests

LEMMA PublishType ==
  ASSUME TypeOK, NEW w \in Tasks, Sound(w), Publish(w) PROVE TypeOK'
<1>1. w \in Updates
  BY DEF Sound, Publish, At, Tasks
<1>2. project' \in Row
  <2>1. mem[w].outcome = "ok" => mem[w].revision \in 0..MaxRev
    BY BoundsAssumption DEF Sound, Publish, At
  <2> QED BY <2>1 DEF TypeOK, Publish, Row
<1>3. (IF mem[w].outcome = "ok" THEN "updated" ELSE mem[w].outcome) \in Places
  BY DEF TypeOK, Memory, Places, Over
<1> QED BY <1>2, <1>3, Gone, Held, BlankTypes DEF TypeOK, Publish, Forget, tree, requests

LEMMA TypeStep == IInv /\ [Next]_vars => TypeOK'
<1> SUFFICES ASSUME TypeOK, \A w \in Tasks : Sound(w), [Next]_vars PROVE TypeOK'
  BY DEF IInv
<1>1. CASE UNCHANGED vars
  BY <1>1 DEF TypeOK, vars, row, tree, requests
<1>2. ASSUME NEW w \in Tasks, Cancel(w) \/ Signal(w) PROVE TypeOK'
  BY <1>2 DEF TypeOK, Cancel, Signal, row, tree
<1> QED
  BY <1>1, <1>2, DieType, BeginType, LockType, LookType, CopyTreeType, RestoreType, StartType,
     PrepareType, StopType, StartFetchType, CheckoutType, InstallType, LeaveType, PublishType
     DEF Next, Step

-----------------------------------------------------------------------------
(* Turns at the lock: it is taken and let go of where Inside begins and    *)
(* ends.                                                                   *)

LEMMA Moved ==
  ASSUME TypeOK, NEW w \in Tasks, NEW place, Goto(w, place)
  PROVE  pc'[w] = place /\ \A v \in Tasks \ {w} : pc'[v] = pc[v]
BY DEF TypeOK, Goto

LEMMA StaysInside ==
  ASSUME TypeOK, TakesTurns, NEW w \in Tasks, NEW place, Goto(w, place),
         pc[w] \in Inside <=> place \in Inside, UNCHANGED <<lock, gaveUp>>
  PROVE  TakesTurns'
BY Moved DEF TakesTurns

LEMMA GoesOut ==
  ASSUME TypeOK, TakesTurns, NEW w \in Tasks, NEW place, place \notin Inside, Goto(w, place),
         ReleaseLock(w), UNCHANGED gaveUp
  PROVE  TakesTurns'
BY Moved, KindsAssumption DEF TakesTurns, ReleaseLock

LEMMA TakesTurnsStep ==
  ASSUME TypeOK, TakesTurns, \A w \in Tasks : Told(w), [Next]_vars PROVE TakesTurns'
<1>1. CASE UNCHANGED vars
  BY <1>1 DEF TakesTurns, vars
<1>2. ASSUME NEW w \in Tasks, Cancel(w) \/ Signal(w) PROVE TakesTurns'
  BY <1>2 DEF TakesTurns, Cancel, Signal
<1>3. ASSUME NEW w \in Tasks, Die(w) PROVE TakesTurns'
  BY <1>3, GoesOut DEF Die, Inside
<1>4. ASSUME NEW w \in Tasks, Begin(w) PROVE TakesTurns'
  BY <1>4, StaysInside DEF Begin, At, Inside
<1>5. ASSUME NEW w \in Tasks, AcquireLock(w) PROVE TakesTurns'
  <2>1. \E place \in Inside : Goto(w, place)
    BY <1>5 DEF AcquireLock, Entered, Inside
  <2>2. lock = "nobody" /\ lock' = w /\ gaveUp' = gaveUp /\ pc[w] = "waiting"
    BY <1>5 DEF AcquireLock, At
  <2>3. w \notin gaveUp
    BY <2>2 DEF Told
  <2> QED BY <2>1, <2>2, <2>3, Moved, KindsAssumption DEF TakesTurns, Inside
<1>6. ASSUME NEW w \in Tasks, GiveUp(w) PROVE TakesTurns'
  <2>1. \E place \in Inside : Goto(w, place)
    BY <1>6 DEF GiveUp, Entered, Inside
  <2>2. pc[w] \notin Inside /\ lock' = lock /\ gaveUp' = gaveUp \cup {w}
    BY <1>6 DEF GiveUp, At, Inside
  <2> QED BY <2>1, <2>2, Moved DEF TakesTurns
<1>7. ASSUME NEW w \in Tasks,
             \/ Look(w) \/ CopyTree(w) \/ Prepare(w) \/ StartFetch(w) \/ Checkout(w) \/ Install(w)
      PROVE  TakesTurns'
  <2>1. pc[w] \in Inside /\ (\E place \in Inside : Goto(w, place)) /\ UNCHANGED <<lock, gaveUp>>
    BY <1>7 DEF Look, CopyTree, Prepare, StartFetch, Checkout, Install, At, Inside
  <2> QED BY <2>1, StaysInside
<1>8. ASSUME NEW w \in Tasks, Restore(w) PROVE TakesTurns'
  BY <1>8, GoesOut DEF Restore, Inside
<1>9. ASSUME NEW w \in Tasks, Start(w) \/ Publish(w) PROVE TakesTurns'
  <2>1. pc[w] \notin Inside /\ (\E place : place \notin Inside /\ Goto(w, place))
        /\ UNCHANGED <<lock, gaveUp>>
    BY <1>9 DEF TypeOK, Memory, Start, Publish, At, Inside
  <2> QED BY <2>1, StaysInside
<1>10. ASSUME NEW w \in Tasks, Leave(w) \/ Stop(w) \/ NotStarted(w) PROVE TakesTurns'
  <2>1. pc[w] \in Inside /\ UNCHANGED gaveUp
    BY <1>10 DEF Leave, Stop, NotStarted, Stopped, At, Inside
  <2>2. CASE w \in Users
    BY <1>10, <2>1, <2>2, StaysInside DEF Leave, Stop, NotStarted, Stopped, Inside
  <2>3. CASE w \notin Users
    BY <1>10, <2>1, <2>3, GoesOut DEF Leave, Stop, NotStarted, Stopped, Inside
  <2> QED BY <2>2, <2>3
<1> QED
  BY <1>1, <1>2, <1>3, <1>4, <1>5, <1>6, <1>7, <1>8, <1>9, <1>10 DEF Next, Step

-----------------------------------------------------------------------------
(* The rest: a step moves one task, and what it does to it is sound.       *)

LEMMA Keeps ==
  ASSUME TypeOK, NEW w \in Tasks, NEW m, Hold(w, m)
  PROVE  mem'[w] = m /\ \A v \in Tasks \ {w} : mem'[v] = mem[v]
BY DEF TypeOK, Hold

LEMMA OthersStay ==
  ASSUME \A v \in Tasks : Sound(v) /\ Told(v), NEW w \in Tasks, Sound(w)', Told(w)',
         \A v \in Tasks \ {w} : pc'[v] = pc[v] /\ mem'[v] = mem[v] /\ (v \in gaveUp' <=> v \in gaveUp)
  PROVE  \A v \in Tasks : Sound(v)' /\ Told(v)'
BY DEF Sound, Told

LEMMA StepMoves ==
  ASSUME TypeOK, NEW w \in Tasks, Step(w) \/ Stop(w) \/ Die(w)
  PROVE  \A v \in Tasks \ {w} :
           pc'[v] = pc[v] /\ mem'[v] = mem[v] /\ (v \in gaveUp' <=> v \in gaveUp)
<1>1. \A v \in Tasks \ {w} : pc'[v] = pc[v]
  <2>1. \E place : Goto(w, place)
    BY DEF Step, Begin, AcquireLock, GiveUp, Entered, Look, CopyTree, Restore, Start, Prepare,
           NotStarted, StartFetch, Checkout, Install, Leave, Stop, Stopped, Publish, Die
  <2> QED BY <2>1, Moved
<1>2. \A v \in Tasks \ {w} : mem'[v] = mem[v]
  <2>1. mem' = mem \/ \E m : Hold(w, m)
    BY DEF Step, Begin, AcquireLock, GiveUp, Entered, Look, CopyTree, Restore, Start, Prepare,
           NotStarted, StartFetch, Checkout, Install, Leave, Stop, Stopped, Publish, Die, Forget
  <2> QED BY <2>1, Keeps
<1>3. gaveUp' = gaveUp \/ gaveUp' = gaveUp \cup {w}
  BY DEF Step, Begin, AcquireLock, GiveUp, Look, CopyTree, Restore, Start, Prepare,
         NotStarted, StartFetch, Checkout, Install, Leave, Stop, Stopped, Publish, Die
<1> QED BY <1>1, <1>2, <1>3

LEMMA CopiedFields ==
  ASSUME NEW w \in Tasks, mem[w] \in Memory, NEW roles, NEW rev
  PROVE  LET c == Copied(w, roles)  d == [c EXCEPT !.revision = rev] IN
         /\ c.seen = mem[w].seen /\ (w \in flagged => c.told)
         /\ d.seen = mem[w].seen /\ (w \in flagged => d.told)
<1> DEFINE whole == checkout # "under way"
           told == w \in flagged
           c == Copied(w, roles)
<1>1. c = [mem[w] EXCEPT !.copied = head, !.whole = whole, !.roles = roles, !.told = told]
  BY DEF Copied
<1>2. w \in flagged => told
  OBVIOUS
<1> HIDE DEF whole, told, c
<1>3. c.seen = mem[w].seen /\ c.told = told
  BY <1>1 DEF Memory
<1>4. [c EXCEPT !.revision = rev].seen = mem[w].seen /\ [c EXCEPT !.revision = rev].told = told
  BY <1>1 DEF Memory
<1> QED BY <1>2, <1>3, <1>4 DEF c

LEMMA SoundStep ==
  ASSUME IInv, NEW w \in Tasks, Step(w) \/ Stop(w) \/ Die(w) PROVE Sound(w)' /\ Told(w)'
<1> USE Moved, Keeps
<1>0. TypeOK /\ Sound(w) /\ Told(w) /\ project.rev \in 1..MaxRev /\ mem[w] \in Memory
  BY DEF IInv, TypeOK
<1>1. CASE Die(w)
  BY <1>0, <1>1 DEF Die, Forget, Sound, Told, Inside, Over
<1>2. CASE Begin(w)
  <2>1. pc'[w] = "waiting" /\ pc[w] = "new" /\ gaveUp' = gaveUp
    BY <1>0, <1>2 DEF Begin, At
  <2>2. mem'[w] = [mem[w] EXCEPT !.seen = project'] /\ project'.rev = project.rev
    BY <1>0, <1>2 DEF Begin, TypeOK, Row
  <2> QED BY <1>0, <2>1, <2>2 DEF Memory, Sound, Told, Inside
<1>3. ASSUME NEW told \in BOOLEAN, pc[w] = "waiting", Entered(w, told),
             w \in gaveUp' => told
      PROVE  Sound(w)' /\ Told(w)'
  <2>1. CASE w \in Users
    BY <1>0, <1>3, <2>1, KindsAssumption DEF Entered, Memory, Sound, Told, Inside
  <2>2. CASE w \notin Users
    <3>1. /\ pc'[w] = "preparing"
          /\ mem'[w] = [mem[w] EXCEPT !.told = told, !.used = mem[w].seen,
                                       !.needs = {"update", "install"}]
      BY <1>0, <1>3, <2>2 DEF Entered
    <3>2. /\ mem'[w].told = told /\ mem'[w].used = mem[w].seen
          /\ mem'[w].seen = mem[w].seen /\ mem'[w].needs = {"update", "install"}
      BY <1>0, <3>1 DEF Memory
    <3> QED BY <1>0, <1>3, <2>2, <3>1, <3>2 DEF Sound, Told, Inside
  <2> QED BY <2>1, <2>2
<1>4. CASE AcquireLock(w)
  BY <1>0, <1>3, <1>4 DEF AcquireLock, At, Told
<1>5. CASE GiveUp(w)
  BY <1>0, <1>3, <1>5 DEF GiveUp, At
<1>6. CASE Look(w)
  <2>1. w \in Users
    BY <1>0, <1>6 DEF Look, At, Sound, Tasks
  <2>2. /\ pc[w] = "looking" /\ pc'[w] \in {"restoring", "copying", "preparing"}
        /\ mem'[w].seen = mem[w].seen /\ mem'[w].told = mem[w].told /\ gaveUp' = gaveUp
    <3>1. pc[w] = "looking" /\ pc'[w] \in {"restoring", "copying", "preparing"} /\ gaveUp' = gaveUp
      BY <1>0, <1>6 DEF Look, At
    <3> DEFINE saved == IF w \in BranchJobs THEN head ELSE Nothing
    <3>2. \/ mem'[w] = [mem[w] EXCEPT !.outcome = "failed"]
          \/ mem'[w] = [mem[w] EXCEPT !.needs = SyncNeeds(w), !.saved = saved]
      BY <1>0, <1>6 DEF Look
    <3> HIDE DEF saved
    <3>3. mem'[w].seen = mem[w].seen /\ mem'[w].told = mem[w].told
      BY <1>0, <3>2 DEF Memory
    <3> QED BY <3>1, <3>3
  <2> QED BY <1>0, <2>1, <2>2, KindsAssumption DEF Sound, Told, Inside
<1>7. CASE CopyTree(w)
  <2>1. w \in Users
    BY <1>0, <1>7 DEF CopyTree, At, Sound, Tasks
  <2>2. /\ pc[w] = "copying" /\ pc'[w] = "restoring" /\ gaveUp' = gaveUp
        /\ Hold(w, [Copied(w, cache[mem[w].seen.cacheId]) EXCEPT !.revision = mem[w].seen.rev])
    BY <1>0, <1>7 DEF CopyTree, At
  <2>3. mem'[w].seen = mem[w].seen /\ (w \in gaveUp => mem'[w].told)
    <3>1. mem'[w] = [Copied(w, cache[mem[w].seen.cacheId]) EXCEPT !.revision = mem[w].seen.rev]
      BY <1>0, <2>2
    <3>2. gaveUp \subseteq flagged
      BY <1>0 DEF TypeOK
    <3> QED BY <1>0, <3>1, <3>2, CopiedFields
  <2> QED BY <1>0, <2>1, <2>2, <2>3, KindsAssumption DEF Sound, Told, Inside
<1>8. CASE Restore(w)
  <2>1. w \in Users
    BY <1>0, <1>8 DEF Restore, At, Sound, Tasks
  <2>2. /\ pc[w] = "restoring" /\ pc'[w] = "left" /\ gaveUp' = gaveUp
        /\ mem'[w].told = mem[w].told
    <3>1. pc[w] = "restoring" /\ pc'[w] = "left" /\ gaveUp' = gaveUp
      BY <1>0, <1>8 DEF Restore, At
    <3>2. mem'[w] = [mem[w] EXCEPT !.seen = Unset, !.used = Unset, !.needs = {}, !.saved = Nothing]
      BY <1>0, <1>8 DEF Restore
    <3> QED BY <1>0, <3>1, <3>2 DEF Memory
  <2> QED BY <1>0, <2>1, <2>2, KindsAssumption DEF Sound, Told, Inside
<1>9. CASE Start(w)
  <2>1. w \in Users
    BY <1>0, <1>9 DEF Start, At, Sound, Tasks
  <2> QED BY <1>0, <1>9, <2>1, KindsAssumption DEF Start, GoesOn, At, Sound, Told, Inside, Over
<1>10. CASE Prepare(w)
  BY <1>0, <1>10, KindsAssumption DEF Prepare, At, Memory, Sound, Told, Inside, Tasks
<1>11. ASSUME NEW how \in {"canceled", "failed"}, pc[w] \in Inside, Stopped(w, how)
       PROVE Sound(w)' /\ Told(w)'
  <2>1. /\ IF w \in Users THEN pc'[w] = "restoring" ELSE pc'[w] = "publishing"
        /\ gaveUp' = gaveUp
        /\ mem'[w] = [mem[w] EXCEPT !.outcome = how, !.told = @ \/ w \in Users \cap flagged]
    BY <1>0, <1>11 DEF Stopped
  <2>2. mem'[w].seen = mem[w].seen /\ mem'[w].outcome = how /\ (mem[w].told => mem'[w].told)
    BY <1>0, <2>1 DEF Memory
  <2> QED BY <1>0, <1>11, <2>1, <2>2, KindsAssumption DEF Sound, Told, Inside, Tasks
<1>12. CASE NotStarted(w) \/ Stop(w)
  BY <1>11, <1>12 DEF NotStarted, Stop, At, Inside
<1>13. CASE StartFetch(w)
  <2>1. /\ pc[w] = "prepared" /\ pc'[w] \in {"fetching", "installing"}
        /\ mem' = mem /\ gaveUp' = gaveUp /\ (w \in Updates => ~mem[w].told)
        /\ pc'[w] = "installing" => "update" \notin mem[w].needs
    <3>1. CASE "update" \in mem[w].needs
      <4>1. pc[w] = "prepared" /\ mem' = mem /\ gaveUp' = gaveUp /\ Goto(w, "fetching")
        BY <1>13, <3>1 DEF StartFetch, At
      <4>2. w \in Updates => ~mem[w].told
        BY <1>13 DEF StartFetch, RunsOn
      <4> QED BY <1>0, <4>1, <4>2
    <3>2. CASE "update" \notin mem[w].needs
      BY <1>0, <1>13, <3>2 DEF StartFetch, At, RunsOn
    <3> QED BY <3>1, <3>2
  <2> QED BY <1>0, <2>1 DEF Sound, Told, Inside
<1>14. CASE Checkout(w)
  <2>1. w \in Updates => head' \in 1..MaxRev
    BY <1>0, <1>14, Grown, KindsAssumption DEF Checkout, TypeOK, Users
  <2>2. /\ pc[w] = "fetching" /\ pc'[w] = "installing" /\ gaveUp' = gaveUp
        /\ mem'[w] = [mem[w] EXCEPT !.revision = head']
    BY <1>0, <1>14 DEF Checkout, At
  <2>3. /\ mem'[w].seen = mem[w].seen /\ mem'[w].needs = mem[w].needs
        /\ mem'[w].told = mem[w].told /\ mem'[w].revision = head'
    BY <1>0, <2>2 DEF Memory
  <2>4. Sound(w)'
    BY <1>0, <2>1, <2>2, <2>3 DEF Sound, Inside
  <2>5. Told(w)'
    BY <1>0, <2>2, <2>3 DEF Told, Inside, Over
  <2> QED BY <2>4, <2>5
<1>15. CASE Install(w)
  <2>1. pc[w] = "installing" /\ pc'[w] = "leaving" /\ gaveUp' = gaveUp
    BY <1>0, <1>15 DEF Install, At
  <2>2. /\ mem'[w].seen = mem[w].seen /\ mem'[w].needs = mem[w].needs
        /\ mem'[w].told = mem[w].told
        /\ "update" \in mem[w].needs => mem'[w].revision = mem[w].revision
    BY <1>0, <1>15 DEF Install, Memory
  <2>3. Sound(w)'
    BY <1>0, <2>1, <2>2 DEF Sound, Inside
  <2>4. Told(w)'
    BY <1>0, <2>1, <2>2 DEF Told, Inside, Over
  <2> QED BY <2>3, <2>4
<1>16. CASE Leave(w)
  <2>1. pc[w] = "leaving" /\ gaveUp' = gaveUp /\ (w \in gaveUp => w \in Users)
    BY <1>0, <1>16 DEF Leave, At, Told, Over, Tasks
  <2>2. CASE w \in Users
    <3>1. pc'[w] = "restoring" /\ Hold(w, Copied(w, Kept(w)[CacheId(w)]))
      BY <1>0, <1>16, <2>2 DEF Leave
    <3>2. mem'[w].seen = mem[w].seen /\ (w \in gaveUp => mem'[w].told)
      <4>1. mem'[w] = Copied(w, Kept(w)[CacheId(w)])
        BY <1>0, <3>1
      <4>2. gaveUp \subseteq flagged
        BY <1>0 DEF TypeOK
      <4> QED BY <1>0, <4>1, <4>2, CopiedFields
    <3> QED BY <1>0, <2>1, <2>2, <3>1, <3>2, KindsAssumption DEF Sound, Told, Inside
  <2>3. CASE w \notin Users
    <3>1. pc'[w] = "publishing" /\ mem' = mem
      BY <1>0, <1>16, <2>3 DEF Leave
    <3> QED BY <1>0, <2>1, <2>3, <3>1 DEF Sound, Told, Inside, Tasks
  <2> QED BY <2>2, <2>3
<1>17. CASE Publish(w)
  BY <1>0, <1>17 DEF Publish, Forget, At, Memory, Sound, Told, Inside, Over, Tasks
<1> QED
  BY <1>1, <1>2, <1>4, <1>5, <1>6, <1>7, <1>8, <1>9, <1>10, <1>12, <1>13, <1>14, <1>15, <1>16,
     <1>17 DEF Step

-----------------------------------------------------------------------------
(* The invariant.                                                          *)

LEMMA InitIInv == Init => IInv
<1> SUFFICES ASSUME Init PROVE IInv
  OBVIOUS
<1>1. TypeOK
  <2>1. project \in Row /\ tip \in 1..MaxRev /\ head \in Content
    <3>1. 1 \in 0..MaxRev /\ 1 \in 1..MaxRev /\ 1..MaxRev \subseteq 0..MaxRev
      BY BoundsAssumption
    <3>2. head \in {1, Nothing} /\ tip \in 1..MaxRev
      BY DEF Init
    <3>3. /\ project.rev \in {1, tip} /\ project.cacheId \in {"first", "far"} /\ project.failed = FALSE
          /\ project = [rev |-> project.rev, cacheId |-> project.cacheId, failed |-> project.failed]
      BY DEF Init
    <3>4. project \in Row
      BY <3>1, <3>2, <3>3 DEF Row, Caches
    <3> QED BY <3>1, <3>2, <3>4, Contents
  <2>2. cache \in [Caches -> Content]
    BY <2>1, Contents DEF Init
  <2> QED BY <2>1, <2>2, BlankTypes, Contents, BoundsAssumption DEF Init, TypeOK, Places
<1>2. TakesTurns
  BY KindsAssumption DEF Init, TakesTurns, Inside
<1>3. project.rev \in 1..MaxRev
  BY BoundsAssumption DEF Init
<1>4. \A w \in Tasks : Sound(w) /\ Told(w)
  BY DEF Init, Sound, Told, Inside
<1> QED BY <1>1, <1>2, <1>3, <1>4 DEF IInv

LEMMA StepIInv == IInv /\ [Next]_vars => IInv'
<1> SUFFICES ASSUME IInv, [Next]_vars PROVE IInv'
  OBVIOUS
<1>1. TypeOK' /\ TakesTurns'
  BY TypeStep, TakesTurnsStep DEF IInv
<1>2. project'.rev \in 1..MaxRev
  <2>1. CASE project' = project
    BY <2>1 DEF IInv
  <2>2. ASSUME NEW w \in Tasks, Begin(w) \/ Die(w) PROVE project'.rev \in 1..MaxRev
    BY <2>2 DEF IInv, TypeOK, Row, Begin, Die
  <2>3. ASSUME NEW w \in Tasks, Publish(w) PROVE project'.rev \in 1..MaxRev
    <3>1. pc[w] = "publishing" /\ Sound(w)
      BY <2>3 DEF Publish, At, IInv
    <3>2. \/ mem[w].outcome = "ok" /\ project' = [project EXCEPT !.rev = mem[w].revision, !.failed = FALSE]
          \/ project' = [project EXCEPT !.failed = (mem[w].outcome = "failed")]
      BY <2>3 DEF Publish
    <3>3. project \in Row /\ project.rev \in 1..MaxRev
      BY DEF IInv, TypeOK
    <3> QED BY <3>1, <3>2, <3>3 DEF Sound, Row
  <2> QED
    BY <2>1, <2>2, <2>3 DEF Next, Step, vars, row, Cancel, Signal, AcquireLock, GiveUp, Look,
       CopyTree, Restore, Start, Prepare, NotStarted, StartFetch, Checkout, Install, Leave, Stop,
       Stopped
<1>3. \A w \in Tasks : Sound(w)' /\ Told(w)'
  <2>1. CASE UNCHANGED vars \/ \E w \in Tasks : Cancel(w) \/ Signal(w)
    BY <2>1 DEF IInv, vars, Cancel, Signal, Sound, Told
  <2>2. ASSUME NEW w \in Tasks, Step(w) \/ Stop(w) \/ Die(w)
        PROVE  \A v \in Tasks : Sound(v)' /\ Told(v)'
    BY <2>2, SoundStep, StepMoves, OthersStay DEF IInv
  <2> QED BY <2>1, <2>2 DEF Next
<1> QED BY <1>1, <1>2, <1>3 DEF IInv

\* Whatever the jobs, updates, cancellations and faults, the invariant holds.
THEOREM Invariant == Spec => []IInv
BY InitIInv, StepIInv, PTL DEF Spec

\* Every variable keeps its type: an update that has not fetched a revision
\* never gives the project one (RunProjectUpdate.post_run_hook).
THEOREM TypeCorrect == Spec => []TypeOK
<1>1. IInv => TypeOK
  BY DEF IInv
<1> QED BY <1>1, Invariant, PTL

\* acquire_lock and release_lock: the lock is let go of on every way out, and
\* only who was cancelled is ever inside without it.
THEOREM EverybodyTakesTurns == Spec => []TakesTurns
<1>1. IInv => TakesTurns
  BY DEF IInv
<1> QED BY <1>1, Invariant, PTL

\* Who was cancelled while it waited never starts its playbook.
THEOREM CanceledNeverRuns == Spec => []GivenUpNeverRuns
<1>1. IInv => GivenUpNeverRuns
  BY DEF IInv, TypeOK, Told, GivenUpNeverRuns
<1> QED BY <1>1, Invariant, PTL

-----------------------------------------------------------------------------
(* What a job runs.                                                        *)

LEMMA OneInside ==
  ASSUME IInv, gaveUp = {}, NEW v \in Tasks, NEW w \in Tasks, pc[v] \in Inside, pc[w] \in Inside
  PROVE  v = w
BY DEF IInv, TakesTurns

LEMMA OthersReady ==
  ASSUME IInv, gaveUp = {}, NEW w \in Tasks, NEW v \in Users \ {w}, Ready(v),
         pc'[v] = pc[v], mem'[v] = mem[v], signalled \subseteq signalled',
         pc[w] \in Inside \/ UNCHANGED head
  PROVE  Ready(v)'
<1>1. pc[v] \in Inside => head' = head
  BY OneInside DEF Tasks
<1> QED BY <1>1 DEF Ready, Inside

\* The tree changes inside only.
LEMMA WhoTouches ==
  ASSUME NEW w \in Tasks, Step(w) \/ Stop(w) \/ Die(w)
  PROVE  (pc[w] \in Inside \/ UNCHANGED head) /\ UNCHANGED signalled
BY DEF Step, Begin, AcquireLock, GiveUp, Look, CopyTree, Restore, Start, Prepare, NotStarted,
       StartFetch, Checkout, Install, Leave, Stop, Stopped, Publish, Die, At, Inside, tree, requests

LEMMA UnderWayStep ==
  ASSUME IInv, gaveUp = {}, NEW w \in Tasks, Step(w) \/ Stop(w) \/ Die(w),
         checkout = "under way" => \E v \in Tasks : pc[v] = "fetching",
         checkout' = "under way"
  PROVE  \E v \in Tasks : pc'[v] = "fetching"
<1> TypeOK
  BY DEF IInv
<1>1. CASE StartFetch(w) /\ "update" \in mem[w].needs
  BY <1>1, Moved DEF StartFetch
<1>2. CASE ~(StartFetch(w) /\ "update" \in mem[w].needs)
  <2>1. checkout = "under way" /\ pc[w] # "fetching"
    BY <1>2 DEF Step, Begin, AcquireLock, GiveUp, Look, CopyTree, Restore, Start, Prepare,
                NotStarted, StartFetch, Checkout, Install, Leave, Stop, Stopped, Publish, Die,
                CutOff, At, tree
  <2>2. PICK v \in Tasks : pc[v] = "fetching"
    BY <2>1
  <2> QED BY <2>1, <2>2, StepMoves
<1> QED BY <1>1, <1>2

LEMMA NotFeature == Feature \notin 1..MaxRev
BY BoundsAssumption DEF Feature

LEMMA CopiedParts ==
  ASSUME NEW w \in Tasks, mem[w] \in Memory, NEW roles, checkout # "under way"
  PROVE  /\ Copied(w, roles).copied = head /\ Copied(w, roles).whole = TRUE
         /\ Copied(w, roles).outcome = mem[w].outcome
         /\ Copied(w, roles).revision = mem[w].revision
<1> DEFINE whole == checkout # "under way"
           told == w \in flagged
<1>1. Copied(w, roles)
        = [mem[w] EXCEPT !.copied = head, !.whole = whole, !.roles = roles, !.told = told]
  BY DEF Copied
<1>2. whole = TRUE
  OBVIOUS
<1> HIDE DEF whole, told
<1> QED BY <1>1, <1>2 DEF Memory

LEMMA GaveUpGrows ==
  ASSUME NEW w \in Tasks, Step(w) \/ Stop(w) \/ Die(w) PROVE gaveUp \subseteq gaveUp'
BY DEF Step, Begin, AcquireLock, GiveUp, Look, CopyTree, Restore, Start, Prepare, NotStarted,
       StartFetch, Checkout, Install, Leave, Stop, Stopped, Publish, Die

LEMMA ReadyStep ==
  ASSUME IInv, gaveUp = {}, NEW w \in Users, Ready(w), Step(w) \/ Stop(w) \/ Die(w), gaveUp' = {},
         checkout = "under way" => \E v \in Tasks : pc[v] = "fetching"
  PROVE  Ready(w)'
<1> USE Moved, Keeps
<1>0. /\ TypeOK /\ w \in Tasks /\ w \notin Updates /\ Sound(w) /\ mem[w] \in Memory
      /\ UNCHANGED signalled
  BY KindsAssumption, WhoTouches DEF IInv, TypeOK, Tasks
<1>seen. pc[w] \in Inside => mem[w].seen.rev # Feature
  BY <1>0, NotFeature DEF Sound
<1>used. pc[w] = "fetching" => mem[w].used.rev # Feature
  BY <1>0, NotFeature DEF Sound
<1>1. CASE Die(w) \/ Start(w)
  <2>1. mem'[w] = Blank
    BY <1>0, <1>1 DEF Die, Start, Forget
  <2>2. pc'[w] \in Over
    BY <1>0, <1>1 DEF Die, Start, Over
  <2>3. mem'[w].outcome = "ok"
    <3>1. Blank.outcome = "ok"
      BY DEF Blank
    <3> QED BY <2>1, <3>1
  <2> QED BY <2>2, <2>3 DEF Ready, Over
<1>2. CASE Begin(w)
  <2>1. pc'[w] = "waiting" /\ mem'[w] = [mem[w] EXCEPT !.seen = project']
    BY <1>0, <1>2 DEF Begin
  <2> QED BY <1>0, <2>1 DEF Memory, Ready
<1>3. CASE AcquireLock(w) \/ GiveUp(w)
  <2>1. pc'[w] = "looking"
    BY <1>0, <1>3 DEF AcquireLock, GiveUp, Entered
  <2>2. \/ mem'[w] = [mem[w] EXCEPT !.told = FALSE]
        \/ mem'[w] = [mem[w] EXCEPT !.told = TRUE]
    BY <1>0, <1>3 DEF AcquireLock, GiveUp, Entered
  <2>3. mem'[w].outcome = mem[w].outcome
    BY <1>0, <2>2 DEF Memory
  <2> QED BY <1>0, <2>1, <2>3 DEF Ready
<1>4. CASE Look(w)
  <2>1. CASE mem[w].seen.failed
    <3>1. pc'[w] = "restoring" /\ mem'[w] = [mem[w] EXCEPT !.outcome = "failed"]
      BY <1>0, <1>4, <2>1 DEF Look
    <3>2. mem'[w].outcome = "failed"
      BY <1>0, <3>1 DEF Memory
    <3> QED BY <1>0, <3>1, <3>2 DEF Ready
  <2>2. CASE ~mem[w].seen.failed
    <3> DEFINE saved == IF w \in BranchJobs THEN head ELSE Nothing
    <3>1. /\ mem'[w] = [mem[w] EXCEPT !.needs = SyncNeeds(w), !.saved = saved]
          /\ pc'[w] = IF SyncNeeds(w) = {} THEN "copying" ELSE "preparing"
          /\ head' = head
      BY <1>0, <1>4, <2>2 DEF Look, tree
    <3> HIDE DEF saved
    <3>2. /\ mem'[w].seen = mem[w].seen /\ mem'[w].needs = SyncNeeds(w)
          /\ mem'[w].outcome = mem[w].outcome
      BY <1>0, <3>1 DEF Memory
    <3>3. "update" \notin SyncNeeds(w) => head = mem[w].seen.rev /\ w \notin BranchJobs
      BY DEF SyncNeeds
    <3> QED BY <1>0, <3>1, <3>2, <3>3 DEF Ready
  <2> QED BY <2>1, <2>2
<1>5. pc[w] \in Inside /\ pc[w] # "fetching" => checkout # "under way"
  BY <1>0, OneInside DEF Inside
<1>6. CASE CopyTree(w)
  <2> DEFINE c == Copied(w, cache[mem[w].seen.cacheId])
  <2>1. /\ pc[w] = "copying" /\ pc'[w] = "restoring"
        /\ mem'[w] = [c EXCEPT !.revision = mem[w].seen.rev]
    BY <1>0, <1>6 DEF CopyTree, At
  <2>2. head = mem[w].seen.rev /\ w \notin BranchJobs /\ mem[w].seen.rev # Feature
    BY <1>0, <1>seen, <2>1 DEF Ready, Inside
  <2>3. checkout # "under way"
    BY <1>5, <2>1 DEF Inside
  <2>4. /\ mem'[w].copied = head /\ mem'[w].revision = mem[w].seen.rev /\ mem'[w].whole = TRUE
        /\ mem'[w].outcome = mem[w].outcome
    <3> HIDE DEF c
    <3>1. c = Copied(w, cache[mem[w].seen.cacheId])
      BY DEF c
    <3>2. c.copied = head /\ c.whole = TRUE /\ c.outcome = mem[w].outcome
      BY <1>0, <2>3, <3>1, CopiedParts
    <3>3. cache[mem[w].seen.cacheId] \in Content
      BY <1>0 DEF TypeOK, Memory, Row
    <3>4. c \in Memory
      BY <1>0, <3>1, <3>3, CopiedType
    <3> QED BY <2>1, <3>2, <3>4 DEF Memory
  <2> QED BY <1>0, <2>1, <2>2, <2>4 DEF Ready
<1>7. CASE Restore(w)
  <2>1. /\ pc[w] = "restoring" /\ pc'[w] = "left"
        /\ mem'[w] = [mem[w] EXCEPT !.seen = Unset, !.used = Unset, !.needs = {}, !.saved = Nothing]
    BY <1>0, <1>7 DEF Restore, At
  <2>2. /\ mem'[w].copied = mem[w].copied /\ mem'[w].revision = mem[w].revision
        /\ mem'[w].whole = mem[w].whole /\ mem'[w].outcome = mem[w].outcome
    BY <1>0, <2>1 DEF Memory
  <2> QED BY <1>0, <2>1, <2>2 DEF Ready
<1>8. CASE Prepare(w)
  <2>1. /\ pc[w] = "preparing" /\ pc'[w] = "prepared" /\ head' = head
        /\ \E p \in Row : mem'[w] = [mem[w] EXCEPT !.used = p]
    <3>1. pc[w] = "preparing" /\ pc'[w] = "prepared" /\ head' = head
      BY <1>0, <1>8 DEF Prepare, At, tree
    <3>2. PICK p \in {project, mem[w].seen} : Hold(w, [mem[w] EXCEPT !.used = p])
      BY <1>0, <1>8 DEF Prepare
    <3>3. p \in Row /\ mem'[w] = [mem[w] EXCEPT !.used = p]
      BY <1>0, <3>2 DEF Memory, TypeOK
    <3> QED BY <3>1, <3>3
  <2>2. /\ mem'[w].seen = mem[w].seen /\ mem'[w].needs = mem[w].needs
        /\ mem'[w].outcome = mem[w].outcome
    BY <1>0, <2>1 DEF Memory
  <2> QED BY <1>0, <2>1, <2>2 DEF Ready
<1>9. ASSUME NEW how \in {"canceled", "failed"}, Stopped(w, how), how = "canceled" => w \in signalled
      PROVE Ready(w)'
  <2>1. /\ pc'[w] = "restoring"
        /\ mem'[w] = [mem[w] EXCEPT !.outcome = how, !.told = @ \/ w \in Users \cap flagged]
    BY <1>0, <1>9 DEF Stopped
  <2>2. mem'[w].outcome = how
    BY <1>0, <2>1 DEF Memory
  <2> QED BY <1>0, <1>9, <2>1, <2>2 DEF Ready
<1>10. CASE NotStarted(w) \/ Stop(w)
  BY <1>0, <1>9, <1>10 DEF NotStarted, Stop, RunsOn
<1>11. CASE StartFetch(w)
  <2>1. /\ pc[w] = "prepared" /\ mem' = mem /\ head' = head
        /\ pc'[w] = IF "update" \in mem[w].needs THEN "fetching" ELSE "installing"
    BY <1>0, <1>11 DEF StartFetch, At
  <2> QED BY <1>0, <2>1 DEF Ready
<1>12. CASE Checkout(w)
  <2>1. /\ pc[w] = "fetching" /\ pc'[w] = "installing" /\ mem'[w] = [mem[w] EXCEPT !.revision = head']
        /\ head' = IF w \in BranchJobs THEN Feature ELSE mem[w].used.rev
    BY <1>0, <1>12 DEF Checkout, At
  <2>2. /\ mem'[w].revision = head' /\ mem'[w].needs = mem[w].needs
        /\ mem'[w].outcome = mem[w].outcome /\ mem[w].used.rev # Feature
    BY <1>0, <1>used, <2>1 DEF Memory
  <2> QED BY <1>0, <2>1, <2>2 DEF Ready
<1>13. CASE Install(w)
  <2> DEFINE rev == IF "update" \in mem[w].needs THEN mem[w].revision ELSE mem[w].seen.rev
  <2>1. /\ pc[w] = "installing" /\ pc'[w] = "leaving" /\ head' = head
        /\ mem'[w] = [mem[w] EXCEPT !.revision = rev]
    BY <1>0, <1>13 DEF Install, At, tree
  <2>2. mem'[w].revision = rev /\ mem'[w].outcome = mem[w].outcome /\ mem[w].seen.rev # Feature
    BY <1>0, <1>seen, <2>1 DEF Memory, Inside
  <2> QED BY <1>0, <2>1, <2>2 DEF Ready
<1>14. CASE Leave(w)
  <2> DEFINE c == Copied(w, Kept(w)[CacheId(w)])
  <2>1. pc[w] = "leaving" /\ pc'[w] = "restoring" /\ mem'[w] = c
    BY <1>0, <1>14 DEF Leave, At
  <2>2. checkout # "under way"
    BY <1>5, <2>1 DEF Inside
  <2>3. /\ mem'[w].copied = head /\ mem'[w].revision = mem[w].revision /\ mem'[w].whole = TRUE
        /\ mem'[w].outcome = mem[w].outcome
    <3> HIDE DEF c
    <3>1. c = Copied(w, Kept(w)[CacheId(w)])
      BY DEF c
    <3>2. /\ c.copied = head /\ c.whole = TRUE /\ c.outcome = mem[w].outcome
          /\ c.revision = mem[w].revision
      BY <1>0, <2>2, <3>1, CopiedParts
    <3> QED BY <2>1, <3>2
  <2> QED BY <1>0, <2>1, <2>3 DEF Ready
<1>15. CASE Publish(w)
  BY <1>0, <1>15 DEF Publish, At, Sound
<1> QED
  BY <1>1, <1>2, <1>3, <1>4, <1>6, <1>7, <1>8, <1>10, <1>11, <1>12, <1>13, <1>14, <1>15 DEF Step

LEMMA StepRInv == IInv /\ RInv /\ [Next]_vars => RInv'
<1> SUFFICES ASSUME IInv, RInv, [Next]_vars, gaveUp' = {}
             PROVE  /\ checkout' = "under way" => \E w \in Tasks : pc'[w] = "fetching"
                    /\ \A w \in Users : Ready(w)'
  BY DEF RInv
<1>1. CASE UNCHANGED vars \/ \E w \in Tasks : Cancel(w) \/ Signal(w)
  <2>1. UNCHANGED <<pc, mem, head, checkout, gaveUp>> /\ signalled \subseteq signalled'
    BY <1>1 DEF vars, tree, requests, Cancel, Signal
  <2> QED BY <2>1 DEF RInv, Ready
<1>2. ASSUME NEW w \in Tasks, Step(w) \/ Stop(w) \/ Die(w)
      PROVE  /\ checkout' = "under way" => \E v \in Tasks : pc'[v] = "fetching"
             /\ \A v \in Users : Ready(v)'
  <2>1. gaveUp = {}
    BY <1>2, GaveUpGrows
  <2>2. checkout' = "under way" => \E v \in Tasks : pc'[v] = "fetching"
    BY <1>2, <2>1, UnderWayStep DEF RInv
  <2>3. \A v \in Users \ {w} : Ready(v)'
    BY <1>2, <2>1, OthersReady, WhoTouches, StepMoves DEF RInv, IInv, Tasks
  <2>4. w \in Users => Ready(w)'
    BY <1>2, <2>1, ReadyStep DEF RInv
  <2> QED BY <2>2, <2>3, <2>4
<1> QED BY <1>1, <1>2 DEF Next

LEMMA InitRInv == Init => RInv
BY DEF Init, RInv, Ready, Blank, Tasks

\* sync_and_copy: whatever the jobs, updates and faults, and how often the
\* branch has moved meanwhile, a job that starts has the tree of the revision
\* its row says, as long as nobody went on without the lock.
THEOREM JobsRunWhatTheySay == Spec => []RunsWhatItSays
<1>1. IInv /\ RInv => RunsWhatItSays
  <2> SUFFICES ASSUME IInv, RInv, gaveUp = {}, NEW w \in Users, GoesOn(w)
               PROVE  /\ mem[w].copied = mem[w].revision /\ mem[w].whole
                      /\ w \in BranchJobs <=> mem[w].revision = Feature
    BY DEF RunsWhatItSays
  <2>1. mem[w].outcome \in {"ok", "canceled", "failed"}
    BY DEF IInv, TypeOK, Memory, Tasks
  <2>2. pc[w] = "left" /\ mem[w].outcome # "failed" /\ w \notin signalled /\ Ready(w)
    BY DEF GoesOn, At, RInv
  <2> QED BY <2>1, <2>2 DEF Ready
<1>2. Spec => []RInv
  BY InitRInv, StepRInv, Invariant, PTL DEF Spec
<1> QED BY <1>1, <1>2, Invariant, PTL

-----------------------------------------------------------------------------
(* What a job finds installed.                                             *)

Syncing == {"preparing", "prepared", "fetching", "installing", "leaving"}

\* What a user has of the roles, as long as everybody waits for the lock: those
\* of the cache it noted to be there, or those its sync stages.
Equipped(w) ==
  /\ pc[w] \notin {"restoring", "left"} => mem[w].copied = Nothing
  /\ pc[w] \in Syncing => mem[w].needs # {}
  /\ pc[w] = "copying" \/ (pc[w] \in Syncing /\ "install" \notin mem[w].needs) =>
       cache[mem[w].seen.cacheId] # Nothing /\ w \notin BranchJobs
  /\ /\ pc[w] = "restoring" /\ mem[w].copied # Nothing
     /\ mem[w].needs # {} => mem[w].used = mem[w].seen
     => /\ mem[w].roles \notin {Nothing, Empty}
        /\ w \in BranchJobs => mem[w].roles = mem[w].copied

\* What is staged is the content of a tree, that of its branch for a job that has
\* a branch of its own.
Staged(w) ==
  /\ pc[w] = "installing" => head \in 0..MaxRev
  /\ pc[w] = "leaving" /\ "install" \in mem[w].needs =>
       stage \in 0..MaxRev /\ (w \in BranchJobs => stage = head)

EInv ==
  gaveUp = {} =>
    /\ \A w \in Users : Equipped(w)
    /\ \A w \in Tasks : Staged(w)
    /\ \A c \in Caches : cache[c] # Empty

LEMMA NotNothing ==
  /\ Nothing \notin 0..MaxRev /\ Empty \notin 0..MaxRev /\ Empty # Nothing
  /\ Feature \in 0..MaxRev /\ 1..MaxRev \subseteq 0..MaxRev
BY BoundsAssumption DEF Nothing, Feature, Empty

LEMMA OthersStaged ==
  ASSUME IInv, gaveUp = {}, NEW w \in Tasks, NEW v \in Tasks \ {w}, Staged(v),
         pc'[v] = pc[v], mem'[v] = mem[v], pc[w] \in Inside \/ UNCHANGED <<head, stage, cache>>
  PROVE  Staged(v)'
<1>1. pc[v] \in Inside => UNCHANGED <<head, stage, cache>>
  BY OneInside DEF Tasks
<1> QED BY <1>1 DEF Staged, Inside

\* Only the playbook brings a task to the places where it has a stage.
LEMMA StagedStep ==
  ASSUME IInv, gaveUp = {}, NEW w \in Tasks, w \in Users => Ready(w), Staged(w),
         Step(w) \/ Stop(w) \/ Die(w)
  PROVE  Staged(w)'
<1> USE Moved, Keeps
<1>0. /\ TypeOK /\ Sound(w) /\ mem[w] \in Memory
  BY DEF IInv, TypeOK
<1>seen. pc[w] \in Inside => mem[w].seen.rev \in 0..MaxRev
  BY <1>0, NotNothing DEF Sound
<1>used. pc[w] = "fetching" => mem[w].used.rev \in 0..MaxRev
  BY <1>0, NotNothing DEF Sound
<1>1. CASE Die(w) \/ Start(w)
  <2>1. pc'[w] \in Over
    BY <1>0, <1>1 DEF Die, Start, Over
  <2> QED BY <2>1 DEF Staged, Over
<1>2. CASE Begin(w) \/ AcquireLock(w) \/ GiveUp(w) \/ Prepare(w)
  <2>1. pc'[w] \in {"waiting", "looking", "preparing", "prepared"}
    BY <1>0, <1>2 DEF Begin, AcquireLock, GiveUp, Entered, Prepare
  <2> QED BY <2>1 DEF Staged
<1>3. CASE Look(w) \/ CopyTree(w)
  <2>1. pc'[w] \in {"restoring", "copying", "preparing"}
    BY <1>0, <1>3 DEF Look, CopyTree
  <2> QED BY <2>1 DEF Staged
<1>4. CASE Restore(w) \/ Publish(w)
  <2>1. pc'[w] \in {"left"} \cup Over
    BY <1>0, <1>4 DEF Restore, Publish, TypeOK, Memory, Over
  <2> QED BY <2>1 DEF Staged, Over
<1>5. CASE NotStarted(w) \/ Stop(w)
  <2>1. pc'[w] \in {"restoring", "publishing"}
    BY <1>0, <1>5 DEF NotStarted, Stop, Stopped
  <2> QED BY <2>1 DEF Staged
<1>6. CASE StartFetch(w)
  <2>1. /\ pc[w] = "prepared" /\ mem' = mem /\ head' = head
        /\ pc'[w] = IF "update" \in mem[w].needs THEN "fetching" ELSE "installing"
    BY <1>0, <1>6 DEF StartFetch, At
  <2>2. "update" \notin mem[w].needs => w \in Users
    BY <1>0, <2>1 DEF Sound, Tasks, Inside
  <2>3. "update" \notin mem[w].needs => head \in 0..MaxRev
    BY <1>seen, <2>1, <2>2 DEF Ready, Inside
  <2> QED BY <2>1, <2>3 DEF Staged
<1>7. CASE Checkout(w)
  <2>1. /\ pc[w] = "fetching" /\ pc'[w] = "installing"
        /\ w \in Updates => Grow
        /\ head' = CASE w \in BranchJobs -> Feature
                     [] w \in Updates    -> tip'
                     [] OTHER            -> mem[w].used.rev
    BY <1>0, <1>7 DEF Checkout, At
  <2>2. w \in Updates => tip' \in 0..MaxRev
    BY <1>0, <2>1, Grown, NotNothing DEF TypeOK
  <2>3. w \in BranchJobs => w \notin Updates
    BY KindsAssumption DEF Users
  <2>4. head' \in 0..MaxRev
    BY <1>used, <2>1, <2>2, <2>3, NotNothing
  <2> QED BY <2>1, <2>4 DEF Staged
<1>8. CASE Install(w)
  <2> DEFINE rev == IF "update" \in mem[w].needs THEN mem[w].revision ELSE mem[w].seen.rev
  <2>1. /\ pc[w] = "installing" /\ pc'[w] = "leaving" /\ head' = head
        /\ mem'[w] = [mem[w] EXCEPT !.revision = rev]
        /\ "install" \in mem[w].needs => stage' = head
    BY <1>0, <1>8 DEF Install, At, tree
  <2> HIDE DEF rev
  <2>2. mem'[w].needs = mem[w].needs
    BY <1>0, <2>1 DEF Memory
  <2> QED BY <2>1, <2>2 DEF Staged
<1>9. CASE Leave(w)
  <2>1. pc'[w] \in {"restoring", "publishing"}
    BY <1>0, <1>9 DEF Leave
  <2> QED BY <2>1 DEF Staged
<1> QED
  BY <1>1, <1>2, <1>3, <1>4, <1>5, <1>6, <1>7, <1>8, <1>9 DEF Step

\* A cache is filled from a stage, when its task leaves.
LEMMA CacheStep ==
  ASSUME IInv, NEW w \in Tasks, Staged(w), \A c \in Caches : cache[c] # Empty,
         Step(w) \/ Stop(w) \/ Die(w)
  PROVE  \A c \in Caches : cache'[c] # Empty
<1>1. CASE Leave(w)
  <2>1. pc[w] = "leaving" /\ cache' = Kept(w)
    BY <1>1 DEF Leave, At
  <2>2. CASE "install" \notin mem[w].needs
    BY <2>1, <2>2 DEF Kept
  <2>3. CASE "install" \in mem[w].needs
    <3>1. stage \in 0..MaxRev
      BY <2>1, <2>3 DEF Staged
    <3>2. \A c \in Caches : Kept(w)[c] \in {stage, cache[c], Nothing}
      BY <2>3 DEF Kept
    <3> QED BY <2>1, <3>1, <3>2, NotNothing
  <2> QED BY <2>2, <2>3
<1>2. CASE ~Leave(w)
  <2>1. cache' = cache
    BY <1>2 DEF Step, Begin, AcquireLock, GiveUp, Look, CopyTree, Restore, Start, Prepare,
         NotStarted, StartFetch, Checkout, Install, Stop, Stopped, Publish, Die
  <2> QED BY <2>1
<1> QED BY <1>1, <1>2

\* Tree, stage and cache change inside only.
LEMMA WhoChanges ==
  ASSUME NEW w \in Tasks, Step(w) \/ Stop(w) \/ Die(w)
  PROVE  pc[w] \in Inside \/ UNCHANGED <<head, stage, cache>>
BY DEF Step, Begin, AcquireLock, GiveUp, Look, CopyTree, Restore, Start, Prepare, NotStarted,
       StartFetch, Checkout, Install, Leave, Stop, Stopped, Publish, Die, At, Inside, tree

LEMMA OthersEquipped ==
  ASSUME IInv, gaveUp = {}, NEW w \in Tasks, NEW v \in Users \ {w}, Equipped(v),
         pc'[v] = pc[v], mem'[v] = mem[v], pc[w] \in Inside \/ UNCHANGED <<head, stage, cache>>
  PROVE  Equipped(v)'
<1>1. pc[v] \in Inside => UNCHANGED <<head, stage, cache>>
  BY OneInside DEF Tasks
<1> QED BY <1>1 DEF Equipped, Inside, Syncing

LEMMA CopiedRoles ==
  ASSUME NEW w \in Tasks, mem[w] \in Memory, NEW roles, NEW rev
  PROVE  LET c == Copied(w, roles)  d == [c EXCEPT !.revision = rev] IN
         /\ c.roles = roles /\ c.needs = mem[w].needs /\ c.seen = mem[w].seen /\ c.used = mem[w].used
         /\ c.copied = head /\ d.roles = roles
<1> DEFINE whole == checkout # "under way"
           told == w \in flagged
           c == Copied(w, roles)
<1>1. c = [mem[w] EXCEPT !.copied = head, !.whole = whole, !.roles = roles, !.told = told]
  BY DEF Copied
<1> HIDE DEF whole, told, c
<1>2. /\ c.roles = roles /\ c.needs = mem[w].needs /\ c.seen = mem[w].seen /\ c.used = mem[w].used
      /\ c.copied = head
  BY <1>1 DEF Memory
<1>3. [c EXCEPT !.revision = rev].roles = roles
  BY <1>1 DEF Memory
<1> QED BY <1>2, <1>3 DEF c

LEMMA KeptRoles ==
  ASSUME TypeOK, NEW w \in Tasks
  PROVE  /\ "install" \notin mem[w].needs => Kept(w) = cache
         /\ "install" \in mem[w].needs /\ stage \in 0..MaxRev => Kept(w)[CacheId(w)] = stage
         /\ mem[w].seen.cacheId \in Caches
<1>1. CacheId(w) \in Caches
  BY DEF TypeOK, CacheId, Caches, Memory, Row, Tasks
<1>2. mem[w].seen.cacheId \in Caches
  BY DEF TypeOK, Memory, Row
<1> QED BY <1>1, <1>2, NotNothing DEF Kept

LEMMA EquippedStep ==
  ASSUME IInv, gaveUp = {}, NEW w \in Users, Ready(w), Equipped(w), Staged(w),
         \A c \in Caches : cache[c] # Empty, Step(w) \/ Stop(w) \/ Die(w)
  PROVE  Equipped(w)'
<1> USE Moved, Keeps
<1>0. /\ TypeOK /\ w \in Tasks /\ w \notin Updates /\ Sound(w) /\ mem[w] \in Memory
  BY KindsAssumption DEF IInv, TypeOK, Tasks
<1>1. CASE Die(w) \/ Start(w)
  <2>1. mem'[w] = Blank /\ Blank.copied = Nothing
    BY <1>0, <1>1 DEF Die, Start, Forget, Blank
  <2>2. pc'[w] \in Over
    BY <1>0, <1>1 DEF Die, Start, Over
  <2> QED BY <2>1, <2>2 DEF Equipped, Over, Syncing
<1>2. CASE Begin(w)
  <2>1. pc[w] = "new" /\ pc'[w] = "waiting" /\ mem'[w] = [mem[w] EXCEPT !.seen = project']
    BY <1>0, <1>2 DEF Begin, At
  <2>2. mem'[w].copied = mem[w].copied
    BY <1>0, <2>1 DEF Memory
  <2> QED BY <2>1, <2>2 DEF Equipped, Syncing
<1>3. CASE AcquireLock(w) \/ GiveUp(w)
  <2>1. pc[w] = "waiting" /\ pc'[w] = "looking"
    BY <1>0, <1>3 DEF AcquireLock, GiveUp, Entered, At
  <2>2. \/ mem'[w] = [mem[w] EXCEPT !.told = FALSE]
        \/ mem'[w] = [mem[w] EXCEPT !.told = TRUE]
    BY <1>0, <1>3 DEF AcquireLock, GiveUp, Entered
  <2>3. mem'[w].copied = mem[w].copied
    BY <1>0, <2>2 DEF Memory
  <2> QED BY <2>1, <2>3 DEF Equipped, Syncing
<1>4. CASE Look(w)
  <2>1. CASE mem[w].seen.failed
    <3>1. /\ pc[w] = "looking" /\ pc'[w] = "restoring"
          /\ mem'[w] = [mem[w] EXCEPT !.outcome = "failed"]
      BY <1>0, <1>4, <2>1 DEF Look, At
    <3>2. mem'[w].copied = mem[w].copied
      BY <1>0, <3>1 DEF Memory
    <3> QED BY <3>1, <3>2 DEF Equipped, Syncing
  <2>2. CASE ~mem[w].seen.failed
    <3> DEFINE saved == IF w \in BranchJobs THEN head ELSE Nothing
    <3>1. /\ mem'[w] = [mem[w] EXCEPT !.needs = SyncNeeds(w), !.saved = saved]
          /\ pc'[w] = IF SyncNeeds(w) = {} THEN "copying" ELSE "preparing"
          /\ pc[w] = "looking" /\ cache' = cache
      BY <1>0, <1>4, <2>2 DEF Look, At
    <3> HIDE DEF saved
    <3>2. /\ mem'[w].seen = mem[w].seen /\ mem'[w].needs = SyncNeeds(w)
          /\ mem'[w].copied = mem[w].copied
      BY <1>0, <3>1 DEF Memory
    <3>3. "install" \notin SyncNeeds(w) =>
            cache[mem[w].seen.cacheId] # Nothing /\ w \notin BranchJobs
      BY DEF SyncNeeds
    <3> QED BY <3>1, <3>2, <3>3 DEF Equipped, Syncing
  <2> QED BY <2>1, <2>2
<1>5. CASE CopyTree(w)
  <2> DEFINE roles == cache[mem[w].seen.cacheId]
  <2>1. /\ pc[w] = "copying" /\ pc'[w] = "restoring"
        /\ mem'[w] = [Copied(w, roles) EXCEPT !.revision = mem[w].seen.rev]
    BY <1>0, <1>5 DEF CopyTree, At
  <2>2. roles \notin {Nothing, Empty} /\ w \notin BranchJobs
    BY <1>0, <2>1, KeptRoles DEF Equipped
  <2> HIDE DEF roles
  <2>3. mem'[w].roles = roles
    BY <1>0, <2>1, CopiedRoles
  <2> QED BY <2>1, <2>2, <2>3 DEF Equipped, Syncing
<1>6. CASE Restore(w) \/ Publish(w)
  <2>1. pc'[w] = "left"
    BY <1>0, <1>6 DEF Restore, Publish, At, Sound
  <2> QED BY <2>1 DEF Equipped, Syncing
<1>7. CASE Prepare(w)
  <2>1. pc[w] = "preparing" /\ pc'[w] = "prepared" /\ cache' = cache
    BY <1>0, <1>7 DEF Prepare, At
  <2>2. PICK p \in {project, mem[w].seen} : Hold(w, [mem[w] EXCEPT !.used = p])
    BY <1>0, <1>7 DEF Prepare
  <2>3. mem'[w] = [mem[w] EXCEPT !.used = p]
    BY <1>0, <2>2
  <2>4. /\ mem'[w].seen = mem[w].seen /\ mem'[w].needs = mem[w].needs
        /\ mem'[w].copied = mem[w].copied
    BY <1>0, <2>3 DEF Memory
  <2> QED BY <2>1, <2>4 DEF Equipped, Syncing
<1>8. CASE NotStarted(w) \/ Stop(w)
  <2>1. PICK how \in {"canceled", "failed"} : Stopped(w, how)
    BY <1>8 DEF NotStarted, Stop
  <2>2. /\ pc[w] \in Syncing /\ pc'[w] = "restoring"
        /\ mem'[w] = [mem[w] EXCEPT !.outcome = how, !.told = @ \/ w \in Users \cap flagged]
    BY <1>0, <1>8, <2>1 DEF NotStarted, Stop, Stopped, At, Syncing
  <2>3. mem'[w].copied = mem[w].copied
    BY <1>0, <2>2 DEF Memory
  <2> QED BY <2>2, <2>3 DEF Equipped, Syncing
<1>9. CASE StartFetch(w)
  <2>1. /\ pc[w] = "prepared" /\ mem' = mem /\ head' = head /\ cache' = cache
        /\ pc'[w] = IF "update" \in mem[w].needs THEN "fetching" ELSE "installing"
    BY <1>0, <1>9 DEF StartFetch, At
  <2> QED BY <2>1 DEF Equipped, Syncing
<1>10. CASE Checkout(w)
  <2>1. /\ pc[w] = "fetching" /\ pc'[w] = "installing" /\ mem'[w] = [mem[w] EXCEPT !.revision = head']
        /\ head' = (IF w \in BranchJobs THEN Feature ELSE mem[w].used.rev) /\ cache' = cache
    BY <1>0, <1>10 DEF Checkout, At
  <2>2. /\ mem'[w].seen = mem[w].seen /\ mem'[w].needs = mem[w].needs
        /\ mem'[w].copied = mem[w].copied
    BY <1>0, <2>1 DEF Memory
  <2> QED BY <2>1, <2>2 DEF Equipped, Syncing
<1>11. CASE Install(w)
  <2> DEFINE rev == IF "update" \in mem[w].needs THEN mem[w].revision ELSE mem[w].seen.rev
  <2>1. /\ pc[w] = "installing" /\ pc'[w] = "leaving" /\ cache' = cache
        /\ mem'[w] = [mem[w] EXCEPT !.revision = rev]
    BY <1>0, <1>11 DEF Install, At
  <2> HIDE DEF rev
  <2>2. /\ mem'[w].seen = mem[w].seen /\ mem'[w].needs = mem[w].needs
        /\ mem'[w].copied = mem[w].copied
    BY <1>0, <2>1 DEF Memory
  <2> QED BY <2>1, <2>2 DEF Equipped, Syncing
<1>12. CASE Leave(w)
  <2> DEFINE roles == Kept(w)[CacheId(w)]
  <2>1. pc[w] = "leaving" /\ pc'[w] = "restoring" /\ mem'[w] = Copied(w, roles)
    BY <1>0, <1>12 DEF Leave, At
  <2>2. /\ mem[w].used = mem[w].seen => roles \notin {Nothing, Empty}
        /\ w \in BranchJobs => roles = head
    <3>1. CASE "install" \in mem[w].needs
      BY <1>0, <2>1, <3>1, KeptRoles, NotNothing DEF Staged
    <3>2. CASE "install" \notin mem[w].needs
      BY <1>0, <2>1, <3>2, KeptRoles DEF Equipped, Syncing, CacheId
    <3> QED BY <3>1, <3>2
  <2> HIDE DEF roles
  <2>3. /\ mem'[w].roles = roles /\ mem'[w].needs = mem[w].needs /\ mem'[w].copied = head
        /\ mem'[w].seen = mem[w].seen /\ mem'[w].used = mem[w].used
    BY <1>0, <2>1, CopiedRoles
  <2> QED BY <2>1, <2>2, <2>3 DEF Equipped, Syncing
<1> QED
  BY <1>1, <1>2, <1>3, <1>4, <1>5, <1>6, <1>7, <1>8, <1>9, <1>10, <1>11, <1>12 DEF Step

LEMMA StepEInv == IInv /\ RInv /\ EInv /\ [Next]_vars => EInv'
<1> SUFFICES ASSUME IInv, RInv, EInv, [Next]_vars, gaveUp' = {}
             PROVE  /\ \A w \in Users : Equipped(w)'
                    /\ \A w \in Tasks : Staged(w)'
                    /\ \A c \in Caches : cache'[c] # Empty
  BY DEF EInv
<1>1. CASE UNCHANGED vars \/ \E w \in Tasks : Cancel(w) \/ Signal(w)
  <2>1. UNCHANGED <<pc, mem, head, stage, cache, gaveUp>>
    BY <1>1 DEF vars, tree, Cancel, Signal
  <2> QED BY <2>1 DEF EInv, Equipped, Staged
<1>2. ASSUME NEW w \in Tasks, Step(w) \/ Stop(w) \/ Die(w)
      PROVE  /\ \A v \in Users : Equipped(v)'
             /\ \A v \in Tasks : Staged(v)'
             /\ \A c \in Caches : cache'[c] # Empty
  <2>1. gaveUp = {}
    BY <1>2, GaveUpGrows
  <2>2. \A v \in Users \ {w} : Equipped(v)'
    BY <1>2, <2>1, OthersEquipped, WhoChanges, StepMoves DEF EInv, IInv, Tasks
  <2>3. w \in Users => Equipped(w)'
    BY <1>2, <2>1, EquippedStep DEF EInv, RInv, Tasks
  <2>4. \A v \in Tasks \ {w} : Staged(v)'
    BY <1>2, <2>1, OthersStaged, WhoChanges, StepMoves DEF EInv, IInv
  <2>5. Staged(w)'
    BY <1>2, <2>1, StagedStep DEF EInv, RInv
  <2>6. \A c \in Caches : cache'[c] # Empty
    BY <1>2, <2>1, CacheStep DEF EInv
  <2> QED BY <2>2, <2>3, <2>4, <2>5, <2>6
<1> QED BY <1>1, <1>2 DEF Next

LEMMA InitEInv == Init => EInv
BY NotNothing, BoundsAssumption DEF Init, EInv, Equipped, Staged, Syncing, Blank, Tasks, Nothing, Empty

\* get_sync_needs and post_run_hook: whatever the jobs, updates and faults, a job
\* that has made its copy has the roles and collections installed for some revision
\* and no emptied directory, if its own sync knew the project as the job did, and
\* nobody went on without the lock; those of a job of another branch are of its
\* own tree.
THEOREM JobsHaveTheirRoles == Spec => []RolesAreThere
<1>1. EInv => RolesAreThere
  BY DEF EInv, Equipped, RolesAreThere, At
<1>2. Spec => []RInv
  BY InitRInv, StepRInv, Invariant, PTL DEF Spec
<1>3. Spec => []EInv
  BY <1>2, InitEInv, StepEInv, Invariant, PTL DEF Spec
<1> QED BY <1>1, <1>3, PTL
=============================================================================
