------------------------- MODULE SystemTask_proofs -------------------------
(***************************************************************************)
(* Theorems about SystemTask for any number of tasks and runners, with any *)
(* legacy rows and under any faults.                                       *)
(***************************************************************************)
EXTENDS SystemTask, TLAPS

USE TaskAssumption

\* One pass changes only the locals of its own runner.
LEMMA EndPassType ==
  ASSUME TypeOK, NEW r \in Runner, EndPass(r)
  PROVE  /\ pc' \in [Runner -> Stage]
         /\ cand' \in [Runner -> Task \union {NoTask}]
         /\ old' \in [Runner -> Task \union {NoTask}]
         /\ seen' \in [Runner -> [task : Task \union {NoTask}, by : Runner \union {Nobody}]]
         /\ asked' \in BOOLEAN
  BY DEF TypeOK, EndPass, Goto, Stage

LEMMA GotoType ==
  ASSUME TypeOK, NEW r \in Runner, NEW l \in Stage, Goto(r, l)
  PROVE  pc' \in [Runner -> Stage]
  BY DEF TypeOK, Goto

LEMMA MarkType ==
  ASSUME TypeOK, NEW t, MarkLeaseExpired(t)
  PROVE  status' \in [Task -> Status] /\ key' \subseteq Task
  BY DEF TypeOK, MarkLeaseExpired, Status, Final

\* The row of an insert did not exist before.
LEMMA NextRowIsNew ==
  ASSUME Room
  PROVE  NextRow \in Task /\ status[NextRow] = "none"
  BY DEF Room, NextRow

LEMMA CreateType ==
  ASSUME TypeOK, CreateTask \/ CreateRefused
  PROVE  status' \in [Task -> Status] /\ key' \subseteq Task
<1>1. CASE CreateTask
  BY <1>1, NextRowIsNew DEF TypeOK, CreateTask, Status, Final
<1>2. CASE CreateRefused
  BY <1>2 DEF TypeOK, CreateRefused
<1> QED
  BY <1>1, <1>2

LEMMA NewLockType ==
  ASSUME NEW t \in Task \union {NoTask}, NEW r \in Runner
  PROVE  [task |-> t, by |-> r, live |-> TRUE]
           \in [task : Task \union {NoTask}, by : Runner \union {Nobody}, live : BOOLEAN]
  OBVIOUS

LEMMA NoLockType ==
  NoLock \in [task : Task \union {NoTask}, by : Runner \union {Nobody}, live : BOOLEAN]
  BY DEF NoLock

LEMMA ExpiryType ==
  ASSUME TypeOK, NEW r \in Runner,
         ReadStaleLock(r) \/ SkipExpiry(r) \/ MarkStale(r) \/ DeleteStale(r)
  PROVE  TypeOK'
<1>1. CASE ReadStaleLock(r)
  <2>1. pc' \in [Runner -> Stage]
    BY <1>1, GotoType DEF ReadStaleLock, Stage
  <2>2. seen' \in [Runner -> [task : Task \union {NoTask}, by : Runner \union {Nobody}]]
    BY <1>1 DEF ReadStaleLock, TypeOK
  <2> QED
    BY <1>1, <2>1, <2>2 DEF ReadStaleLock, TypeOK, tables
<1>2. CASE SkipExpiry(r)
  <2>1. pc' \in [Runner -> Stage]
    BY <1>2, GotoType DEF SkipExpiry, Stage
  <2> QED
    BY <1>2, <2>1 DEF SkipExpiry, TypeOK, tables, locals
<1>3. CASE MarkStale(r)
  <2>1. pc' \in [Runner -> Stage]
    BY <1>3, GotoType DEF MarkStale, Stage
  <2>2. status' \in [Task -> Status] /\ key' \subseteq Task
    BY <1>3, MarkType DEF MarkStale, TypeOK
  <2> QED
    BY <1>3, <2>1, <2>2 DEF MarkStale, TypeOK, locals
<1>4. CASE DeleteStale(r)
  <2>1. pc' \in [Runner -> Stage]
    BY <1>4, GotoType DEF DeleteStale, Stage
  <2>2. lock' = NoLock \/ lock' = lock
    BY <1>4 DEF DeleteStale
  <2>3. seen' \in [Runner -> [task : Task \union {NoTask}, by : Runner \union {Nobody}]]
    BY <1>4 DEF DeleteStale, TypeOK, NoSight
  <2> QED
    BY <1>4, <2>1, <2>2, <2>3, NoLockType DEF DeleteStale, TypeOK
<1> QED
  BY <1>1, <1>2, <1>3, <1>4

LEMMA ClaimType ==
  ASSUME TypeOK, NEW r \in Runner,
         \/ Schedule(r) \/ InsertScheduled(r)
         \/ FindPending(r) \/ InsertLock(r) \/ InspectLock(r) \/ TakeOverLock(r)
         \/ MarkReplaced(r) \/ StartTask(r) \/ ReleaseClaim(r)
  PROVE  TypeOK'
<1>1. CASE Schedule(r)
  <2>1. pc' \in [Runner -> Stage]
    BY <1>1, GotoType DEF Schedule, Stage
  <2> QED
    BY <1>1, <2>1 DEF Schedule, TypeOK, tables, locals
<1>2. CASE FindPending(r)
  <2>1. CASE EndPass(r)
    BY <1>2, <2>1, EndPassType DEF FindPending, TypeOK, tables
  <2>2. CASE ~ EndPass(r)
    <3>1. pc' \in [Runner -> Stage]
      BY <1>2, <2>2, GotoType DEF FindPending, Stage
    <3>2. /\ cand' \in [Runner -> Task \union {NoTask}]
          /\ old' = old /\ seen' = seen /\ asked' = asked
      BY <1>2, <2>2 DEF FindPending, TypeOK
    <3> QED
      BY <1>2, <3>1, <3>2 DEF FindPending, TypeOK, tables
  <2> QED
    BY <2>1, <2>2
<1>3. CASE InsertLock(r)
  <2>1. pc' \in [Runner -> Stage]
    BY <1>3, GotoType DEF InsertLock, Stage
  <2>2. lock' = lock \/ lock' = [task |-> cand[r], by |-> r, live |-> TRUE]
    BY <1>3 DEF InsertLock
  <2>3. cand[r] \in Task \union {NoTask}
    BY DEF TypeOK
  <2>4. lock' \in [task : Task \union {NoTask}, by : Runner \union {Nobody}, live : BOOLEAN]
    BY <2>2, <2>3, NewLockType DEF TypeOK
  <2> QED
    BY <1>3, <2>1, <2>4, SMTT(30) DEF InsertLock, TypeOK, locals
<1>4. CASE InspectLock(r)
  <2>1. CASE EndPass(r)
    BY <1>4, <2>1, EndPassType DEF InspectLock, TypeOK, tables
  <2>2. CASE ~ EndPass(r)
    <3>1. pc' \in [Runner -> Stage]
      BY <1>4, <2>2, GotoType DEF InspectLock, Stage
    <3>2. /\ old' \in [Runner -> Task \union {NoTask}]
          /\ cand' = cand /\ seen' = seen /\ asked' = asked
      BY <1>4, <2>2 DEF InspectLock, TypeOK
    <3> QED
      BY <1>4, <3>1, <3>2 DEF InspectLock, TypeOK, tables
  <2> QED
    BY <2>1, <2>2
<1>5. CASE TakeOverLock(r)
  <2>1. CASE EndPass(r) /\ UNCHANGED lock
    BY <1>5, <2>1, EndPassType DEF TakeOverLock, TypeOK
  <2>2. CASE ~ (EndPass(r) /\ UNCHANGED lock)
    <3>1. Goto(r, "start") \/ Goto(r, "markOld")
      BY <1>5, <2>2 DEF TakeOverLock
    <3>2. pc' \in [Runner -> Stage]
      BY <3>1, GotoType DEF Stage
    <3>3. lock' = [task |-> cand[r], by |-> r, live |-> TRUE] /\ UNCHANGED locals
      BY <1>5, <2>2 DEF TakeOverLock
    <3>4. cand[r] \in Task \union {NoTask}
      BY DEF TypeOK
    <3> QED
      BY <1>5, <3>2, <3>3, <3>4, NewLockType DEF TakeOverLock, TypeOK, locals
  <2> QED
    BY <2>1, <2>2
<1>6. CASE MarkReplaced(r)
  <2>1. pc' \in [Runner -> Stage]
    BY <1>6, GotoType DEF MarkReplaced, Stage
  <2>2. status' \in [Task -> Status] /\ key' \subseteq Task
    BY <1>6, MarkType DEF MarkReplaced, TypeOK
  <2> QED
    BY <1>6, <2>1, <2>2 DEF MarkReplaced, TypeOK, locals
<1>7. CASE StartTask(r)
  <2>1. status' \in [Task -> Status] /\ owner' \in [Task -> Runner \union {Nobody}]
    BY <1>7 DEF StartTask, SetRunning, TypeOK, Status
  <2>2. work' \in [Task -> Work]
    BY <1>7 DEF StartTask, TypeOK, Work
  <2>3. EndPass(r) \/ (Goto(r, "release") /\ UNCHANGED locals)
    BY <1>7 DEF StartTask
  <2>4. pc' \in [Runner -> Stage]
    BY <2>3, EndPassType, GotoType DEF Stage
  <2>5. lock' = lock /\ key' = key
    BY <1>7 DEF StartTask
  <2> QED
    BY <2>1, <2>2, <2>3, <2>4, <2>5, EndPassType DEF TypeOK, locals
<1>8. CASE ReleaseClaim(r)
  <2>1. lock' = NoLock \/ lock' = lock
    BY <1>8 DEF ReleaseClaim, Unlock
  <2> QED
    BY <1>8, <2>1, NoLockType, EndPassType DEF ReleaseClaim, TypeOK
<1>9. CASE InsertScheduled(r)
  <2>1. pc' \in [Runner -> Stage]
    BY <1>9, GotoType DEF InsertScheduled, Stage
  <2>2. status' \in [Task -> Status] /\ key' \subseteq Task
    BY <1>9, CreateType DEF InsertScheduled
  <2> QED
    BY <1>9, <2>1, <2>2 DEF InsertScheduled, TypeOK, locals
<1> QED
  BY <1>1, <1>2, <1>3, <1>4, <1>5, <1>6, <1>7, <1>8, <1>9

LEMMA HandlerType ==
  ASSUME TypeOK, NEW t \in Task, Handler(t)
  PROVE  TypeOK'
<1>1. CASE Heartbeat(t)
  <2>1. work' \in [Task -> Work]
    BY <1>1 DEF Heartbeat, TypeOK, Work
  <2>2. lock' = lock \/ lock' = [lock EXCEPT !.live = TRUE]
    BY <1>1 DEF Heartbeat
  <2> QED
    BY <1>1, <2>1, <2>2 DEF Heartbeat, TypeOK, locals
<1>2. CASE FinishTask(t)
  <2>1. work' \in [Task -> Work]
    BY <1>2 DEF FinishTask, TypeOK, Work
  <2>2. status' \in [Task -> Status] /\ key' \subseteq Task
    BY <1>2 DEF FinishTask, TypeOK, Status
  <2> QED
    BY <1>2, <2>1, <2>2 DEF FinishTask, TypeOK, locals
<1>3. CASE ReleaseLock(t)
  <2>1. work' \in [Task -> Work]
    BY <1>3 DEF ReleaseLock, TypeOK, Work
  <2>2. lock' = NoLock \/ lock' = lock
    BY <1>3 DEF ReleaseLock, Unlock
  <2> QED
    BY <1>3, <2>1, <2>2, NoLockType DEF ReleaseLock, TypeOK, locals
<1> QED
  BY <1>1, <1>2, <1>3 DEF Handler

LEMMA EnvironmentType ==
  ASSUME TypeOK, AskForTask \/ EnqueueSystemTask \/ Lapse \/ \E r \in Runner : Crash(r)
  PROVE  TypeOK'
<1>0. CASE AskForTask
  BY <1>0 DEF AskForTask, TypeOK, tables
<1>1. CASE EnqueueSystemTask
  BY <1>1, CreateType DEF EnqueueSystemTask, TypeOK, locals
<1>2. CASE Lapse
  BY <1>2 DEF Lapse, TypeOK, locals
<1>3. ASSUME NEW r \in Runner, Crash(r) PROVE TypeOK'
  <2>1. pc' \in [Runner -> Stage]
    BY <1>3, GotoType DEF Crash, Stage
  <2>2. work' \in [Task -> Work]
    BY <1>3 DEF Crash, TypeOK, Work
  <2>3. /\ cand' \in [Runner -> Task \union {NoTask}]
        /\ old' \in [Runner -> Task \union {NoTask}]
        /\ seen' \in [Runner -> [task : Task \union {NoTask}, by : Runner \union {Nobody}]]
    BY <1>3 DEF Crash, TypeOK, NoSight
  <2> QED
    BY <1>3, <2>1, <2>2, <2>3 DEF Crash, TypeOK, tables
<1> QED
  BY <1>0, <1>1, <1>2, <1>3

LEMMA TypeStep ==
  ASSUME TypeOK, [Next]_vars
  PROVE  TypeOK'
<1>1. CASE UNCHANGED vars
  BY <1>1 DEF vars, TypeOK
<1>2. ASSUME NEW r \in Runner, Pass(r) PROVE TypeOK'
  BY <1>2, ExpiryType, ClaimType DEF Pass
<1>3. ASSUME NEW t \in Task, Handler(t) PROVE TypeOK'
  BY <1>3, HandlerType
<1>4. CASE AskForTask \/ EnqueueSystemTask \/ Lapse
  BY <1>4, EnvironmentType
<1>5. ASSUME NEW r \in Runner, Crash(r) PROVE TypeOK'
  BY <1>5, EnvironmentType
<1> QED
  BY <1>1, <1>2, <1>3, <1>4, <1>5 DEF Next

\* Every reachable state of the task tables and of the runners is well typed:
\* no path leaves a stage, a status or a lock the code does not know.
THEOREM TaskTypeCorrect == Spec => []TypeOK
<1>1. ASSUME Init PROVE TypeOK
  <2>1. status \in [Task -> Status] /\ key \subseteq Task
    BY <1>1 DEF Init, Status
  <2>2. pc \in [Runner -> Stage] /\ work \in [Task -> Work]
    BY <1>1 DEF Init, Stage, Work
  <2>3. /\ owner \in [Task -> Runner \union {Nobody}]
        /\ cand \in [Runner -> Task \union {NoTask}]
        /\ old \in [Runner -> Task \union {NoTask}]
        /\ seen \in [Runner -> [task : Task \union {NoTask}, by : Runner \union {Nobody}]]
    BY <1>1 DEF Init, NoSight
  <2>4. asked \in BOOLEAN
    BY <1>1 DEF Init
  <2> QED
    BY <1>1, <2>1, <2>2, <2>3, <2>4, NoLockType DEF Init, TypeOK
<1>2. TypeOK /\ [Next]_vars => TypeOK'
  BY TypeStep
<1> QED
  BY <1>1, <1>2, PTL DEF Spec

-----------------------------------------------------------------------------
(* A task only moves forward *)

\* Tasks move forward, and a row loses its key exactly when it ends.
Forward ==
  /\ \A t \in Task :
       \/ status'[t] = status[t] /\ (t \in key' <=> t \in key)
       \/ status[t] = "pending" /\ status'[t] = "running" /\ (t \in key' <=> t \in key)
       \/ status[t] = "running" /\ status'[t] \in Final /\ t \notin key'

LEMMA MarkMovesForward ==
  ASSUME TypeOK, NEW t, MarkLeaseExpired(t)
  PROVE  Forward
  BY DEF TypeOK, MarkLeaseExpired, Forward, Final

\* Except for the creation of a row, every step moves tasks forward.
LEMMA StatusStep ==
  ASSUME TypeOK, [Next]_vars
  PROVE  CreateTask \/ Forward
<1>1. ASSUME UNCHANGED <<status, key>> PROVE Forward
  BY <1>1 DEF Forward
<1>2. ASSUME NEW r \in Runner, Pass(r) PROVE CreateTask \/ Forward
  <2>1. CASE MarkStale(r)
    BY <1>1, <2>1, MarkMovesForward DEF MarkStale
  <2>2. CASE MarkReplaced(r)
    BY <1>1, <2>2, MarkMovesForward DEF MarkReplaced
  <2>3. CASE InsertScheduled(r)
    BY <1>1, <2>3 DEF InsertScheduled, CreateRefused
  <2>4. CASE StartTask(r)
    BY <1>1, <2>4 DEF StartTask, SetRunning, Forward, TypeOK
  <2>5. CASE ReadStaleLock(r) \/ SkipExpiry(r) \/ DeleteStale(r) \/ Schedule(r) \/ FindPending(r)
             \/ InsertLock(r) \/ InspectLock(r) \/ TakeOverLock(r) \/ ReleaseClaim(r)
    <3>1. UNCHANGED <<status, key>>
      BY <2>5 DEF ReadStaleLock, SkipExpiry, DeleteStale, Schedule, FindPending, InsertLock,
                  InspectLock, TakeOverLock, ReleaseClaim, tables
    <3> QED
      BY <1>1, <3>1
  <2> QED
    BY <1>2, <2>1, <2>2, <2>3, <2>4, <2>5 DEF Pass
<1>3. ASSUME NEW t \in Task, Handler(t) PROVE Forward
  <2>1. CASE FinishTask(t)
    BY <1>1, <2>1 DEF FinishTask, MayWrite, Forward, TypeOK
  <2>2. CASE Heartbeat(t) \/ ReleaseLock(t)
    BY <1>1, <2>2 DEF Heartbeat, ReleaseLock
  <2> QED
    BY <1>3, <2>1, <2>2 DEF Handler
<1>4. ASSUME NEW r \in Runner, Crash(r) PROVE Forward
  BY <1>1, <1>4 DEF Crash, tables
<1>5. CASE EnqueueSystemTask
  BY <1>1, <1>5 DEF EnqueueSystemTask, CreateRefused
<1> QED
  BY <1>1, <1>2, <1>3, <1>4, <1>5 DEF Next, AskForTask, Lapse, vars, tables

\* What the unique index relies on: the rows with a key are the active ones that
\* are not of an older version, and there is one of them at most.
KeyInv ==
  /\ \A t \in Task \ Legacy : Active(t) <=> t \in key
  /\ \A t \in Legacy : status[t] # "none" /\ t \notin key
  /\ \A t, u \in key : t = u

\* However lookups and inserts of several masters and administrators interleave
\* with expiry, takeover and the end of handlers, a type has at most one active
\* row, and no row that has ended keeps the key.
THEOREM OneActivePerType == Spec => []OneActiveTask
<1>1. Init => KeyInv
  BY DEF Init, KeyInv, Active
<1>2. TypeOK /\ KeyInv /\ [Next]_vars => KeyInv'
  <2> SUFFICES ASSUME TypeOK, KeyInv, [Next]_vars PROVE KeyInv'
    OBVIOUS
  <2>0. key' \subseteq Task
    <3>1. TypeOK'
      BY TypeStep
    <3> QED
      BY <3>1 DEF TypeOK
  <2>1. CASE Forward
    <3>1. \A t \in key' : t \in key
      BY <2>0, <2>1 DEF Forward
    <3>2. \A t \in Task \ Legacy : Active(t)' <=> t \in key'
      BY <2>1 DEF Forward, KeyInv, Active, Final
    <3>3. \A t \in Legacy : status'[t] # "none" /\ t \notin key'
      BY <2>1, <3>1 DEF Forward, KeyInv, Final
    <3> QED
      BY <3>1, <3>2, <3>3 DEF KeyInv
  <2>2. CASE CreateTask
    <3>1. NextRow \in Task /\ status[NextRow] = "none"
      BY <2>2, NextRowIsNew DEF CreateTask
    <3>2. key' = {NextRow}
      BY <2>2 DEF CreateTask
    <3>3. \A t \in Legacy : status'[t] # "none" /\ t \notin key'
      BY <2>2, <3>1, <3>2 DEF CreateTask, KeyInv, TypeOK
    <3>4. \A t \in Task \ Legacy : Active(t)' <=> t \in key'
      BY <2>2, <3>1, <3>2 DEF CreateTask, KeyInv, Active, TypeOK
    <3> QED
      BY <3>2, <3>3, <3>4 DEF KeyInv
  <2> QED
    BY <2>1, <2>2, StatusStep
<1>3. KeyInv /\ TypeOK => OneActiveTask
  BY DEF KeyInv, OneActiveTask, TypeOK
<1> QED
  BY <1>1, <1>2, <1>3, TaskTypeCorrect, PTL DEF Spec

\* No late mark and no handler without a lease rewrites a finished task.
THEOREM FinishedTasksStay == Spec => FinishedIsFinal
<1>1. TypeOK /\ [Next]_vars
        => [\A t \in Task : status[t] \in Final => status'[t] = status[t]]_vars
  <2> SUFFICES ASSUME TypeOK, [Next]_vars
               PROVE  \A t \in Task : status[t] \in Final => status'[t] = status[t]
    OBVIOUS
  <2>1. CASE Forward
    BY <2>1 DEF Forward, Final
  <2>2. CASE CreateTask
    BY <2>2, NextRowIsNew DEF CreateTask, TypeOK, Final
  <2> QED
    BY <2>1, <2>2, StatusStep
<1> QED
  BY <1>1, TaskTypeCorrect, PTL DEF Spec, FinishedIsFinal

-----------------------------------------------------------------------------
(* The lease *)

\* Every process acts on what it read within one lease, no answer is lost
\* and there are no rows of an older version.
Prompt == Faults \intersect {"slow", "ack"} = {} /\ Legacy = {}

Claiming == {"lock", "inspect", "takeover", "markOld", "start", "release"}
Holding == {"markOld", "start", "release"}

\* A pass that acquired the lock still has it.
ClaimHoldsLock ==
  \A r \in Runner : pc[r] \in Holding => lock = [task |-> cand[r], by |-> r, live |-> TRUE]

\* A pass may take over a lapsed lock only for a task that is still pending.
CandidateIsFresh ==
  \A r \in Runner : pc[r] \in Claiming \ Holding /\ Lapsed => status[cand[r]] = "pending"

\* Nobody claims a task it has run before.
CandidateIsForeign ==
  \A r \in Runner : pc[r] \in Claiming => cand[r] \in Task /\ owner[cand[r]] # r

\* A running task is locked by its owner.
RunningIsLocked ==
  \A t \in Task : status[t] = "running" => LockOf(t, owner[t])

\* The lock an expiry pass is about to delete names no running task.
DeletedIsDone ==
  \A r \in Runner, t \in Task :
    pc[r] = "delete" /\ seen[r].task = t /\ lock.task = t /\ ~ lock.live
      => status[t] # "running"

ReleasedIsDone == \A t \in Task : work[t] = "releasing" => status[t] \in Final

UnstartedIsUnowned ==
  \A t \in Task : status[t] \in {"none", "pending"} => owner[t] = Nobody

\* Unless statements fail, a handler at work has a live lease.
WorkerHoldsLease ==
  "db" \notin Faults =>
    \A t \in Task : Working(t) => work[t] = "running" /\ LockOf(t, owner[t]) /\ lock.live

LeaseInv ==
  /\ ClaimHoldsLock
  /\ CandidateIsFresh
  /\ CandidateIsForeign
  /\ RunningIsLocked
  /\ DeletedIsDone
  /\ ReleasedIsDone
  /\ UnstartedIsUnowned
  /\ WorkerHoldsLease

\* Steps of a pass that write nothing and claim nothing.
LEMMA QuietPassKeepsLease ==
  ASSUME Prompt, TypeOK, OneActiveTask, LeaseInv, NEW r \in Runner,
         SkipExpiry(r) \/ ReadStaleLock(r) \/ Schedule(r)
  PROVE  LeaseInv'
<1>1. /\ status' = status /\ owner' = owner /\ lock' = lock /\ work' = work
      /\ \A q \in Runner : q # r => pc'[q] = pc[q] /\ cand'[q] = cand[q] /\ seen'[q] = seen[q]
      /\ pc'[r] \in {"schedule", "mark", "create", "claim"}
  BY DEF SkipExpiry, ReadStaleLock, Schedule, Goto, TypeOK, tables, locals
<1>2. ClaimHoldsLock'
  BY <1>1 DEF LeaseInv, TypeOK, ClaimHoldsLock, Holding
<1>3. CandidateIsFresh'
  BY <1>1 DEF LeaseInv, TypeOK, CandidateIsFresh, CandidateIsForeign, Claiming, Holding, Lapsed, Locked
<1>4. CandidateIsForeign'
  BY <1>1 DEF LeaseInv, TypeOK, CandidateIsForeign, Claiming
<1>5. RunningIsLocked'
  BY <1>1 DEF LeaseInv, TypeOK, RunningIsLocked, LockOf
<1>6. DeletedIsDone'
  BY <1>1 DEF LeaseInv, TypeOK, DeletedIsDone
<1>7. ReleasedIsDone'
  BY <1>1 DEF LeaseInv, TypeOK, ReleasedIsDone, Final
<1>8. UnstartedIsUnowned'
  BY <1>1 DEF LeaseInv, TypeOK, UnstartedIsUnowned
<1>9. WorkerHoldsLease'
  BY <1>1 DEF LeaseInv, TypeOK, WorkerHoldsLease, Working, LockOf
<1> QED
  BY <1>2, <1>3, <1>4, <1>5, <1>6, <1>7, <1>8, <1>9 DEF LeaseInv

\* A new row is pending and owned by nobody.
LEMMA CreateKeepsLease ==
  ASSUME Prompt, TypeOK, OneActiveTask, LeaseInv,
         AskForTask \/ EnqueueSystemTask \/ \E r \in Runner : InsertScheduled(r)
  PROVE  LeaseInv'
<1>1. /\ owner' = owner /\ lock' = lock /\ work' = work /\ cand' = cand /\ seen' = seen
  BY DEF AskForTask, EnqueueSystemTask, InsertScheduled, locals, tables
<1>2. \A t \in Task : status'[t] = status[t] \/ (status[t] = "none" /\ status'[t] = "pending")
  <2>1. CASE CreateTask
    BY <2>1, NextRowIsNew DEF CreateTask, TypeOK
  <2>2. CASE UNCHANGED status
    BY <2>2
  <2> QED
    BY <2>1, <2>2 DEF AskForTask, EnqueueSystemTask, InsertScheduled, CreateRefused, tables
<1>3. \A q \in Runner : pc'[q] = pc[q] \/ pc'[q] = "claim"
  BY DEF AskForTask, EnqueueSystemTask, InsertScheduled, Goto, TypeOK
<1>4. ClaimHoldsLock'
  BY <1>1, <1>2, <1>3 DEF LeaseInv, TypeOK, ClaimHoldsLock, Holding
<1>5. CandidateIsFresh'
  BY <1>1, <1>2, <1>3 DEF LeaseInv, TypeOK, CandidateIsFresh, CandidateIsForeign, Claiming, Holding, Lapsed, Locked
<1>6. CandidateIsForeign'
  BY <1>1, <1>2, <1>3 DEF LeaseInv, TypeOK, CandidateIsForeign, Claiming
<1>7. RunningIsLocked'
  BY <1>1, <1>2, <1>3 DEF LeaseInv, TypeOK, RunningIsLocked, LockOf
<1>8. DeletedIsDone'
  BY <1>1, <1>2, <1>3 DEF LeaseInv, TypeOK, DeletedIsDone
<1>9. ReleasedIsDone'
  BY <1>1, <1>2, <1>3 DEF LeaseInv, TypeOK, ReleasedIsDone, Final
<1>10. UnstartedIsUnowned'
  BY <1>1, <1>2, <1>3 DEF LeaseInv, TypeOK, UnstartedIsUnowned
<1>11. WorkerHoldsLease'
  BY <1>1, <1>2, <1>3 DEF LeaseInv, TypeOK, WorkerHoldsLease, Working, LockOf
<1> QED
  BY <1>4, <1>5, <1>6, <1>7, <1>8, <1>9, <1>10, <1>11 DEF LeaseInv

LEMMA MarkStaleKeepsLease ==
  ASSUME Prompt, TypeOK, OneActiveTask, LeaseInv, NEW r \in Runner, MarkStale(r)
  PROVE  LeaseInv'
<1>1. /\ owner' = owner /\ lock' = lock /\ work' = work
      /\ \A q \in Runner : q # r => pc'[q] = pc[q] /\ cand'[q] = cand[q] /\ seen'[q] = seen[q]
  BY DEF MarkStale, Goto, TypeOK, locals
<1>2. /\ seen'[r] = seen[r] /\ pc'[r] \in {"delete", "schedule"}
      /\ \A t \in Task : pc'[r] = "delete" /\ seen[r].task = t => status'[t] # "running"
  BY DEF MarkStale, MarkLeaseExpired, Goto, TypeOK, locals
<1>3. \A t \in Task : status'[t] = status[t] \/ (status[t] = "running" /\ status'[t] = "failed")
  BY DEF MarkStale, MarkLeaseExpired, TypeOK
<1>4. ClaimHoldsLock'
  BY <1>1, <1>2, <1>3 DEF LeaseInv, TypeOK, ClaimHoldsLock, Holding
<1>5. CandidateIsFresh'
  BY <1>1, <1>2, <1>3 DEF LeaseInv, TypeOK, CandidateIsFresh, CandidateIsForeign, Claiming, Holding, Lapsed, Locked
<1>6. CandidateIsForeign'
  BY <1>1, <1>2, <1>3 DEF LeaseInv, TypeOK, CandidateIsForeign, Claiming
<1>7. RunningIsLocked'
  BY <1>1, <1>2, <1>3 DEF LeaseInv, TypeOK, RunningIsLocked, LockOf
<1>8. DeletedIsDone'
  BY <1>1, <1>2, <1>3 DEF LeaseInv, TypeOK, DeletedIsDone
<1>9. ReleasedIsDone'
  BY <1>1, <1>2, <1>3 DEF LeaseInv, TypeOK, ReleasedIsDone, Final
<1>10. UnstartedIsUnowned'
  BY <1>1, <1>2, <1>3 DEF LeaseInv, TypeOK, UnstartedIsUnowned
<1>11. WorkerHoldsLease'
  BY <1>1, <1>2, <1>3 DEF LeaseInv, TypeOK, WorkerHoldsLease, Working, LockOf
<1> QED
  BY <1>4, <1>5, <1>6, <1>7, <1>8, <1>9, <1>10, <1>11 DEF LeaseInv

LEMMA DeleteStaleKeepsLease ==
  ASSUME Prompt, TypeOK, OneActiveTask, LeaseInv, NEW r \in Runner, DeleteStale(r)
  PROVE  LeaseInv'
<1>1. /\ status' = status /\ owner' = owner /\ work' = work
      /\ \A q \in Runner : q # r => pc'[q] = pc[q] /\ cand'[q] = cand[q] /\ seen'[q] = seen[q]
      /\ pc'[r] = "schedule"
  BY DEF DeleteStale, Goto, TypeOK
<1>2. \/ lock' = lock
      \/ lock' = NoLock /\ pc[r] = "delete" /\ LockOf(seen[r].task, seen[r].by) /\ ~ lock.live
  BY DEF DeleteStale
<1>3. ClaimHoldsLock'
  BY <1>1, <1>2 DEF LeaseInv, TypeOK, ClaimHoldsLock, Holding, NoLock
<1>4. CandidateIsFresh'
  BY <1>1, <1>2 DEF LeaseInv, TypeOK, CandidateIsFresh, CandidateIsForeign, Claiming, Holding, Lapsed, Locked, NoLock
<1>5. CandidateIsForeign'
  BY <1>1, <1>2 DEF LeaseInv, TypeOK, CandidateIsForeign, Claiming, NoLock
<1>6. RunningIsLocked'
  BY <1>1, <1>2 DEF LeaseInv, TypeOK, RunningIsLocked, LockOf, DeletedIsDone, NoLock
<1>7. DeletedIsDone'
  BY <1>1, <1>2 DEF LeaseInv, TypeOK, DeletedIsDone, NoLock
<1>8. ReleasedIsDone'
  BY <1>1, <1>2 DEF LeaseInv, TypeOK, ReleasedIsDone, Final, NoLock
<1>9. UnstartedIsUnowned'
  BY <1>1, <1>2 DEF LeaseInv, TypeOK, UnstartedIsUnowned, NoLock
<1>10. WorkerHoldsLease'
  BY <1>1, <1>2 DEF LeaseInv, TypeOK, WorkerHoldsLease, Working, LockOf, NoLock
<1> QED
  BY <1>3, <1>4, <1>5, <1>6, <1>7, <1>8, <1>9, <1>10 DEF LeaseInv

LEMMA FindPendingKeepsLease ==
  ASSUME Prompt, TypeOK, OneActiveTask, LeaseInv, NEW r \in Runner, FindPending(r)
  PROVE  LeaseInv'
<1>1. /\ status' = status /\ owner' = owner /\ lock' = lock /\ work' = work
      /\ \A q \in Runner : q # r => pc'[q] = pc[q] /\ cand'[q] = cand[q] /\ seen'[q] = seen[q]
  BY DEF FindPending, EndPass, Goto, TypeOK, tables
<1>2. \/ pc'[r] = "expire"
      \/ pc'[r] = "lock" /\ cand'[r] \in Task /\ status[cand'[r]] = "pending"
  BY DEF FindPending, EndPass, Goto, TypeOK
<1>3. ClaimHoldsLock'
  BY <1>1, <1>2 DEF LeaseInv, TypeOK, ClaimHoldsLock, Holding
<1>4. CandidateIsFresh'
  BY <1>1, <1>2 DEF LeaseInv, TypeOK, CandidateIsFresh, CandidateIsForeign, Claiming, Holding, Lapsed, Locked
<1>5. CandidateIsForeign'
  BY <1>1, <1>2 DEF LeaseInv, TypeOK, CandidateIsForeign, Claiming, UnstartedIsUnowned
<1>6. RunningIsLocked'
  BY <1>1, <1>2 DEF LeaseInv, TypeOK, RunningIsLocked, LockOf
<1>7. DeletedIsDone'
  BY <1>1, <1>2 DEF LeaseInv, TypeOK, DeletedIsDone
<1>8. ReleasedIsDone'
  BY <1>1, <1>2 DEF LeaseInv, TypeOK, ReleasedIsDone, Final
<1>9. UnstartedIsUnowned'
  BY <1>1, <1>2 DEF LeaseInv, TypeOK, UnstartedIsUnowned
<1>10. WorkerHoldsLease'
  BY <1>1, <1>2 DEF LeaseInv, TypeOK, WorkerHoldsLease, Working, LockOf
<1> QED
  BY <1>3, <1>4, <1>5, <1>6, <1>7, <1>8, <1>9, <1>10 DEF LeaseInv

LEMMA InsertLockKeepsLease ==
  ASSUME Prompt, TypeOK, OneActiveTask, LeaseInv, NEW r \in Runner, InsertLock(r)
  PROVE  LeaseInv'
<1>1. /\ status' = status /\ owner' = owner /\ work' = work /\ cand' = cand /\ seen' = seen
      /\ \A q \in Runner : q # r => pc'[q] = pc[q]
      /\ pc[r] = "lock"
  BY DEF InsertLock, Goto, TypeOK, locals
<1>2. \/ lock' = lock /\ pc'[r] = "inspect"
      \/ /\ ~ Locked /\ pc'[r] = "start"
         /\ lock' = [task |-> cand[r], by |-> r, live |-> TRUE]
  BY DEF InsertLock, Goto, TypeOK
<1>3. ClaimHoldsLock'
  BY <1>1, <1>2 DEF LeaseInv, TypeOK, ClaimHoldsLock, Holding, CandidateIsForeign, Claiming, Locked
<1>4. CandidateIsFresh'
  BY <1>1, <1>2 DEF LeaseInv, TypeOK, CandidateIsFresh, CandidateIsForeign, Claiming, Holding, Lapsed, Locked
<1>5. CandidateIsForeign'
  BY <1>1, <1>2 DEF LeaseInv, TypeOK, CandidateIsForeign, Claiming
<1>6. RunningIsLocked'
  BY <1>1, <1>2 DEF LeaseInv, TypeOK, RunningIsLocked, LockOf, Locked
<1>7. DeletedIsDone'
  BY <1>1, <1>2 DEF LeaseInv, TypeOK, DeletedIsDone, RunningIsLocked, Locked, LockOf
<1>8. ReleasedIsDone'
  BY <1>1, <1>2 DEF LeaseInv, TypeOK, ReleasedIsDone, Final
<1>9. UnstartedIsUnowned'
  BY <1>1, <1>2 DEF LeaseInv, TypeOK, UnstartedIsUnowned
<1>10. WorkerHoldsLease'
  BY <1>1, <1>2 DEF LeaseInv, TypeOK, WorkerHoldsLease, Working, LockOf, Locked
<1> QED
  BY <1>3, <1>4, <1>5, <1>6, <1>7, <1>8, <1>9, <1>10 DEF LeaseInv

LEMMA InspectLockKeepsLease ==
  ASSUME Prompt, TypeOK, OneActiveTask, LeaseInv, NEW r \in Runner, InspectLock(r)
  PROVE  LeaseInv'
<1>1. /\ status' = status /\ owner' = owner /\ lock' = lock /\ work' = work
      /\ \A q \in Runner : q # r => pc'[q] = pc[q] /\ cand'[q] = cand[q] /\ seen'[q] = seen[q]
  BY DEF InspectLock, EndPass, Goto, TypeOK, tables
<1>2. \/ pc'[r] = "expire"
      \/ pc[r] = "inspect" /\ pc'[r] = "takeover" /\ cand'[r] = cand[r]
  BY DEF InspectLock, EndPass, Goto, TypeOK
<1>3. ClaimHoldsLock'
  BY <1>1, <1>2 DEF LeaseInv, TypeOK, ClaimHoldsLock, Holding
<1>4. CandidateIsFresh'
  BY <1>1, <1>2 DEF LeaseInv, TypeOK, CandidateIsFresh, CandidateIsForeign, Claiming, Holding, Lapsed, Locked
<1>5. CandidateIsForeign'
  BY <1>1, <1>2 DEF LeaseInv, TypeOK, CandidateIsForeign, Claiming
<1>6. RunningIsLocked'
  BY <1>1, <1>2 DEF LeaseInv, TypeOK, RunningIsLocked, LockOf
<1>7. DeletedIsDone'
  BY <1>1, <1>2 DEF LeaseInv, TypeOK, DeletedIsDone
<1>8. ReleasedIsDone'
  BY <1>1, <1>2 DEF LeaseInv, TypeOK, ReleasedIsDone, Final
<1>9. UnstartedIsUnowned'
  BY <1>1, <1>2 DEF LeaseInv, TypeOK, UnstartedIsUnowned
<1>10. WorkerHoldsLease'
  BY <1>1, <1>2 DEF LeaseInv, TypeOK, WorkerHoldsLease, Working, LockOf
<1> QED
  BY <1>3, <1>4, <1>5, <1>6, <1>7, <1>8, <1>9, <1>10 DEF LeaseInv

\* A lapsed lock is taken over for a pending task, so nothing is running.
LEMMA TakeOverKeepsLease ==
  ASSUME Prompt, TypeOK, OneActiveTask, LeaseInv, NEW r \in Runner, TakeOverLock(r)
  PROVE  LeaseInv'
<1>1. /\ status' = status /\ owner' = owner /\ work' = work /\ pc[r] = "takeover"
      /\ \A q \in Runner : q # r => pc'[q] = pc[q] /\ cand'[q] = cand[q] /\ seen'[q] = seen[q]
  BY DEF TakeOverLock, EndPass, Goto, TypeOK, locals
<1>2. \/ lock' = lock /\ pc'[r] = "expire"
      \/ /\ Lapsed /\ pc'[r] \in Holding /\ cand'[r] = cand[r]
         /\ lock' = [task |-> cand[r], by |-> r, live |-> TRUE]
  BY DEF TakeOverLock, EndPass, Goto, TypeOK, locals, Holding
<1>3. Lapsed => \A t \in Task : status[t] # "running"
  BY <1>1 DEF LeaseInv, RunningIsLocked, CandidateIsFresh, CandidateIsForeign, Claiming, Holding, OneActiveTask, Active, Prompt
<1>4. ClaimHoldsLock'
  BY <1>1, <1>2, <1>3 DEF LeaseInv, TypeOK, ClaimHoldsLock, Holding, Lapsed, Locked
<1>5. CandidateIsFresh'
  BY <1>1, <1>2, <1>3 DEF LeaseInv, TypeOK, CandidateIsFresh, CandidateIsForeign, Claiming, Holding, Lapsed, Locked
<1>6. CandidateIsForeign'
  BY <1>1, <1>2, <1>3 DEF LeaseInv, TypeOK, CandidateIsForeign, Claiming, Holding
<1>7. RunningIsLocked'
  BY <1>1, <1>2, <1>3 DEF LeaseInv, TypeOK, RunningIsLocked, LockOf
<1>8. DeletedIsDone'
  BY <1>1, <1>2, <1>3 DEF LeaseInv, TypeOK, DeletedIsDone
<1>9. ReleasedIsDone'
  BY <1>1, <1>2, <1>3 DEF LeaseInv, TypeOK, ReleasedIsDone, Final
<1>10. UnstartedIsUnowned'
  BY <1>1, <1>2, <1>3 DEF LeaseInv, TypeOK, UnstartedIsUnowned
<1>11. WorkerHoldsLease'
  BY <1>1, <1>2, <1>3 DEF LeaseInv, TypeOK, WorkerHoldsLease, Working, LockOf, Lapsed
<1> QED
  BY <1>4, <1>5, <1>6, <1>7, <1>8, <1>9, <1>10, <1>11 DEF LeaseInv

LEMMA MarkReplacedKeepsLease ==
  ASSUME Prompt, TypeOK, OneActiveTask, LeaseInv, NEW r \in Runner, MarkReplaced(r)
  PROVE  LeaseInv'
<1>1. /\ owner' = owner /\ lock' = lock /\ work' = work /\ cand' = cand /\ seen' = seen
      /\ \A q \in Runner : q # r => pc'[q] = pc[q]
      /\ pc[r] = "markOld" /\ pc'[r] \in {"start", "release"}
  BY DEF MarkReplaced, Goto, TypeOK, locals
<1>2. \A t \in Task : status'[t] = status[t] \/ (status[t] = "running" /\ status'[t] = "failed")
  BY DEF MarkReplaced, MarkLeaseExpired, TypeOK
<1>3. ClaimHoldsLock'
  BY <1>1, <1>2 DEF LeaseInv, TypeOK, ClaimHoldsLock, Holding
<1>4. CandidateIsFresh'
  BY <1>1, <1>2 DEF LeaseInv, TypeOK, CandidateIsFresh, CandidateIsForeign, Claiming, Holding, Lapsed, Locked
<1>5. CandidateIsForeign'
  BY <1>1, <1>2 DEF LeaseInv, TypeOK, CandidateIsForeign, Claiming
<1>6. RunningIsLocked'
  BY <1>1, <1>2 DEF LeaseInv, TypeOK, RunningIsLocked, LockOf
<1>7. DeletedIsDone'
  BY <1>1, <1>2 DEF LeaseInv, TypeOK, DeletedIsDone
<1>8. ReleasedIsDone'
  BY <1>1, <1>2 DEF LeaseInv, TypeOK, ReleasedIsDone, Final
<1>9. UnstartedIsUnowned'
  BY <1>1, <1>2 DEF LeaseInv, TypeOK, UnstartedIsUnowned
<1>10. WorkerHoldsLease'
  BY <1>1, <1>2 DEF LeaseInv, TypeOK, WorkerHoldsLease, Working, LockOf
<1> QED
  BY <1>3, <1>4, <1>5, <1>6, <1>7, <1>8, <1>9, <1>10 DEF LeaseInv

\* The task starts under the lock its runner still holds.
LEMMA StartKeepsLease ==
  ASSUME Prompt, TypeOK, OneActiveTask, LeaseInv, NEW r \in Runner, StartTask(r)
  PROVE  LeaseInv'
<1>1. /\ lock' = lock /\ pc[r] = "start" /\ cand[r] \in Task
      /\ \A q \in Runner : q # r => pc'[q] = pc[q] /\ cand'[q] = cand[q] /\ seen'[q] = seen[q]
  BY DEF StartTask, EndPass, Goto, TypeOK, locals, LeaseInv, CandidateIsForeign, Claiming
<1>2. lock = [task |-> cand[r], by |-> r, live |-> TRUE]
  BY <1>1 DEF LeaseInv, ClaimHoldsLock, Holding
<1>3. \/ /\ status' = status /\ owner' = owner /\ work' = work
         /\ pc'[r] = "release" /\ cand'[r] = cand[r]
      \/ /\ pc'[r] = "expire" /\ status[cand[r]] = "pending"
         /\ status'[cand[r]] = "running" /\ owner'[cand[r]] = r
         /\ work'[cand[r]] = "running" \/ (work' = work /\ "db" \in Faults)
         /\ \A t \in Task : t # cand[r] =>
              status'[t] = status[t] /\ owner'[t] = owner[t] /\ work'[t] = work[t]
  BY <1>1 DEF StartTask, SetRunning, EndPass, Goto, TypeOK, locals, Prompt
<1>4. \A t \in Task : status[t] = "running" => status[cand[r]] # "pending"
  BY <1>1 DEF OneActiveTask, Active, Prompt
<1>5. ClaimHoldsLock'
  BY <1>1, <1>2, <1>3, <1>4 DEF LeaseInv, TypeOK, ClaimHoldsLock, Holding
<1>6. CandidateIsFresh'
  BY <1>1, <1>2, <1>3, <1>4 DEF LeaseInv, TypeOK, CandidateIsFresh, CandidateIsForeign, Claiming, Holding, Lapsed, Locked
<1>7. CandidateIsForeign'
  BY <1>1, <1>2, <1>3, <1>4 DEF LeaseInv, TypeOK, CandidateIsForeign, Claiming
<1>8. RunningIsLocked'
  BY <1>1, <1>2, <1>3, <1>4 DEF LeaseInv, TypeOK, RunningIsLocked, LockOf
<1>9. DeletedIsDone'
  BY <1>1, <1>2, <1>3, <1>4 DEF LeaseInv, TypeOK, DeletedIsDone
<1>10. ReleasedIsDone'
  BY <1>1, <1>2, <1>3, <1>4 DEF LeaseInv, TypeOK, ReleasedIsDone, Final
<1>11. UnstartedIsUnowned'
  BY <1>1, <1>2, <1>3, <1>4 DEF LeaseInv, TypeOK, UnstartedIsUnowned
<1>12. WorkerHoldsLease'
  BY <1>1, <1>2, <1>3, <1>4 DEF LeaseInv, TypeOK, WorkerHoldsLease, Working, LockOf
<1> QED
  BY <1>5, <1>6, <1>7, <1>8, <1>9, <1>10, <1>11, <1>12 DEF LeaseInv

\* A claim gives its lock back only if the task it names is not running.
LEMMA ReleaseClaimKeepsLease ==
  ASSUME Prompt, TypeOK, OneActiveTask, LeaseInv, NEW r \in Runner, ReleaseClaim(r)
  PROVE  LeaseInv'
<1>1. /\ status' = status /\ owner' = owner /\ work' = work /\ pc[r] = "release" /\ pc'[r] = "expire"
      /\ \A q \in Runner : q # r => pc'[q] = pc[q] /\ cand'[q] = cand[q] /\ seen'[q] = seen[q]
  BY DEF ReleaseClaim, EndPass, Goto, TypeOK
<1>2. lock' = lock \/ lock' = NoLock
  BY DEF ReleaseClaim, Unlock
<1>3. lock = [task |-> cand[r], by |-> r, live |-> TRUE] /\ cand[r] \in Task /\ owner[cand[r]] # r
  BY <1>1 DEF LeaseInv, ClaimHoldsLock, CandidateIsForeign, Claiming, Holding
<1>4. \A t \in Task : status[t] # "running" /\ ~ LockOf(t, owner[t])
  BY <1>3 DEF LeaseInv, RunningIsLocked, LockOf
<1>5. ClaimHoldsLock'
  BY <1>1, <1>2, <1>3, <1>4 DEF LeaseInv, TypeOK, ClaimHoldsLock, Holding, NoLock
<1>6. CandidateIsFresh'
  BY <1>1, <1>2, <1>3, <1>4 DEF LeaseInv, TypeOK, CandidateIsFresh, CandidateIsForeign, Claiming, Holding, Lapsed, Locked, NoLock
<1>7. CandidateIsForeign'
  BY <1>1, <1>2, <1>3, <1>4 DEF LeaseInv, TypeOK, CandidateIsForeign, Claiming, NoLock
<1>8. RunningIsLocked'
  BY <1>1, <1>2, <1>3, <1>4 DEF LeaseInv, TypeOK, RunningIsLocked, LockOf, NoLock
<1>9. DeletedIsDone'
  BY <1>1, <1>2, <1>3, <1>4 DEF LeaseInv, TypeOK, DeletedIsDone, NoLock
<1>10. ReleasedIsDone'
  BY <1>1, <1>2, <1>3, <1>4 DEF LeaseInv, TypeOK, ReleasedIsDone, Final, NoLock
<1>11. UnstartedIsUnowned'
  BY <1>1, <1>2, <1>3, <1>4 DEF LeaseInv, TypeOK, UnstartedIsUnowned, NoLock
<1>12. WorkerHoldsLease'
  BY <1>1, <1>2, <1>3, <1>4 DEF LeaseInv, TypeOK, WorkerHoldsLease, Working, LockOf, NoLock
<1> QED
  BY <1>5, <1>6, <1>7, <1>8, <1>9, <1>10, <1>11, <1>12 DEF LeaseInv

LEMMA HeartbeatKeepsLease ==
  ASSUME Prompt, TypeOK, OneActiveTask, LeaseInv, NEW t \in Task, Heartbeat(t)
  PROVE  LeaseInv'
<1>1. /\ status' = status /\ owner' = owner /\ lock' = lock /\ pc' = pc /\ cand' = cand /\ seen' = seen
  BY DEF Heartbeat, HoldsLease, Prompt, locals
<1>2. /\ work[t] = "running" /\ work'[t] \in {"running", "cancelled"}
      /\ \A u \in Task : u # t => work'[u] = work[u]
  BY DEF Heartbeat, TypeOK
<1>3. "db" \notin Faults => work' = work
  BY DEF Heartbeat, HoldsLease, LeaseInv, WorkerHoldsLease, Working, LockOf, TypeOK
<1>4. ClaimHoldsLock'
  BY <1>1, <1>2, <1>3 DEF LeaseInv, TypeOK, ClaimHoldsLock, Holding
<1>5. CandidateIsFresh'
  BY <1>1, <1>2, <1>3 DEF LeaseInv, TypeOK, CandidateIsFresh, CandidateIsForeign, Claiming, Holding, Lapsed, Locked
<1>6. CandidateIsForeign'
  BY <1>1, <1>2, <1>3 DEF LeaseInv, TypeOK, CandidateIsForeign, Claiming
<1>7. RunningIsLocked'
  BY <1>1, <1>2, <1>3 DEF LeaseInv, TypeOK, RunningIsLocked, LockOf
<1>8. DeletedIsDone'
  BY <1>1, <1>2, <1>3 DEF LeaseInv, TypeOK, DeletedIsDone
<1>9. ReleasedIsDone'
  BY <1>1, <1>2, <1>3 DEF LeaseInv, TypeOK, ReleasedIsDone, Final
<1>10. UnstartedIsUnowned'
  BY <1>1, <1>2, <1>3 DEF LeaseInv, TypeOK, UnstartedIsUnowned
<1>11. WorkerHoldsLease'
  BY <1>1, <1>2, <1>3 DEF LeaseInv, TypeOK, WorkerHoldsLease, Working, LockOf
<1> QED
  BY <1>4, <1>5, <1>6, <1>7, <1>8, <1>9, <1>10, <1>11 DEF LeaseInv

LEMMA FinishKeepsLease ==
  ASSUME Prompt, TypeOK, OneActiveTask, LeaseInv, NEW t \in Task, FinishTask(t)
  PROVE  LeaseInv'
<1>1. /\ owner' = owner /\ lock' = lock /\ pc' = pc /\ cand' = cand /\ seen' = seen
  BY DEF FinishTask, locals
<1>2. /\ \A u \in Task : u # t => work'[u] = work[u] /\ status'[u] = status[u]
      /\ \/ work'[t] = "releasing" /\ status[t] = "running" /\ status'[t] \in Final
         \/ work'[t] = "returned" /\ status'[t] = status[t]
  BY DEF FinishTask, MayWrite, TypeOK
<1>3. ClaimHoldsLock'
  BY <1>1, <1>2 DEF LeaseInv, TypeOK, ClaimHoldsLock, Holding
<1>4. CandidateIsFresh'
  BY <1>1, <1>2 DEF LeaseInv, TypeOK, CandidateIsFresh, CandidateIsForeign, Claiming, Holding, Lapsed, Locked
<1>5. CandidateIsForeign'
  BY <1>1, <1>2 DEF LeaseInv, TypeOK, CandidateIsForeign, Claiming
<1>6. RunningIsLocked'
  BY <1>1, <1>2 DEF LeaseInv, TypeOK, RunningIsLocked, LockOf
<1>7. DeletedIsDone'
  BY <1>1, <1>2 DEF LeaseInv, TypeOK, DeletedIsDone
<1>8. ReleasedIsDone'
  BY <1>1, <1>2 DEF LeaseInv, TypeOK, ReleasedIsDone, Final
<1>9. UnstartedIsUnowned'
  BY <1>1, <1>2 DEF LeaseInv, TypeOK, UnstartedIsUnowned, Final
<1>10. WorkerHoldsLease'
  BY <1>1, <1>2 DEF LeaseInv, TypeOK, WorkerHoldsLease, Working, LockOf
<1> QED
  BY <1>3, <1>4, <1>5, <1>6, <1>7, <1>8, <1>9, <1>10 DEF LeaseInv

LEMMA ReleaseLockKeepsLease ==
  ASSUME Prompt, TypeOK, OneActiveTask, LeaseInv, NEW t \in Task, ReleaseLock(t)
  PROVE  LeaseInv'
<1>1. /\ status' = status /\ owner' = owner /\ pc' = pc /\ cand' = cand /\ seen' = seen
  BY DEF ReleaseLock, locals
<1>2. /\ work[t] = "releasing" /\ work'[t] = "returned"
      /\ \A u \in Task : u # t => work'[u] = work[u]
  BY DEF ReleaseLock, TypeOK
<1>3. lock' = lock \/ (lock' = NoLock /\ LockOf(t, owner[t]))
  BY DEF ReleaseLock, Unlock
<1>4. status[t] # "running"
  BY <1>2 DEF LeaseInv, ReleasedIsDone, Final
<1>5. ClaimHoldsLock'
  BY <1>1, <1>2, <1>3, <1>4 DEF LeaseInv, TypeOK, ClaimHoldsLock, Holding, CandidateIsForeign, Claiming, LockOf, NoLock
<1>6. CandidateIsFresh'
  BY <1>1, <1>2, <1>3, <1>4 DEF LeaseInv, TypeOK, CandidateIsFresh, CandidateIsForeign, Claiming, Holding, Lapsed, Locked, NoLock
<1>7. CandidateIsForeign'
  BY <1>1, <1>2, <1>3, <1>4 DEF LeaseInv, TypeOK, CandidateIsForeign, Claiming, NoLock
<1>8. RunningIsLocked'
  BY <1>1, <1>2, <1>3, <1>4 DEF LeaseInv, TypeOK, RunningIsLocked, LockOf, NoLock
<1>9. DeletedIsDone'
  BY <1>1, <1>2, <1>3, <1>4 DEF LeaseInv, TypeOK, DeletedIsDone, NoLock
<1>10. ReleasedIsDone'
  BY <1>1, <1>2, <1>3, <1>4 DEF LeaseInv, TypeOK, ReleasedIsDone, Final, NoLock
<1>11. UnstartedIsUnowned'
  BY <1>1, <1>2, <1>3, <1>4 DEF LeaseInv, TypeOK, UnstartedIsUnowned, NoLock
<1>12. WorkerHoldsLease'
  BY <1>1, <1>2, <1>3, <1>4 DEF LeaseInv, TypeOK, WorkerHoldsLease, Working, LockOf, Locked, NoLock
<1> QED
  BY <1>5, <1>6, <1>7, <1>8, <1>9, <1>10, <1>11, <1>12 DEF LeaseInv

LEMMA CrashKeepsLease ==
  ASSUME Prompt, TypeOK, OneActiveTask, LeaseInv, NEW r \in Runner, Crash(r)
  PROVE  LeaseInv'
<1>1. /\ status' = status /\ owner' = owner /\ lock' = lock /\ pc'[r] = "dead"
      /\ \A q \in Runner : q # r => pc'[q] = pc[q] /\ cand'[q] = cand[q] /\ seen'[q] = seen[q]
  BY DEF Crash, Goto, TypeOK, tables
<1>2. \A t \in Task : work'[t] = work[t] \/ work'[t] = "returned"
  BY DEF Crash, TypeOK
<1>3. ClaimHoldsLock'
  BY <1>1, <1>2 DEF LeaseInv, TypeOK, ClaimHoldsLock, Holding
<1>4. CandidateIsFresh'
  BY <1>1, <1>2 DEF LeaseInv, TypeOK, CandidateIsFresh, CandidateIsForeign, Claiming, Holding, Lapsed, Locked
<1>5. CandidateIsForeign'
  BY <1>1, <1>2 DEF LeaseInv, TypeOK, CandidateIsForeign, Claiming
<1>6. RunningIsLocked'
  BY <1>1, <1>2 DEF LeaseInv, TypeOK, RunningIsLocked, LockOf
<1>7. DeletedIsDone'
  BY <1>1, <1>2 DEF LeaseInv, TypeOK, DeletedIsDone
<1>8. ReleasedIsDone'
  BY <1>1, <1>2 DEF LeaseInv, TypeOK, ReleasedIsDone, Final
<1>9. UnstartedIsUnowned'
  BY <1>1, <1>2 DEF LeaseInv, TypeOK, UnstartedIsUnowned
<1>10. WorkerHoldsLease'
  BY <1>1, <1>2 DEF LeaseInv, TypeOK, WorkerHoldsLease, Working, LockOf
<1> QED
  BY <1>3, <1>4, <1>5, <1>6, <1>7, <1>8, <1>9, <1>10 DEF LeaseInv

\* The lock lapses only when no pass and no handler counts on it.
LEMMA LapseKeepsLease ==
  ASSUME Prompt, TypeOK, OneActiveTask, LeaseInv, Lapse
  PROVE  LeaseInv'
<1>1. /\ status' = status /\ owner' = owner /\ pc' = pc /\ cand' = cand /\ seen' = seen /\ work' = work
  BY DEF Lapse, locals
<1>2. /\ lock'.task = lock.task /\ lock'.by = lock.by /\ lock'.live = FALSE
  BY DEF Lapse, TypeOK
<1>3. /\ \A r \in Runner : ~ Underway(r)
      /\ ~ Kept
  BY DEF Lapse, Prompt
<1>4. ClaimHoldsLock'
  BY <1>1, <1>2, <1>3 DEF LeaseInv, TypeOK, ClaimHoldsLock, Holding, Underway, Kept
<1>5. CandidateIsFresh'
  BY <1>1, <1>2, <1>3 DEF LeaseInv, TypeOK, CandidateIsFresh, CandidateIsForeign, Claiming, Holding, Lapsed, Locked, Underway, Kept
<1>6. CandidateIsForeign'
  BY <1>1, <1>2, <1>3 DEF LeaseInv, TypeOK, CandidateIsForeign, Claiming, Underway, Kept
<1>7. RunningIsLocked'
  BY <1>1, <1>2, <1>3 DEF LeaseInv, TypeOK, RunningIsLocked, LockOf, Underway, Kept
<1>8. DeletedIsDone'
  BY <1>1, <1>2, <1>3 DEF LeaseInv, TypeOK, DeletedIsDone, Underway, Kept
<1>9. ReleasedIsDone'
  BY <1>1, <1>2, <1>3 DEF LeaseInv, TypeOK, ReleasedIsDone, Final, Underway, Kept
<1>10. UnstartedIsUnowned'
  BY <1>1, <1>2, <1>3 DEF LeaseInv, TypeOK, UnstartedIsUnowned, Underway, Kept
<1>11. WorkerHoldsLease'
  BY <1>1, <1>2, <1>3 DEF LeaseInv, TypeOK, WorkerHoldsLease, Working, LockOf, Underway, Kept
<1> QED
  BY <1>4, <1>5, <1>6, <1>7, <1>8, <1>9, <1>10, <1>11 DEF LeaseInv

\* Every step preserves the lease invariant.
LEMMA LeaseStep ==
  ASSUME Prompt, TypeOK, OneActiveTask, LeaseInv, [Next]_vars
  PROVE  LeaseInv'
<1>1. ASSUME NEW r \in Runner, Pass(r) PROVE LeaseInv'
  <2>1. CASE InsertScheduled(r)
    BY <2>1, CreateKeepsLease
  <2>2. CASE SkipExpiry(r) \/ ReadStaleLock(r) \/ Schedule(r)
    BY <2>2, QuietPassKeepsLease
  <2>3. CASE MarkStale(r)
    BY <2>3, MarkStaleKeepsLease
  <2>4. CASE DeleteStale(r)
    BY <2>4, DeleteStaleKeepsLease
  <2>5. CASE FindPending(r)
    BY <2>5, FindPendingKeepsLease
  <2>6. CASE InsertLock(r)
    BY <2>6, InsertLockKeepsLease
  <2>7. CASE InspectLock(r)
    BY <2>7, InspectLockKeepsLease
  <2>8. CASE TakeOverLock(r)
    BY <2>8, TakeOverKeepsLease
  <2>9. CASE MarkReplaced(r)
    BY <2>9, MarkReplacedKeepsLease
  <2>10. CASE StartTask(r)
    BY <2>10, StartKeepsLease
  <2>11. CASE ReleaseClaim(r)
    BY <2>11, ReleaseClaimKeepsLease
  <2> QED
    BY <1>1, <2>1, <2>2, <2>3, <2>4, <2>5, <2>6, <2>7, <2>8, <2>9, <2>10, <2>11 DEF Pass
<1>2. ASSUME NEW t \in Task, Handler(t) PROVE LeaseInv'
  BY <1>2, HeartbeatKeepsLease, FinishKeepsLease, ReleaseLockKeepsLease DEF Handler
<1>3. CASE AskForTask \/ EnqueueSystemTask
  BY <1>3, CreateKeepsLease
<1>4. CASE UNCHANGED vars
  BY <1>4 DEF vars, LeaseInv, ClaimHoldsLock, CandidateIsFresh, CandidateIsForeign,
              RunningIsLocked, DeletedIsDone, ReleasedIsDone, UnstartedIsUnowned,
              WorkerHoldsLease, Lapsed, Locked, LockOf, Working
<1> QED
  BY <1>1, <1>2, <1>3, <1>4, CrashKeepsLease, LapseKeepsLease DEF Next

LEMMA LeaseInvariant == Spec => [](Prompt => LeaseInv)
<1>1. Init => LeaseInv
  BY DEF Init, LeaseInv, ClaimHoldsLock, CandidateIsFresh, CandidateIsForeign,
         RunningIsLocked, DeletedIsDone, ReleasedIsDone, UnstartedIsUnowned,
         WorkerHoldsLease, Claiming, Holding, Working
<1>2. TypeOK /\ OneActiveTask /\ (Prompt => LeaseInv) /\ [Next]_vars => (Prompt => LeaseInv)'
  BY LeaseStep DEF Prompt
<1> QED
  BY <1>1, <1>2, TaskTypeCorrect, OneActivePerType, PTL DEF Spec

\* As long as processes are prompt, whoever crashes or fails in between, a
\* running task can be found through its lock and is not stuck for ever.
THEOREM NoTaskIsOrphaned == Spec => [](Prompt => NoOrphan)
<1>1. (Prompt => LeaseInv) => (Prompt => NoOrphan)
  BY DEF LeaseInv, RunningIsLocked, NoOrphan, LockOf
<1> QED
  BY <1>1, LeaseInvariant, PTL

\* As long as processes are prompt and the database answers, crashes do not
\* let two handlers of one type run at the same time.
THEOREM HandlersExclude ==
  Spec => [](Prompt /\ "db" \notin Faults => ExclusiveHandlers)
<1>1. (Prompt => LeaseInv) => (Prompt /\ "db" \notin Faults => ExclusiveHandlers)
  BY DEF LeaseInv, WorkerHoldsLease, ExclusiveHandlers, LockOf
<1> QED
  BY <1>1, LeaseInvariant, PTL
=============================================================================
