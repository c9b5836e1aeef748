---------------------------- MODULE SystemTask ----------------------------
(***************************************************************************)
(* The system task runner (model/system_task.go, service/system_task.go):  *)
(* background jobs of one type, shared by several master processes through *)
(* the tables system_tasks and system_task_locks.  Types do not interact:  *)
(* every statement is bound to one type or one task id.                    *)
(*                                                                         *)
(* Each SQL statement is one step.  locked_until is abstracted to whether  *)
(* the lease has lapsed; lapsing is a step of its own.  The payload, state *)
(* and result columns are left out.                                        *)
(***************************************************************************)
EXTENDS FiniteSets

CONSTANTS
  Task,     \* rows system_tasks may get
  Legacy,   \* pending rows of an older version, without an active_key
  Runner,   \* runner ids; a restarted process gets a fresh one
  Nobody,   \* locked_by = ""
  NoTask,   \* expiredTaskID = "", or a pass that has no candidate
  Faults    \* which failures the environment may inject

FaultKinds == {"crash",   \* a runner process dies
               "panic",   \* a handler returns without finishing its task
               "db",      \* a statement fails and is not applied
               "ack",     \* the start of a task is applied, its answer lost
               "slow"}    \* a process stalls for longer than the lease

ASSUME TaskAssumption ==
  /\ Legacy \subseteq Task
  /\ Nobody \notin Runner
  /\ NoTask \notin Task
  /\ Faults \subseteq FaultKinds

VARIABLES
  status,   \* system_tasks.status, "none" before the row exists
  key,      \* the rows whose active_key, which is unique, is not null
  owner,    \* system_tasks.locked_by
  lock,     \* the row of system_task_locks: [task, by, live]
  pc,       \* where the pass of each runner is
  cand,     \* the task the pass tries to claim
  old,      \* the task whose lapsed lease the pass saw
  seen,     \* the lock the expiry pass read: [task, by]
  work,     \* the handler goroutine of each task
  asked     \* a request for a task has seen no active row and will insert one

vars == <<status, key, owner, lock, pc, cand, old, seen, work, asked>>
tables == <<status, key, owner, lock>>
locals == <<cand, old, seen, asked>>

NoLock == [task |-> NoTask, by |-> Nobody, live |-> FALSE]
NoSight == [task |-> NoTask, by |-> Nobody]
Final == {"succeeded", "failed"}
Status == {"none", "pending", "running"} \union Final
Stage == {"expire", "mark", "delete", "schedule", "create", "claim", "lock",
          "inspect", "takeover", "markOld", "start", "release", "dead"}
Work == {"none", "running", "cancelled", "releasing", "returned"}

TypeOK ==
  /\ status \in [Task -> Status]
  /\ key \subseteq Task
  /\ owner \in [Task -> Runner \union {Nobody}]
  /\ lock \in [task : Task \union {NoTask}, by : Runner \union {Nobody}, live : BOOLEAN]
  /\ pc \in [Runner -> Stage]
  /\ cand \in [Runner -> Task \union {NoTask}]
  /\ old \in [Runner -> Task \union {NoTask}]
  /\ seen \in [Runner -> [task : Task \union {NoTask}, by : Runner \union {Nobody}]]
  /\ work \in [Task -> Work]
  /\ asked \in BOOLEAN

Init ==
  /\ status = [t \in Task |-> IF t \in Legacy THEN "pending" ELSE "none"]
  /\ key = {}
  /\ owner = [t \in Task |-> Nobody]
  /\ lock = NoLock
  /\ pc = [r \in Runner |-> "expire"]
  /\ cand = [r \in Runner |-> NoTask]
  /\ old = [r \in Runner |-> NoTask]
  /\ seen = [r \in Runner |-> NoSight]
  /\ work = [t \in Task |-> "none"]
  /\ asked = FALSE

Goto(r, l) == pc' = [pc EXCEPT ![r] = l]

\* The pass is over; the next one starts with the expiry check.
EndPass(r) ==
  /\ Goto(r, "expire")
  /\ cand' = [cand EXCEPT ![r] = NoTask]
  /\ old' = [old EXCEPT ![r] = NoTask]
  /\ UNCHANGED <<seen, asked>>

Locked == lock.task # NoTask
Lapsed == Locked /\ ~ lock.live

\* "task_id = ? AND locked_by = ?"
LockOf(t, r) == lock.task = t /\ lock.by = r

\* "... AND locked_until >= now": a stalled process compares with a clock
\* reading of its own that may be old.
HoldsLease(t, r) == LockOf(t, r) /\ (lock.live \/ "slow" \in Faults)

Active(t) == status[t] \in {"pending", "running"}

-----------------------------------------------------------------------------
(* CreateSystemTask: the scheduler, or an administrator's request *)

\* The row that gets the next id; before it exists a row is like any other.
NextRow == CHOOSE t \in Task : status[t] = "none"
Room == \E t \in Task : status[t] = "none"

\* Seeded bug: active_key is not unique.
CreateAnyway ==
  /\ Room
  /\ status' = [status EXCEPT ![NextRow] = "pending"]
  /\ key' = key \union {NextRow}

\* The insert of a pending row: the unique index on active_key lets it through
\* unless another row has the key.
CreateTask ==
  /\ key = {}
  /\ Room
  /\ status' = [status EXCEPT ![NextRow] = "pending"]
  /\ key' = key \union {NextRow}

\* The insert is refused or fails, or the bound on rows is reached.  What the
\* callers then look up only decides what they return or log.
CreateRefused ==
  /\ key # {} \/ "db" \in Faults \/ ~ Room
  /\ UNCHANGED <<status, key>>

\* An administrator asks for a task: first whether there is an active one ...
AskForTask ==
  /\ ~ asked
  /\ ~ \E t \in Task : Active(t)
  /\ asked' = TRUE
  /\ UNCHANGED <<tables, pc, cand, old, seen, work>>

\* ... then the insert, whatever has happened since.
EnqueueSystemTask ==
  /\ asked
  /\ CreateTask \/ CreateRefused
  /\ asked' = FALSE
  /\ UNCHANGED <<owner, lock, pc, cand, old, seen, work>>

\* The row GetLatestSystemTasks finds, if any, is not active: the latest of the
\* rows created since, else a legacy one, of several any.
LatestMayBeOver ==
  LET rows == {t \in Task : status[t] # "none"} IN
  IF rows \subseteq Legacy
  THEN rows = {} \/ \E t \in rows : ~ Active(t)
  ELSE \A t \in rows \ Legacy : ~ Active(t)

\* A scheduler pass is throttled, the type may be disabled or not due.
Schedule(r) ==
  /\ pc[r] = "schedule"
  /\ \/ LatestMayBeOver /\ Goto(r, "create")
     \/ Goto(r, "claim")
  /\ UNCHANGED <<tables, locals, work>>

\* The insert of the scheduler, which other masters race.
InsertScheduled(r) ==
  /\ pc[r] = "create"
  /\ CreateTask \/ CreateRefused
  /\ Goto(r, "claim")
  /\ UNCHANGED <<owner, lock, locals, work>>

-----------------------------------------------------------------------------
(* ExpireStaleSystemTaskLocks *)

\* Seeded bug: a finished task is failed as well.
MarkWhatever(t) ==
  /\ status' = [status EXCEPT ![t] = IF @ = "none" THEN @ ELSE "failed"]
  /\ key' = key \ {t}

\* Seeded bug: the task is put back into the queue.
MarkPending(t) ==
  /\ status' = [status EXCEPT ![t] = IF @ = "running" THEN "pending" ELSE @]
  /\ UNCHANGED key

\* MarkSystemTaskLeaseExpired: "task_id = ? AND status = running".
MarkLeaseExpired(t) ==
  /\ status' = [status EXCEPT ![t] = IF @ = "running" THEN "failed" ELSE @]
  /\ key' = IF status[t] = "running" THEN key \ {t} ELSE key

ReadStaleLock(r) ==
  /\ pc[r] = "expire"
  /\ Lapsed
  /\ seen' = [seen EXCEPT ![r] = [task |-> lock.task, by |-> lock.by]]
  /\ Goto(r, "mark")
  /\ UNCHANGED <<tables, cand, old, asked, work>>

\* The check is throttled, finds nothing, or its query fails.
SkipExpiry(r) ==
  /\ pc[r] = "expire"
  /\ Goto(r, "schedule")
  /\ UNCHANGED <<tables, locals, work>>

\* Seeded bug: the stale lock is deleted, its task forgotten.
SkipMark(r) ==
  /\ pc[r] = "mark"
  /\ Goto(r, "delete")
  /\ UNCHANGED <<tables, locals, work>>

\* The task whose lock was stale when it was read.
MarkStale(r) ==
  /\ pc[r] = "mark"
  /\ \/ MarkLeaseExpired(seen[r].task) /\ Goto(r, "delete")
     \/ "db" \in Faults /\ UNCHANGED <<status, key>> /\ Goto(r, "schedule")
  /\ UNCHANGED <<owner, lock, locals, work>>

\* The delete looks again at the owner and the expiry of the lock.
DeleteStale(r) ==
  /\ pc[r] = "delete"
  /\ \/ lock' = IF LockOf(seen[r].task, seen[r].by) /\ ~ lock.live THEN NoLock ELSE lock
     \/ "db" \in Faults /\ UNCHANGED lock
  /\ seen' = [seen EXCEPT ![r] = NoSight]
  /\ Goto(r, "schedule")
  /\ UNCHANGED <<status, key, owner, cand, old, asked, work>>

-----------------------------------------------------------------------------
(* ClaimSystemTask *)

FindPending(r) ==
  /\ pc[r] = "claim"
  /\ \/ \E t \in Task : /\ status[t] = "pending"
                        /\ cand' = [cand EXCEPT ![r] = t]
                        /\ Goto(r, "lock")
                        /\ UNCHANGED <<old, seen, asked>>
     \/ /\ "db" \in Faults \/ ~ \E t \in Task : status[t] = "pending"
        /\ EndPass(r)
  /\ UNCHANGED <<tables, work>>

\* acquireSystemTaskLock: the insert, which the primary key refuses while
\* there is a row.
InsertLock(r) ==
  /\ pc[r] = "lock"
  /\ \/ /\ ~ Locked
        /\ lock' = [task |-> cand[r], by |-> r, live |-> TRUE]
        /\ Goto(r, "start")
     \/ /\ Locked \/ "db" \in Faults
        /\ Goto(r, "inspect")
        /\ UNCHANGED lock
  /\ UNCHANGED <<status, key, owner, locals, work>>

InspectLock(r) ==
  /\ pc[r] = "inspect"
  /\ \/ /\ Lapsed
        /\ old' = [old EXCEPT ![r] = lock.task]
        /\ Goto(r, "takeover")
        /\ UNCHANGED <<cand, seen, asked>>
     \/ /\ ~ Lapsed \/ Faults \intersect {"db", "slow"} # {}
        /\ EndPass(r)
  /\ UNCHANGED <<tables, work>>

TakeOverLock(r) ==
  /\ pc[r] = "takeover"
  /\ \/ /\ Lapsed
        /\ lock' = [task |-> cand[r], by |-> r, live |-> TRUE]
        /\ Goto(r, IF old[r] = cand[r] THEN "start" ELSE "markOld")
        /\ UNCHANGED locals
     \/ /\ ~ Lapsed \/ "db" \in Faults
        /\ EndPass(r)
        /\ UNCHANGED lock
  /\ UNCHANGED <<status, key, owner, work>>

\* The task the lapsed lease belonged to.
MarkReplaced(r) ==
  /\ pc[r] = "markOld"
  /\ \/ MarkLeaseExpired(old[r]) /\ Goto(r, "start")
     \/ "db" \in Faults /\ UNCHANGED <<status, key>> /\ Goto(r, "release")
  /\ UNCHANGED <<owner, lock, locals, work>>

\* Seeded bug: the task id is stored where the runner id belongs.
SwapIds(r, t) ==
  /\ status' = [status EXCEPT ![t] = "running"]
  /\ owner' = [owner EXCEPT ![t] = t]

SetRunning(r, t) ==
  /\ status' = [status EXCEPT ![t] = "running"]
  /\ owner' = [owner EXCEPT ![t] = r]

\* The compare-and-swap from pending to running, the reload of the row and
\* the dispatch of the handler.
StartTask(r) ==
  LET t == cand[r] IN
  /\ pc[r] = "start"
  /\ UNCHANGED <<key, lock>>
  /\ \/ /\ status[t] = "pending"
        /\ SetRunning(r, t)
        /\ \/ work' = [work EXCEPT ![t] = "running"] /\ EndPass(r)
           \/ "db" \in Faults /\ UNCHANGED work /\ EndPass(r)
           \/ "ack" \in Faults /\ UNCHANGED <<work, locals>> /\ Goto(r, "release")
     \/ /\ status[t] # "pending" \/ "db" \in Faults
        /\ Goto(r, "release")
        /\ UNCHANGED <<status, owner, work, locals>>

Unlock(t, r) == lock' = IF LockOf(t, r) THEN NoLock ELSE lock

\* ReleaseSystemTaskLock of a claim that failed; its error is ignored.
ReleaseClaim(r) ==
  /\ pc[r] = "release"
  /\ Unlock(cand[r], r) \/ ("db" \in Faults /\ UNCHANGED lock)
  /\ EndPass(r)
  /\ UNCHANGED <<status, key, owner, work>>

-----------------------------------------------------------------------------
(* The handler of task t and its heartbeat, at the runner that started it *)

Working(t) == work[t] \in {"running", "cancelled"}

\* RenewSystemTaskLock fails and cancels the handler; a stalled process may
\* still renew a lease that has lapsed.
Heartbeat(t) ==
  /\ work[t] = "running"
  /\ \/ /\ ~ HoldsLease(t, owner[t]) \/ "db" \in Faults
        /\ work' = [work EXCEPT ![t] = "cancelled"]
        /\ UNCHANGED lock
     \/ /\ HoldsLease(t, owner[t])
        /\ ~ lock.live
        /\ lock' = [lock EXCEPT !.live = TRUE]
        /\ UNCHANGED work
  /\ UNCHANGED <<status, key, owner, pc, locals>>

\* "status = running AND locked_by = ?" and a live lease.
MayWrite(t) == status[t] = "running" /\ HoldsLease(t, owner[t])

\* Seeded bug: the result is recorded and the lock released before the handler
\* has returned.
FinishEarly(t) ==
  /\ Working(t)
  /\ \/ /\ MayWrite(t)
        /\ \E s \in Final : status' = [status EXCEPT ![t] = s]
        /\ key' = key \ {t}
        /\ Unlock(t, owner[t])
        /\ UNCHANGED work
     \/ /\ ~ MayWrite(t)
        /\ work' = [work EXCEPT ![t] = "returned"]
        /\ UNCHANGED <<status, key, lock>>
  /\ UNCHANGED <<owner, pc, locals>>

\* FinishSystemTask, or a progress report that finds the lease gone.  The
\* cancelled handler runs to its end as well.
FinishTask(t) ==
  /\ Working(t)
  /\ \/ /\ MayWrite(t)
        /\ \E s \in Final : status' = [status EXCEPT ![t] = s]
        /\ key' = key \ {t}
        /\ work' = [work EXCEPT ![t] = "releasing"]
     \/ /\ ~ MayWrite(t) \/ Faults \intersect {"db", "panic"} # {}
        /\ work' = [work EXCEPT ![t] = "returned"]
        /\ UNCHANGED <<status, key>>
  /\ UNCHANGED <<owner, lock, pc, locals>>

ReleaseLock(t) ==
  /\ work[t] = "releasing"
  /\ work' = [work EXCEPT ![t] = "returned"]
  /\ Unlock(t, owner[t]) \/ ("db" \in Faults /\ UNCHANGED lock)
  /\ UNCHANGED <<status, key, owner, pc, locals>>

-----------------------------------------------------------------------------
(* The environment *)

\* The last runner does not die: somebody has to be there for liveness.
Crash(r) ==
  /\ "crash" \in Faults
  /\ pc[r] # "dead"
  /\ \E q \in Runner \ {r} : pc[q] # "dead"
  /\ Goto(r, "dead")
  /\ cand' = [cand EXCEPT ![r] = NoTask]
  /\ old' = [old EXCEPT ![r] = NoTask]
  /\ seen' = [seen EXCEPT ![r] = NoSight]
  /\ work' = [t \in Task |->
                IF owner[t] = r /\ work[t] # "none" THEN "returned" ELSE work[t]]
  /\ UNCHANGED <<tables, asked>>

\* The handler renews the lease in time, or is about to give it back.
Kept == work[lock.task] \in {"running", "releasing"} /\ owner[lock.task] = lock.by

\* The pass holds the lease, or still acts on what it read before somebody
\* acquired it: it takes longer than a lease only if the process stalls.
Underway(r) ==
  \/ pc[r] \in {"mark", "delete", "takeover", "markOld", "start", "release"}
  \/ pc[r] \in {"lock", "inspect"} /\ status[cand[r]] # "pending"

\* The lease runs out.
Lapse ==
  /\ Locked
  /\ lock.live
  /\ "slow" \in Faults \/ ~ (Kept \/ \E r \in Runner : Underway(r))
  /\ lock' = [lock EXCEPT !.live = FALSE]
  /\ UNCHANGED <<status, key, owner, pc, locals, work>>

Pass(r) ==
  \/ SkipExpiry(r) \/ ReadStaleLock(r) \/ MarkStale(r) \/ DeleteStale(r)
  \/ Schedule(r) \/ InsertScheduled(r)
  \/ FindPending(r) \/ InsertLock(r) \/ InspectLock(r) \/ TakeOverLock(r)
  \/ MarkReplaced(r) \/ StartTask(r) \/ ReleaseClaim(r)

Handler(t) == Heartbeat(t) \/ FinishTask(t) \/ ReleaseLock(t)

Next ==
  \/ \E r \in Runner : Pass(r) \/ Crash(r)
  \/ \E t \in Task : Handler(t)
  \/ AskForTask \/ EnqueueSystemTask
  \/ Lapse

Spec == Init /\ [][Next]_vars

\* A living runner keeps making passes, every other of them includes the
\* expiry check, a handler ends, and a lease nobody renews runs out.
Fairness ==
  /\ \A r \in Runner : WF_vars(Pass(r)) /\ SF_vars(ReadStaleLock(r))
  /\ \A t \in Task : WF_vars(FinishTask(t)) /\ WF_vars(ReleaseLock(t))
  /\ WF_vars(Lapse)

FairSpec == Spec /\ Fairness

-----------------------------------------------------------------------------
(* What the runner promises *)

\* Masters and administrators that look for an active row at the same time all
\* find none and all insert: one active row per type remains all the same. And a
\* row that has ended, however it ended, does not keep the key: it would stop
\* the type for ever, since nothing else clears active_key.
OneActiveTask ==
  /\ \A t, u \in Task \ Legacy : Active(t) /\ Active(u) => t = u
  /\ \A t \in key : Active(t)

\* A finished task stays as it finished: no late mark of an expiry pass or
\* of a takeover, and no handler that lost its lease, rewrites the outcome.
FinishedIsFinal ==
  [][\A t \in Task : status[t] \in Final => status'[t] = status[t]]_vars

\* A running task can always be found again through the lock that names it,
\* or by the pass that is about to fail it.
NoOrphan ==
  \A t \in Task : status[t] = "running" =>
    \/ lock.task = t
    \/ \E r \in Runner : pc[r] = "markOld" /\ old[r] = t

\* Two handlers of one type never run at the same time.
ExclusiveHandlers == \A t, u \in Task : Working(t) /\ Working(u) => t = u

\* As long as the heartbeat succeeds the task stays with its handler.
HeartbeatKeepsTask ==
  \A t \in Task : work[t] = "running" => status[t] = "running"

\* Whoever crashes, an active task ends, so that the type can run again.
TaskEnds ==
  \A t \in Task : status[t] \in {"pending", "running"} ~> status[t] \in Final
=============================================================================
