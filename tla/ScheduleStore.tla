---------------------------- MODULE ScheduleStore ----------------------------
(***************************************************************************)
(* hoocode-code-scheduler's TaskStore (store.rs): processes that share     *)
(* <cwd>/.agents/scheduled_tasks.json create, delete and claim tasks.      *)
(* Each operation re-reads the file and renames a new one over it, under a *)
(* lock file that a process may leave behind when it dies, that is removed *)
(* once it is old, and that a create or a delete does not insist on.       *)
(* PROCESS_LOCK runs one operation of a process at a time, so a process is *)
(* one actor here.  A write fails, and a process dies, at any step.        *)
(*                                                                         *)
(* Timing assumed: a live holder keeps the lock for less than LOCK_WAIT    *)
(* (3 s) and STALE_LOCK (10 s), so only a dead holder's lock is waited out *)
(* or grows stale.  cron and prompt are abstracted to the minutes at which *)
(* the expression matches; the session id, the fire count and the order of *)
(* the list are for display.                                               *)
(***************************************************************************)
EXTENDS Integers, FiniteSets, FiniteSetsExt

CONSTANTS Procs,      \* pids of the running processes
          Ghost,      \* pid of a process that has exited
          NoProc,     \* no lock file
          Tasks,      \* ids new_id can mint
          Recurring,  \* the tasks that stay after a fire
          DueAt,      \* minutes at which the cron expressions match
          Late,       \* LATE_FIRE_MINUTES
          Lookback,   \* LOOKBACK_MINUTES
          MaxMinute,  \* bound on the clock
          MaxErrors,  \* bound on the writes that fail
          MaxCrashes  \* bound on the processes that die

ASSUME ScheduleStoreAssumption ==
  /\ Ghost \notin Procs /\ NoProc \notin Procs \cup {Ghost}
  /\ Recurring \subseteq Tasks
  /\ MaxMinute \in Nat /\ MaxErrors \in Nat /\ MaxCrashes \in Nat
  /\ Late \in Nat /\ Lookback \in Nat
  /\ DueAt \subseteq Nat

VARIABLES
  store,   \* the file: id -> task
  minted,  \* ids given out (new_id never repeats one)
  lock,    \* who created the lock file
  stale,   \* the lock file is older than STALE_LOCK
  now,     \* the clock, in minutes
  pc,      \* where each process is
  op,      \* the operation it is in
  held,    \* FileLock::held
  snap,    \* the tasks it read
  out,     \* fires its claim will return
  fired,   \* fires that were returned and so sent as prompts
  errors   \* writes that failed

procVars == <<pc, op, held, snap, out>>
vars == <<store, minted, lock, stale, now, procVars, fired, errors>>

Minutes == 0..MaxMinute
NotRun == -1
Task == [owner : Procs \cup {Ghost}, created : Minutes, last : Minutes \cup {NotRun}]
Files == UNION {[S -> Task] : S \in SUBSET Tasks}
Empty == [t \in {} |-> [owner |-> Ghost, created |-> 0, last |-> NotRun]]

Ops == [kind : {"create"}, task : Tasks, at : Minutes] \cup [kind : {"delete"}, task : Tasks]
         \cup [kind : {"tick"}, at : Minutes]
Idle == [kind |-> "none"]
Steps == {"idle", "acquire", "unlink", "read", "write", "return", "dead"}

Alive(p) == p \in Procs /\ pc[p] # "dead"

(* The store holds what earlier processes left in it.                        *)
Init ==
  /\ minted \in SUBSET Tasks
  /\ store = [t \in minted |-> [owner |-> Ghost, created |-> 0, last |-> NotRun]]
  /\ lock = NoProc /\ stale = FALSE
  /\ now = 0
  /\ pc = [p \in Procs |-> "idle"]
  /\ op = [p \in Procs |-> Idle]
  /\ held = [p \in Procs |-> FALSE]
  /\ snap = [p \in Procs |-> Empty]
  /\ out = [p \in Procs |-> {}]
  /\ fired = {} /\ errors = 0

-----------------------------------------------------------------------------
(* Callers: the Cron tools and /loop create and delete, an idle session      *)
(* ticks.  The id of a new task and the time of a tick are read before the   *)
(* lock is asked for.                                                        *)

Call(p, o) ==
  /\ pc[p] = "idle"
  /\ pc' = [pc EXCEPT ![p] = "acquire"]
  /\ op' = [op EXCEPT ![p] = o]
  /\ UNCHANGED <<store, lock, stale, now, held, snap, out, fired, errors>>

StartCreate(p, t) ==
  /\ t \notin minted
  /\ minted' = minted \cup {t}
  /\ Call(p, [kind |-> "create", task |-> t, at |-> now])

StartDelete(p, t) ==
  /\ t \in minted
  /\ Call(p, [kind |-> "delete", task |-> t])
  /\ UNCHANGED minted

StartTick(p) ==
  /\ Call(p, [kind |-> "tick", at |-> now])
  /\ UNCHANGED minted

-----------------------------------------------------------------------------
(* FileLock::acquire.                                                        *)

\* Mutation of CreateLock: an existing lock file is no obstacle.
CreateLockAnyway(p) ==
  /\ lock' = p
  /\ stale' = FALSE

CreateLock(p) ==
  /\ lock = NoProc
  /\ lock' = p
  /\ stale' = FALSE

AcquireLock(p) ==
  /\ pc[p] = "acquire"
  /\ CreateLock(p)
  /\ held' = [held EXCEPT ![p] = TRUE]
  /\ pc' = [pc EXCEPT ![p] = "read"]
  /\ UNCHANGED <<store, minted, now, op, snap, out, fired, errors>>

\* Mutation of SeesStale: an abandoned lock file is never given up on.
SeesStaleNever(p) == FALSE

SeesStale(p) == lock # NoProc /\ stale

(* is_stale looked at the file; what remove_file then removes is whatever is *)
(* there by then.                                                            *)
FindStale(p) ==
  /\ pc[p] = "acquire"
  /\ SeesStale(p)
  /\ pc' = [pc EXCEPT ![p] = "unlink"]
  /\ UNCHANGED <<store, minted, lock, stale, now, op, held, snap, out, fired, errors>>

RemoveStale(p) ==
  /\ pc[p] = "unlink"
  /\ lock' = NoProc /\ stale' = FALSE
  /\ pc' = [pc EXCEPT ![p] = "acquire"]
  /\ UNCHANGED <<store, minted, now, op, held, snap, out, fired, errors>>

(* LOCK_WAIT is over: go ahead without the lock.                             *)
GiveUp(p) ==
  /\ pc[p] = "acquire"
  /\ lock # NoProc /\ ~stale /\ ~Alive(lock)
  /\ held' = [held EXCEPT ![p] = FALSE]
  /\ pc' = [pc EXCEPT ![p] = "read"]
  /\ UNCHANGED <<store, minted, lock, stale, now, op, snap, out, fired, errors>>

-----------------------------------------------------------------------------
(* The closures that with_lock runs.                                         *)

(* latest_due_minute, for a tick at minute at; {} when there is none.        *)
Floor(task) ==
  IF task.last = NotRun THEN task.created ELSE Max({task.last + 1, task.created})

DueMinutes(task, at) ==
  {m \in DueAt : m >= Max({Floor(task), at - Lookback}) /\ m <= at}

\* Mutation of MayClaim: whoever finds a task due claims it.
MayClaimAny(p, task) == TRUE

MayClaim(p, task) == task.owner = p \/ ~Alive(task.owner)

Claims(p, at) == {t \in DOMAIN snap[p] : /\ DueMinutes(snap[p][t], at) # {}
                                         /\ MayClaim(p, snap[p][t])}

(* Read the file.  A tick without the lock ends here: another process may be *)
(* claiming.                                                                 *)
MayProceed(p) == op[p].kind = "tick" => held[p]

Read(p) ==
  /\ pc[p] = "read"
  /\ snap' = [snap EXCEPT ![p] = IF MayProceed(p) THEN store ELSE Empty]
  /\ pc' = [pc EXCEPT ![p] = IF MayProceed(p) THEN "write" ELSE "return"]
  /\ UNCHANGED <<store, minted, lock, stale, now, op, held, out, fired, errors>>

\* Mutation of Claimed: the due minute is not recorded.
ClaimedUnrecorded(p, at) ==
  [t \in DOMAIN snap[p] \ (Claims(p, at) \ Recurring) |->
     IF t \in Claims(p, at) THEN [snap[p][t] EXCEPT !.owner = p] ELSE snap[p][t]]

(* The list after the claim: due minutes recorded, tasks adopted, one-shot   *)
(* tasks gone.                                                               *)
Claimed(p, at) ==
  [t \in DOMAIN snap[p] \ (Claims(p, at) \ Recurring) |->
     IF t \in Claims(p, at)
     THEN [snap[p][t] EXCEPT !.owner = p, !.last = Max(DueMinutes(snap[p][t], at))]
     ELSE snap[p][t]]

(* What the operation writes: the list it read, changed.                     *)
NewList(p) ==
  CASE op[p].kind = "create" ->
         [t \in DOMAIN snap[p] \cup {op[p].task} |->
            IF t = op[p].task THEN [owner |-> p, created |-> op[p].at, last |-> NotRun]
                              ELSE snap[p][t]]
    [] op[p].kind = "delete" -> [t \in DOMAIN snap[p] \ {op[p].task} |-> snap[p][t]]
    [] op[p].kind = "tick"   -> Claimed(p, op[p].at)

(* The claim's fires: the due minutes that are not too late.                 *)
Fires(p) ==
  IF op[p].kind # "tick" THEN {}
  ELSE {<<t, Max(DueMinutes(snap[p][t], op[p].at))>> :
           t \in {u \in Claims(p, op[p].at) :
                    op[p].at - Max(DueMinutes(snap[p][u], op[p].at)) <= Late}}

(* The rename, or nothing to write.                                          *)
Write(p) ==
  /\ pc[p] = "write"
  /\ store' = IF NewList(p) = snap[p] THEN store ELSE NewList(p)
  /\ out' = [out EXCEPT ![p] = Fires(p)]
  /\ snap' = [snap EXCEPT ![p] = Empty]
  /\ pc' = [pc EXCEPT ![p] = "return"]
  /\ UNCHANGED <<minted, lock, stale, now, op, held, fired, errors>>

(* An error fires nothing (unwrap_or_default), and nothing was recorded.     *)
WriteFails(p) ==
  /\ pc[p] = "write"
  /\ NewList(p) # snap[p]
  /\ errors < MaxErrors
  /\ errors' = errors + 1
  /\ snap' = [snap EXCEPT ![p] = Empty]
  /\ pc' = [pc EXCEPT ![p] = "return"]
  /\ UNCHANGED <<store, minted, lock, stale, now, op, held, out, fired>>

(* Drop of the FileLock removes the file by name; the caller gets the result *)
(* and sends the prompts.                                                    *)
Return(p) ==
  /\ pc[p] = "return"
  /\ IF held[p] THEN lock' = NoProc /\ stale' = FALSE ELSE UNCHANGED <<lock, stale>>
  /\ fired' = fired \cup out[p]
  /\ out' = [out EXCEPT ![p] = {}]
  /\ held' = [held EXCEPT ![p] = FALSE]
  /\ op' = [op EXCEPT ![p] = Idle]
  /\ pc' = [pc EXCEPT ![p] = "idle"]
  /\ UNCHANGED <<store, minted, now, snap, errors>>

-----------------------------------------------------------------------------
(* The environment.                                                          *)

Crash(p) ==
  /\ Alive(p)
  /\ Cardinality({q \in Procs : ~Alive(q)}) < MaxCrashes
  /\ pc' = [pc EXCEPT ![p] = "dead"]
  /\ op' = [op EXCEPT ![p] = Idle]
  /\ held' = [held EXCEPT ![p] = FALSE]
  /\ snap' = [snap EXCEPT ![p] = Empty]
  /\ out' = [out EXCEPT ![p] = {}]
  /\ UNCHANGED <<store, minted, lock, stale, now, fired, errors>>

LockAges ==
  /\ lock # NoProc /\ ~Alive(lock) /\ ~stale
  /\ stale' = TRUE
  /\ UNCHANGED <<store, minted, lock, now, procVars, fired, errors>>

MinutePasses ==
  /\ now < MaxMinute
  /\ now' = now + 1
  /\ UNCHANGED <<store, minted, lock, stale, procVars, fired, errors>>

Acquire(p) == AcquireLock(p) \/ FindStale(p) \/ RemoveStale(p) \/ GiveUp(p)

Next ==
  \/ \E p \in Procs, t \in Tasks : StartCreate(p, t) \/ StartDelete(p, t)
  \/ \E p \in Procs :
       \/ StartTick(p)
       \/ Acquire(p)
       \/ Read(p) \/ Write(p) \/ WriteFails(p) \/ Return(p)
       \/ Crash(p)
  \/ LockAges
  \/ MinutePasses

Spec == Init /\ [][Next]_vars

(* A session ticks every TICK_INTERVAL whatever else it does, an operation   *)
(* that has begun goes on, and a process that finds the lock free again and  *)
(* again gets it (it asks every 10 ms).  Creates, deletes, deaths and        *)
(* failures need not happen.                                                 *)
Fairness ==
  /\ \A p \in Procs :
       /\ SF_vars(AcquireLock(p))
       /\ SF_vars(StartTick(p))
       /\ WF_vars(FindStale(p) \/ RemoveStale(p))
       /\ WF_vars(Read(p) \/ Write(p) \/ Return(p))
  /\ WF_vars(LockAges)

LiveSpec == Spec /\ Fairness

-----------------------------------------------------------------------------
(* Types, and that only a process with the lock has fires to return.         *)
TypeOK ==
  /\ minted \subseteq Tasks
  /\ store \in Files /\ DOMAIN store \subseteq minted
  /\ lock \in Procs \cup {NoProc} /\ stale \in BOOLEAN
  /\ now \in Minutes
  /\ pc \in [Procs -> Steps] /\ op \in [Procs -> Ops \cup {Idle}]
  /\ held \in [Procs -> BOOLEAN]
  /\ snap \in [Procs -> Files]
  /\ out \in [Procs -> SUBSET (Tasks \X Minutes)]
  /\ fired \subseteq Tasks \X Minutes
  /\ errors \in 0..MaxErrors
  /\ \A p \in Procs : out[p] # {} => pc[p] = "return" /\ held[p]

(* Two processes that share a store fire a due task once (store.rs:6-8): no  *)
(* claim hands out a minute of a task that another claim hands out too, or   *)
(* that was sent as a prompt already.                                        *)
FiredOnce ==
  /\ \A p, q \in Procs : p # q => out[p] \cap out[q] = {}
  /\ \A p \in Procs : out[p] \cap fired = {}

(* A task never changes hands while its owner lives (store.rs:10-13), not    *)
(* even because an old list is written over a newer one.                     *)
OwnerKept ==
  [][\A t \in DOMAIN store \cap DOMAIN store' :
       Alive(store[t].owner) => store'[t].owner = store[t].owner]_vars

Due(t) == t \in DOMAIN store /\ DueMinutes(store[t], now) # {}

(* A due task is fired or reported as skipped by some process, though its    *)
(* owner died, or a process died holding the lock.                           *)
DueHandled == \A t \in Tasks : Due(t) ~> ~Due(t)

(* The store implements Schedule: no create, delete or claim undoes another. *)
Sched == INSTANCE Schedule WITH
  TaskIds <- Tasks,
  Pids <- Procs \cup {Ghost},
  tasks <- store,
  waiting <- {t \in Tasks : \E p \in Procs : /\ op[p].kind = "create" /\ op[p].task = t
                                             /\ pc[p] # "return"},
  hand <- [p \in Procs \cup {Ghost} |-> IF p \in Procs THEN out[p] ELSE {}]

ImplementsSchedule == Sched!Spec
=============================================================================
