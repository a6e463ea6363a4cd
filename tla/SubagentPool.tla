---------------------------- MODULE SubagentPool ----------------------------
(***************************************************************************)
(* The cold pool of hoocode-code-subagents: a bounded queue of dispatches, *)
(* a bounded number of child processes, and the lifeguard that reaps them. *)
(*                                                                         *)
(* The pool's state is behind one mutex, but no operation holds it from    *)
(* end to end: start_task spawns without it, settle removes the slot in    *)
(* one critical section and decides on a retry in another, cancel and      *)
(* dispose kill after they let it go, and the lifeguard signals a child    *)
(* before it reports.  Each action below is one critical section or one    *)
(* effect outside the lock.                                                *)
(*                                                                         *)
(* stage[t] is the program counter of the code that handles task t: the    *)
(* thread inside start_task, then the tokio task that waits for the child. *)
(* A thread at the head of pull()'s loop is one of the anonymous pulls.    *)
(* Task ids are unique: begin_dispatch makes them, so a task is dispatched *)
(* once.                                                                   *)
(***************************************************************************)
EXTENDS Naturals, FiniteSets, SequencesExt

CONSTANTS Tasks,           \* task ids
          ReadOnly,        \* tasks of the higher priority (explore and plan)
          Pinned,          \* tasks whose agent pins a model: they may fall back
          Attended,        \* tasks whose dispatcher waits (not dispatch_detached)
          Cancellable,     \* tasks the user may cancel
          Faulty,          \* tasks whose spawn and wait may fail
          MaxConcurrency,  \* children at a time
          MaxQueued,       \* admission limit of the queue
          MaxCompleted     \* finished results held in memory

ASSUME SubagentPoolAssumption ==
  /\ IsFiniteSet(Tasks)
  /\ ReadOnly \subseteq Tasks
  /\ Pinned \subseteq Tasks
  /\ Attended \subseteq Tasks
  /\ Cancellable \subseteq Tasks
  /\ Faulty \subseteq Tasks
  /\ MaxConcurrency \in Nat
  /\ MaxQueued \in Nat
  /\ MaxCompleted \in Nat

VARIABLES
  queue,      \* tasks waiting for a slot
  starting,   \* tasks taken off the queue whose child is being spawned
  slots,      \* tasks with a running child
  reasons,    \* kill_reasons
  completed,  \* tasks whose result nobody has taken yet
  order,      \* completed_order
  disposed,
  stage,      \* where the code that handles a task is
  retry,      \* is_retry of the start_task that runs
  fallback,   \* use_inherited_model_fallback
  taken,      \* the kill reason settle removed
  child,      \* the task's latest child process
  pulls,      \* threads at the head of pull()'s loop
  killing,    \* tasks whose present child a thread is about to kill
  reaping,    \* the lifeguard's reaping set
  reports,    \* reaps signalled and not reported yet
  guardGone,  \* the lifeguard is disposed
  accepted,   \* history: tasks spawn() accepted
  cancelled,  \* history: tasks for which cancel() returned true
  settled,    \* history: how often a task's result was handed over
  evicted,    \* history: tasks whose result the cap threw away
  answer      \* what wait_for returned, or that it waits

lockVars == <<queue, starting, slots, reasons, completed, order, disposed>>
runVars == <<stage, retry, fallback, taken, child>>
guardVars == <<reaping, reports, guardGone>>
settleVars == <<completed, order, settled, evicted, answer>>
vars == <<lockVars, runVars, pulls, killing, guardVars, accepted, cancelled,
          settled, evicted, answer>>

Stages == {"none", "dequeued", "start", "spawn", "check", "enter", "monitor",
           "wait", "exited", "settle", "requeue", "resolve", "cancelled",
           "spawnFailed", "release"}
Reasons == {"none", "reaped", "cancelled"}

Init ==
  /\ queue = <<>> /\ starting = {} /\ slots = {} /\ disposed = FALSE
  /\ reasons = [t \in Tasks |-> "none"]
  /\ completed = {} /\ order = <<>>
  /\ stage = [t \in Tasks |-> "none"]
  /\ retry = [t \in Tasks |-> FALSE]
  /\ fallback = [t \in Tasks |-> FALSE]
  /\ taken = [t \in Tasks |-> "none"]
  /\ child = [t \in Tasks |-> "none"]
  /\ pulls = 0 /\ killing = {}
  /\ reaping = {} /\ guardGone = FALSE
  /\ reports = [t \in Tasks |-> 0]
  /\ accepted = {} /\ cancelled = {} /\ evicted = {}
  /\ settled = [t \in Tasks |-> 0]
  /\ answer = [t \in Tasks |-> "none"]

-----------------------------------------------------------------------------
(* What the steps leave alone. *)

KeepRun == UNCHANGED <<retry, fallback, taken, child>>
KeepHistory == UNCHANGED <<accepted, cancelled>>
KeepSettled == UNCHANGED settleVars
KeepGuard == UNCHANGED guardVars
KeepOthers == UNCHANGED <<guardVars, killing, accepted, cancelled>>

GoTo(t, s) == stage' = [stage EXCEPT ![t] = s]
(* The task's own state goes with the thread that held it. *)
Forget(t, again) ==
  /\ retry' = [retry EXCEPT ![t] = FALSE]
  /\ taken' = [taken EXCEPT ![t] = "none"]
  /\ fallback' = [fallback EXCEPT ![t] = again]
  /\ UNCHANGED child

Clear(t) == reasons' = [reasons EXCEPT ![t] = "none"]

(* The thread that handled a task goes (back) to the head of pull()'s loop. *)
PullNext == pulls' = pulls + 1

-----------------------------------------------------------------------------
(* spawn(): admission.  A read-only task goes before the first task of the  *)
(* lower priority that has not aged into its own; the model lets any of     *)
(* them be the first that is young enough.                                  *)

Places(t) ==
  {Len(queue) + 1} \cup
  (IF t \in ReadOnly THEN {i \in DOMAIN queue : queue[i] \notin ReadOnly} ELSE {})

QueueFull == Len(queue) >= MaxQueued

Spawn(t) ==
  /\ t \notin accepted /\ ~disposed /\ ~QueueFull
  /\ \E i \in Places(t) : queue' = InsertAt(queue, i, t)
  /\ accepted' = accepted \cup {t}
  /\ PullNext
  /\ UNCHANGED <<starting, slots, reasons, disposed, cancelled, runVars, killing>>
  /\ KeepSettled /\ KeepGuard

(* pull(): the admission test and the move to starting are one critical     *)
(* section; start_task runs after it.                                       *)

\* Mutation of Full: tasks whose child is being spawned are not counted.
FullOfSlots == Cardinality(slots) >= MaxConcurrency

Full == Cardinality(slots) + Cardinality(starting) >= MaxConcurrency

PullStarts ==
  /\ pulls > 0 /\ ~disposed /\ ~Full /\ queue # <<>>
  /\ queue' = Tail(queue)
  /\ starting' = starting \cup {Head(queue)}
  /\ GoTo(Head(queue), "start")
  /\ retry' = [retry EXCEPT ![Head(queue)] = FALSE]
  /\ pulls' = pulls - 1
  /\ UNCHANGED <<slots, reasons, disposed, fallback, taken, child>>
  /\ KeepSettled /\ KeepOthers

PullReturns ==
  /\ pulls > 0 /\ (disposed \/ Full \/ queue = <<>>)
  /\ pulls' = pulls - 1
  /\ UNCHANGED <<lockVars, runVars, settled, evicted, answer>>
  /\ KeepOthers

-----------------------------------------------------------------------------
(* resolve_waiter: the waiter gets the result, or it is stored and the      *)
(* oldest stored result makes room.                                         *)

Overfull(q) == Len(q) > MaxCompleted

Resolve(t) ==
  LET stored == completed \cup {t}
      aged == Append(order, t)
      oldest == Head(aged)
  IN /\ settled' = [settled EXCEPT ![t] = @ + 1]
     /\ IF answer[t] = "waiting"
        THEN /\ answer' = [answer EXCEPT ![t] = "result"]
             /\ UNCHANGED <<completed, order, evicted>>
        ELSE /\ UNCHANGED answer
             /\ IF Overfull(aged)
                THEN /\ completed' = stored \ {oldest}
                     /\ order' = Tail(aged)
                     /\ evicted' = evicted \cup ({oldest} \cap stored)
                ELSE /\ completed' = stored
                     /\ order' = aged
                     /\ UNCHANGED evicted

\* Mutation of WaitFor: it registers without looking at the stored results.
WaitForBlindly(t) ==
  /\ t \in Attended \cap accepted /\ answer[t] = "none"
  /\ answer' = [answer EXCEPT ![t] = IF disposed THEN "error" ELSE "waiting"]
  /\ UNCHANGED <<lockVars, runVars, pulls, settled, evicted>>
  /\ KeepOthers

(* wait_for, by the dispatcher of t: takes a stored result or registers.    *)
WaitFor(t) ==
  /\ t \in Attended \cap accepted /\ answer[t] = "none"
  /\ answer' = [answer EXCEPT ![t] = IF disposed THEN "error"
                                     ELSE IF t \in completed THEN "result"
                                     ELSE "waiting"]
  /\ completed' = IF disposed THEN completed ELSE completed \ {t}
  /\ UNCHANGED <<queue, starting, slots, reasons, order, disposed, runVars, pulls,
                 settled, evicted>>
  /\ KeepOthers

-----------------------------------------------------------------------------
(* start_task: the look at the flag, the spawn, the second look, the slot.  *)

CancelSeen(t) == t \in starting /\ reasons[t] = "cancelled"

(* take_starting_cancel before the spawn. *)
StartTask(t) ==
  /\ stage[t] = "start"
  /\ IF CancelSeen(t) THEN Clear(t) /\ GoTo(t, "cancelled")
                      ELSE UNCHANGED reasons /\ GoTo(t, "spawn")
  /\ UNCHANGED <<queue, starting, slots, disposed, pulls>>
  /\ KeepRun /\ KeepSettled /\ KeepOthers

(* The spawn succeeds.  The child has a generation of its own, so a kill    *)
(* still on its way to an earlier child of the task is refused from here on. *)
SpawnChild(t) ==
  /\ stage[t] = "spawn"
  /\ child' = [child EXCEPT ![t] = "alive"]
  /\ killing' = killing \ {t}
  /\ GoTo(t, "check")
  /\ UNCHANGED <<lockVars, retry, fallback, taken, pulls, settled, evicted, answer>>
  /\ KeepGuard /\ KeepHistory

(* The spawn fails: once more from the top, then the task has failed.       *)
SpawnFails(t) ==
  /\ stage[t] = "spawn" /\ t \in Faulty
  /\ IF retry[t] THEN GoTo(t, "spawnFailed") ELSE GoTo(t, "start")
  /\ retry' = [retry EXCEPT ![t] = TRUE]
  /\ UNCHANGED <<lockVars, fallback, taken, child, pulls, settled,
                 evicted, answer>>
  /\ KeepOthers

\* Mutation of Killed: the signal never reaches the child.
LeftAlone(t) == child

Killed(t) == [child EXCEPT ![t] = IF @ = "alive" THEN "killed" ELSE @]

(* take_starting_cancel after the spawn; a cancelled child is killed by its *)
(* handle.                                                                  *)
LookAgain(t) ==
  /\ stage[t] = "check"
  /\ IF CancelSeen(t) THEN Clear(t) /\ GoTo(t, "cancelled") /\ child' = Killed(t)
                      ELSE UNCHANGED <<reasons, child>> /\ GoTo(t, "enter")
  /\ UNCHANGED <<queue, starting, slots, disposed, retry, fallback, taken, pulls>>
  /\ KeepSettled /\ KeepOthers

(* Starting becomes running in one critical section.                        *)
EnterSlot(t) ==
  /\ stage[t] = "enter"
  /\ starting' = starting \ {t}
  /\ slots' = slots \cup {t}
  /\ GoTo(t, "monitor")
  /\ UNCHANGED <<queue, reasons, disposed, pulls>>
  /\ KeepRun /\ KeepSettled /\ KeepOthers

(* lifeguard.monitor; then a tokio task waits for the child, and the thread *)
(* goes back to pull().                                                     *)
Monitor(t) ==
  /\ stage[t] = "monitor"
  /\ GoTo(t, "wait")
  /\ PullNext
  /\ UNCHANGED <<lockVars, settled, evicted, answer>>
  /\ KeepRun /\ KeepOthers

(* The two ways a task ends without a slot resolve its waiter first and     *)
(* give the place back after.                                               *)
ResolveUnstarted(t) ==
  /\ stage[t] \in {"cancelled", "spawnFailed"}
  /\ Resolve(t)
  /\ GoTo(t, "release")
  /\ UNCHANGED <<queue, starting, slots, reasons, disposed, pulls>>
  /\ KeepRun /\ KeepOthers

\* Mutation of Release: the queue is not looked at again.
ReleaseWithoutPull(t) ==
  /\ stage[t] = "release"
  /\ starting' = starting \ {t}
  /\ GoTo(t, "none")
  /\ UNCHANGED <<queue, slots, reasons, disposed, pulls>>
  /\ Forget(t, FALSE) /\ KeepSettled /\ KeepOthers

Release(t) ==
  /\ stage[t] = "release"
  /\ starting' = starting \ {t}
  /\ GoTo(t, "none")
  /\ PullNext
  /\ UNCHANGED <<queue, slots, reasons, disposed>>
  /\ Forget(t, FALSE) /\ KeepSettled /\ KeepOthers

-----------------------------------------------------------------------------
(* The task that waits for the child.                                       *)

(* The wait returned: untrack, before anything is settled.                  *)
ChildLeft(t) ==
  /\ stage[t] = "wait" /\ child[t] = "gone"
  /\ reaping' = reaping \ {t}
  /\ GoTo(t, "exited")
  /\ UNCHANGED <<lockVars, pulls, killing, reports, guardGone, settled, evicted, answer>>
  /\ KeepRun /\ KeepHistory

(* settle: the slot and the kill reason go in one critical section.         *)
LeaveSlot(t) ==
  /\ stage[t] = "exited"
  /\ slots' = slots \ {t}
  /\ taken' = [taken EXCEPT ![t] = reasons[t]]
  /\ Clear(t)
  /\ GoTo(t, "settle")
  /\ UNCHANGED <<queue, starting, disposed, retry, fallback, child, pulls>>
  /\ KeepSettled /\ KeepOthers

(* settle_error: the wait failed.  The first time the task takes its place  *)
(* over and starts again; the second time it has failed.                    *)
WaitFails(t) ==
  /\ stage[t] = "exited" /\ t \in Faulty
  /\ slots' = slots \ {t}
  /\ IF retry[t] THEN GoTo(t, "resolve") /\ UNCHANGED starting
                 ELSE GoTo(t, "start") /\ starting' = starting \cup {t}
  /\ retry' = [retry EXCEPT ![t] = TRUE]
  /\ UNCHANGED <<queue, reasons, disposed, fallback, taken, child, pulls>>
  /\ KeepSettled /\ KeepOthers

(* should_retry_with_inherited_model, for an error the classifier matches.  *)
MayFallBack(t) == t \in Pinned /\ ~fallback[t]

(* A run that was killed without a valid result runs again only if the      *)
(* lifeguard killed it; any other run only if it is not a success.          *)
WorthRetrying(t, valid, ok) ==
  IF taken[t] # "none" /\ ~valid THEN taken[t] = "reaped" ELSE ~ok

Settle(t) ==
  /\ stage[t] = "settle"
  /\ \E valid, ok \in BOOLEAN :
       \/ GoTo(t, "resolve")
       \/ MayFallBack(t) /\ WorthRetrying(t, valid, ok) /\ GoTo(t, "requeue")
  /\ UNCHANGED <<lockVars, pulls, settled, evicted, answer>>
  /\ KeepRun /\ KeepOthers

\* Mutation of Requeue: the task goes back, and nobody pulls.
RequeueQuietly(t) ==
  /\ stage[t] = "requeue"
  /\ queue' = <<t>> \o queue
  /\ GoTo(t, "none")
  /\ UNCHANGED <<starting, slots, reasons, disposed, pulls>>
  /\ Forget(t, TRUE) /\ KeepSettled /\ KeepOthers

(* The retry goes to the front of the queue, whatever its length.           *)
Requeue(t) ==
  /\ stage[t] = "requeue"
  /\ queue' = <<t>> \o queue
  /\ GoTo(t, "none")
  /\ PullNext
  /\ UNCHANGED <<starting, slots, reasons, disposed>>
  /\ Forget(t, TRUE) /\ KeepSettled /\ KeepOthers

ResolveSettled(t) ==
  /\ stage[t] = "resolve"
  /\ Resolve(t)
  /\ GoTo(t, "none")
  /\ PullNext
  /\ UNCHANGED <<queue, starting, slots, reasons, disposed>>
  /\ Forget(t, FALSE) /\ KeepOthers

-----------------------------------------------------------------------------
(* cancel(): on the user's behalf, at whatever stage the task is.           *)

CancelQueued(t) ==
  /\ t \in Cancellable
  /\ \E i \in DOMAIN queue : queue[i] = t /\ queue' = RemoveAt(queue, i)
  /\ GoTo(t, "dequeued")
  /\ cancelled' = cancelled \cup {t}
  /\ UNCHANGED <<starting, slots, reasons, disposed, pulls, killing, accepted>>
  /\ KeepRun /\ KeepSettled /\ KeepGuard

ResolveQueued(t) ==
  /\ stage[t] = "dequeued"
  /\ Resolve(t)
  /\ GoTo(t, "none")
  /\ UNCHANGED <<queue, starting, slots, reasons, disposed, pulls>>
  /\ Forget(t, FALSE) /\ KeepOthers

(* Between admission and the slot there is only the flag.                   *)
CancelStarting(t) ==
  /\ t \in Cancellable /\ t \in starting
  /\ reasons' = [reasons EXCEPT ![t] = "cancelled"]
  /\ cancelled' = cancelled \cup {t}
  /\ UNCHANGED <<queue, starting, slots, disposed, runVars, pulls, killing, accepted>>
  /\ KeepSettled /\ KeepGuard

CancelRunning(t) ==
  /\ t \in Cancellable /\ t \in slots /\ t \notin starting
  /\ reasons' = [reasons EXCEPT ![t] = "cancelled"]
  /\ killing' = killing \cup {t}
  /\ cancelled' = cancelled \cup {t}
  /\ UNCHANGED <<queue, starting, slots, disposed, runVars, pulls, accepted>>
  /\ KeepSettled /\ KeepGuard

(* kill_child_trees, out of the lock. *)
Kill(t) ==
  /\ t \in killing
  /\ killing' = killing \ {t}
  /\ child' = Killed(t)
  /\ UNCHANGED <<lockVars, stage, retry, fallback, taken, pulls, guardVars, accepted,
                 cancelled, settled, evicted, answer>>

-----------------------------------------------------------------------------
(* The lifeguard and the children.                                          *)

(* The children the lifeguard watches: from monitor to untrack. *)
Tracked == IF guardGone THEN {} ELSE {t \in Tasks : stage[t] = "wait"}

(* A child silent, stuck or past its deadline: the signal, and only after   *)
(* it the report that sets the kill reason.                                 *)
Reap(t) ==
  /\ t \in Tracked /\ t \notin reaping
  /\ reaping' = reaping \cup {t}
  /\ child' = Killed(t)
  /\ reports' = [reports EXCEPT ![t] = @ + 1]
  /\ UNCHANGED <<lockVars, stage, retry, fallback, taken, pulls, killing,
                 guardGone, settled, evicted, answer>>
  /\ KeepHistory

Report(t) ==
  /\ reports[t] > 0
  /\ reports' = [reports EXCEPT ![t] = @ - 1]
  /\ reasons' = [reasons EXCEPT ![t] = "reaped"]
  /\ UNCHANGED <<queue, starting, slots, disposed, runVars, pulls, killing, reaping, guardGone>>
  /\ KeepSettled /\ KeepHistory

Exits(t, from) ==
  /\ child[t] = from
  /\ child' = [child EXCEPT ![t] = "gone"]
  /\ UNCHANGED <<lockVars, stage, retry, fallback, taken, pulls, settled,
                 evicted, answer>>
  /\ KeepOthers

ChildExits(t) == Exits(t, "alive")
ChildDies(t) == Exits(t, "killed")

(* dispose(): everything is cleared under the lock and the waiters get an   *)
(* error; the children of the slots are killed after it.                    *)
Dispose ==
  /\ ~disposed
  /\ disposed' = TRUE
  /\ queue' = <<>> /\ starting' = {} /\ slots' = {}
  /\ completed' = {} /\ order' = <<>>
  /\ reasons' = [t \in Tasks |-> "none"]
  /\ answer' = [t \in Tasks |-> IF answer[t] = "waiting" THEN "error" ELSE answer[t]]
  /\ killing' = killing \cup slots
  /\ UNCHANGED <<runVars, pulls, settled, evicted>>
  /\ KeepGuard /\ KeepHistory

(* The lifeguard is disposed last: it kills what it still tracks.  The model *)
(* does not order it after the kills that dispose() began.                  *)
DisposeGuard ==
  /\ disposed /\ ~guardGone
  /\ guardGone' = TRUE
  /\ child' = [t \in Tasks |-> IF t \in Tracked /\ child[t] = "alive"
                               THEN "killed" ELSE child[t]]
  /\ reaping' = {}
  /\ UNCHANGED <<lockVars, stage, retry, fallback, taken, pulls, killing,
                 reports, settled, evicted, answer>>
  /\ KeepHistory

-----------------------------------------------------------------------------
Pull == PullStarts \/ PullReturns
Starts(t) == StartTask(t) \/ SpawnChild(t) \/ SpawnFails(t) \/ LookAgain(t)
             \/ EnterSlot(t) \/ Monitor(t) \/ ResolveUnstarted(t) \/ Release(t)
Ends(t) == ChildLeft(t) \/ LeaveSlot(t) \/ WaitFails(t) \/ Settle(t) \/ Requeue(t)
           \/ ResolveSettled(t)
Handles(t) == Starts(t) \/ Ends(t) \/ ResolveQueued(t)
Cancels(t) == CancelQueued(t) \/ CancelStarting(t) \/ CancelRunning(t) \/ Kill(t)
Calls(t) == Spawn(t) \/ WaitFor(t) \/ Cancels(t)
Stopped(t) == Reap(t) \/ ChildDies(t)

TaskStep(t) == Calls(t) \/ Handles(t) \/ Stopped(t) \/ Report(t) \/ ChildExits(t)

Next == Pull \/ Dispose \/ DisposeGuard \/ \E t \in Tasks : TaskStep(t)

(* Threads and tokio tasks run on: at any time one of the steps of Handles  *)
(* is open for a task.  A child still watched is reaped in the end, as the  *)
(* deadline is re-armed only up to its ceiling, and a killed child leaves.  *)
(* Nobody has to dispatch, cancel or dispose, and a child need not leave by *)
(* itself.                                                                  *)
Fairness ==
  /\ WF_vars(Pull)
  /\ \A t \in Tasks : WF_vars(Handles(t)) /\ WF_vars(Stopped(t))

Spec == Init /\ [][Next]_vars
FairSpec == Spec /\ Fairness

-----------------------------------------------------------------------------
(* The types and the bound on the stored results: resolve_waiter drops the  *)
(* oldest ones.                                                             *)
TypeOK ==
  /\ queue \in Seq(Tasks)
  /\ starting \subseteq Tasks /\ slots \subseteq Tasks
  /\ reasons \in [Tasks -> Reasons]
  /\ completed \subseteq Tasks
  /\ order \in Seq(Tasks) /\ Len(order) <= MaxCompleted
  /\ disposed \in BOOLEAN
  /\ stage \in [Tasks -> Stages]
  /\ retry \in [Tasks -> BOOLEAN] /\ fallback \in [Tasks -> BOOLEAN]
  /\ taken \in [Tasks -> Reasons]
  /\ child \in [Tasks -> {"none", "alive", "killed", "gone"}]
  /\ pulls \in Nat
  /\ killing \subseteq Tasks
  /\ reaping \subseteq Tasks
  /\ reports \in [Tasks -> Nat]
  /\ guardGone \in BOOLEAN
  /\ accepted \subseteq Tasks /\ cancelled \subseteq Tasks /\ evicted \subseteq Tasks
  /\ settled \in [Tasks -> Nat]
  /\ answer \in [Tasks -> {"none", "waiting", "result", "error"}]

Alive == {t \in Tasks : child[t] = "alive"}

(* No more children than the pool allows, counted as the pool counts them   *)
(* and as processes nobody has told to stop: a place is taken before the    *)
(* spawn, is never uncounted while a task is retried, and is given back     *)
(* only once the child has left or was killed.                              *)
ConcurrencyBounded ==
  /\ Cardinality(slots) + Cardinality(starting) <= MaxConcurrency
  /\ Cardinality(Alive) <= MaxConcurrency

(* Someone will pull: with a task queued and a place free, some thread is   *)
(* at the head of pull() or on its way there.                               *)
QueueHasPuller ==
  ~disposed /\ queue # <<>> /\ ~Full =>
    pulls > 0 \/ \E t \in Tasks : stage[t] \notin {"none", "dequeued"}

(* An accepted task is in one place: queued, or with the one thread that    *)
(* handles it, or settled; its result is handed over once, and by then its  *)
(* process has left or been killed.                                         *)
InQueue(t) == \E i \in DOMAIN queue : queue[i] = t
Handled(t) == stage[t] \notin {"none", "release"}

SettledOnce ==
  \A t \in accepted :
    /\ settled[t] <= 1
    /\ settled[t] = 1 => ~InQueue(t) /\ ~Handled(t) /\ child[t] # "alive"
    /\ settled[t] = 0 /\ ~disposed => (InQueue(t) <=> ~Handled(t))

(* Every dispatch the pool accepted is settled, unless the pool goes first: *)
(* the tasks are finitely many, so there comes a time when none is owed.    *)
Owed == \E t \in accepted : settled[t] = 0

AcceptedSettles == Owed ~> ~Owed \/ disposed

(* wait_for returns, if the cap had not thrown the result away before it    *)
(* was called.                                                              *)
WaiterAnswered ==
  \A t \in Tasks : answer[t] = "waiting" /\ t \notin evicted ~> answer[t] # "waiting"

-----------------------------------------------------------------------------
(* What pool.rs says of a cancel and the code does not keep.                *)

(* pool.rs:806-809: a task still starting settles as soon as its spawn      *)
(* returns, a running task's process tree is killed.  So once start_task is *)
(* done with a cancelled task, its child is killed or is about to be.       *)
CancelStopsChild ==
  \A t \in cancelled :
    stage[t] = "wait" /\ child[t] = "alive" => t \in killing
=============================================================================
