------------------------------ MODULE AgentLoop ------------------------------
(***************************************************************************)
(* The agent of hoocode-agent-core and the run loop of hoocode-agent-loop: *)
(* one run slot, two queues the user's threads fill while a run works,     *)
(* tools that finish in the background, and a loop that sleeps on two      *)
(* tokio Notify objects when it has nothing else to do.                    *)
(*                                                                         *)
(* Actors: the user's threads (steer, follow_up, take back, clear, abort), *)
(* the tasks that call prompt() and continue() (Callers), the one run loop *)
(* of the slot's holder (run is its program counter), and the detached     *)
(* background tasks (Tasks).  Messages are numbered in the order they are  *)
(* handed to the agent.                                                    *)
(***************************************************************************)
EXTENDS Naturals, Sequences, FiniteSets

CONSTANTS Callers,       \* tasks that may call prompt() and continue()
          Tasks,         \* background tool calls the model may make
          NoCaller,      \* the free run slot
          MaxMessages,   \* bound on the messages the user hands over
          SteeringMode,  \* QueueMode of the steering queue
          FollowUpMode   \* QueueMode of the follow-up queue

Modes == {"all", "one-at-a-time"}

ASSUME AgentLoopAssumption ==
  /\ NoCaller \notin Callers
  /\ IsFiniteSet(Tasks)
  /\ MaxMessages \in Nat
  /\ Tasks \cap Nat = {}
  /\ SteeringMode \in Modes
  /\ FollowUpMode \in Modes

VARIABLES
  active,       \* holder of the run slot (shared.active)
  streaming,    \* state.is_streaming
  aborted,      \* the active run's AbortSignal
  accepted,     \* number of messages handed over so far
  steering,     \* steering_queue
  followUp,     \* follow_up_queue
  unsignalled,  \* messages pushed whose notify_one has not run yet
  permit,       \* the stored permit of message_queued
  queued,       \* the loop's future on message_queued
  settled,      \* the loop's future on the manager's settled Notify
  caller,       \* where each caller is
  held,         \* messages a caller holds for the run it wants to begin
  skipPoll,     \* skip_initial_steering_poll of the run
  run,          \* program counter of the run loop
  more,         \* has_more_tool_calls
  pending,      \* messages the next turn injects
  transcript,   \* messages injected into the conversation, in order
  lastRole,     \* role of the transcript's last message
  task,         \* where each background task is
  inflight,     \* tasks spawned and not yet counted down
  results,      \* settled results not yet collected
  withdrawn,    \* messages the user took back or cleared
  dropped       \* messages thrown away with a failed continue()

slotVars == <<active, streaming, aborted, skipPoll>>
queueVars == <<accepted, steering, followUp, unsignalled, withdrawn>>
notifyVars == <<permit, queued, settled>>
callerVars == <<caller, held, dropped>>
loopVars == <<run, more, pending, transcript, lastRole>>
taskVars == <<task, inflight, results>>
vars == <<slotVars, queueVars, notifyVars, callerVars, loopVars, taskVars>>

MessageIds == 1..MaxMessages
Accepted == 1..accepted
Items == MessageIds \cup Tasks

CallerStates == {"rest", "waiting", "registered", "parked", "notified", "idle",
                 "checked", "draining", "drainedSteering", "drainedFollowUp",
                 "resuming", "claimed", "running", "finishing"}
RunStates == {"none", "start", "turn", "stream", "doomedStream", "tools",
              "turnEnd", "count", "results", "arm", "select", "bgResults",
              "bgCount", "asleep", "woken", "pollFollowUp", "outer", "ended"}

Init ==
  /\ active = NoCaller /\ streaming = FALSE /\ aborted = FALSE /\ skipPoll = FALSE
  /\ accepted = 0 /\ steering = <<>> /\ followUp = <<>>
  /\ unsignalled = {} /\ withdrawn = {}
  /\ permit = FALSE /\ queued = "none" /\ settled = "none"
  /\ caller = [c \in Callers |-> "rest"]
  /\ held = [c \in Callers |-> <<>>]
  /\ dropped = {}
  /\ run = "none" /\ more = FALSE /\ pending = <<>> /\ transcript = <<>>
  /\ lastRole = "none"
  /\ task = [t \in Tasks |-> "new"] /\ inflight = 0 /\ results = <<>>

-----------------------------------------------------------------------------
(* What the steps of one actor leave alone. *)
KeepButQueues == UNCHANGED <<slotVars, notifyVars, callerVars, loopVars, taskVars>>
KeepButCallers == UNCHANGED <<slotVars, queueVars, notifyVars, held, dropped, loopVars, taskVars>>
KeepButLoop == UNCHANGED <<slotVars, queueVars, notifyVars, callerVars, taskVars>>
KeepButNotify == UNCHANGED <<slotVars, queueVars, callerVars, taskVars, more, pending,
                             transcript, lastRole>>
KeepButPolled == UNCHANGED <<active, streaming, aborted, notifyVars, callerVars, accepted, unsignalled,
                             withdrawn, transcript, lastRole, task, inflight>>
KeepButTasks == UNCHANGED <<slotVars, queueVars, callerVars, loopVars, permit, queued>>

(* PendingMessageQueue::drain: what a drain returns and what it leaves.     *)

Taken(q, mode) == IF mode = "all" \/ q = <<>> THEN q ELSE <<Head(q)>>
Left(q, mode) == IF mode = "all" \/ q = <<>> THEN <<>> ELSE Tail(q)

Elements(q) == {q[i] : i \in DOMAIN q}

(* tokio::sync::Notify: notify_one wakes the registered waiter or stores a  *)
(* permit; dropping a waiter that was woken and not polled passes the       *)
(* wake-up on, dropping one whose enable() consumed the permit loses it.    *)

NotifyOne ==
  IF queued = "registered"
  THEN queued' = "notified" /\ UNCHANGED permit
  ELSE permit' = TRUE /\ UNCHANGED queued

DropQueuedFuture ==
  /\ queued' = "none"
  /\ permit' = (permit \/ queued = "notified")

-----------------------------------------------------------------------------
(* The user's threads.                                                      *)

NewMessage == accepted + 1

Accept ==
  /\ accepted < MaxMessages
  /\ accepted' = NewMessage

(* steer(): the push, under the queue's lock; its notify_one comes later.   *)
Steer ==
  /\ Accept
  /\ steering' = Append(steering, NewMessage)
  /\ unsignalled' = unsignalled \cup {NewMessage}
  /\ UNCHANGED <<followUp, withdrawn>>
  /\ KeepButQueues

FollowUp ==
  /\ Accept
  /\ followUp' = Append(followUp, NewMessage)
  /\ unsignalled' = unsignalled \cup {NewMessage}
  /\ UNCHANGED <<steering, withdrawn>>
  /\ KeepButQueues

MessageQueued(m) ==
  /\ m \in unsignalled
  /\ unsignalled' = unsignalled \ {m}
  /\ NotifyOne
  /\ UNCHANGED <<settled, accepted, steering, followUp, withdrawn, slotVars, callerVars,
                 loopVars, taskVars>>

(* pop_last_*: the newest queued message; clear_*: all of them (first = 1).  *)
WithdrawSteering(first) ==
  /\ steering # <<>>
  /\ withdrawn' = withdrawn \cup {steering[i] : i \in first..Len(steering)}
  /\ steering' = SubSeq(steering, 1, first - 1)
  /\ UNCHANGED <<accepted, followUp, unsignalled>>
  /\ KeepButQueues

WithdrawFollowUp(first) ==
  /\ followUp # <<>>
  /\ withdrawn' = withdrawn \cup {followUp[i] : i \in first..Len(followUp)}
  /\ followUp' = SubSeq(followUp, 1, first - 1)
  /\ UNCHANGED <<accepted, steering, unsignalled>>
  /\ KeepButQueues

Abort ==
  /\ active # NoCaller
  /\ ~aborted
  /\ aborted' = TRUE
  /\ UNCHANGED <<active, streaming, skipPoll, queueVars, notifyVars, callerVars,
                 loopVars, taskVars>>

-----------------------------------------------------------------------------
(* The callers.  begin_run takes the slot under the active lock and only    *)
(* then, with the lock released, marks the state as streaming.              *)

Move(c, from, to) == caller[c] = from /\ caller' = [caller EXCEPT ![c] = to]

\* Mutation of ClaimSlot: the slot is taken without looking whether it is free.
ClaimHeldSlot(c, skip) ==
  /\ active' = c
  /\ aborted' = FALSE
  /\ skipPoll' = skip

ClaimSlot(c, skip) ==
  /\ active = NoCaller
  /\ active' = c
  /\ aborted' = FALSE
  /\ skipPoll' = skip

Prompt(c) ==
  /\ Move(c, "rest", "claimed")
  /\ Accept
  /\ ClaimSlot(c, FALSE)
  /\ held' = [held EXCEPT ![c] = <<NewMessage>>]
  /\ UNCHANGED <<streaming, steering, followUp, unsignalled, withdrawn, notifyVars,
                 dropped, loopVars, taskVars>>

(* begin_run's second half, then the start of the run: prompts are emitted   *)
(* and join the transcript before the loop polls anything.  A continue()     *)
(* that brings none fails when another run has answered in the meantime      *)
(* (check_continuable), with an assistant message nobody retries.            *)
StartRun(c) ==
  LET answered == held[c] = <<>> /\ lastRole \in {"assistant", "error"}
  IN /\ Move(c, "claimed", "running")
     /\ streaming' = TRUE
     /\ transcript' = transcript \o held[c]
     /\ held' = [held EXCEPT ![c] = <<>>]
     /\ lastRole' = IF answered THEN "assistant" ELSE "user"
     /\ run' = IF answered THEN "ended" ELSE "start"
     /\ more' = TRUE
     /\ UNCHANGED <<active, aborted, skipPoll, queueVars, notifyVars, dropped, pending,
                    taskVars>>

(* continue_agent: wait_for_idle (enable, test the slot, sleep), then        *)
(* continue().                                                               *)
WantContinue(c) ==
  /\ Move(c, "rest", "waiting")
  /\ lastRole # "none"
  /\ KeepButCallers

EnableIdle(c) ==
  /\ Move(c, "waiting", "registered")
  /\ KeepButCallers

TestIdle(c) ==
  /\ Move(c, "registered", IF active = NoCaller THEN "idle" ELSE "parked")
  /\ KeepButCallers

WokenIdle(c) ==
  /\ Move(c, "notified", "waiting")
  /\ KeepButCallers

ContinueTestSlot(c) ==
  /\ Move(c, "idle", IF active = NoCaller THEN "checked" ELSE "rest")
  /\ KeepButCallers

ContinueReadRole(c) ==
  /\ Move(c, "checked", IF lastRole \in {"assistant", "error"} THEN "draining"
                        ELSE "resuming")
  /\ KeepButCallers

DrainSteering(c) ==
  /\ steering # <<>>
  /\ Move(c, "draining", "drainedSteering")
  /\ held' = [held EXCEPT ![c] = Taken(steering, SteeringMode)]
  /\ steering' = Left(steering, SteeringMode)
  /\ UNCHANGED followUp

DrainFollowUp(c) ==
  /\ steering = <<>>
  /\ followUp # <<>>
  /\ Move(c, "draining", "drainedFollowUp")
  /\ held' = [held EXCEPT ![c] = Taken(followUp, FollowUpMode)]
  /\ followUp' = Left(followUp, FollowUpMode)
  /\ UNCHANGED steering

NothingToContinue(c) ==
  /\ steering = <<>> /\ followUp = <<>>
  /\ Move(c, "draining", "rest")
  /\ UNCHANGED <<held, steering, followUp>>

ContinueDrain(c) ==
  /\ DrainSteering(c) \/ DrainFollowUp(c) \/ NothingToContinue(c)
  /\ UNCHANGED <<accepted, unsignalled, withdrawn, slotVars, notifyVars, dropped, loopVars,
                 taskVars>>

(* begin_run(BUSY)? after the drain: a lost race returns the error and the   *)
(* drained messages go with it.                                              *)
ContinueBegin(c) ==
  /\ \/ Move(c, "drainedSteering", "claimed") /\ ClaimSlot(c, TRUE)
     \/ Move(c, "drainedFollowUp", "claimed") /\ ClaimSlot(c, FALSE)
     \/ Move(c, "resuming", "claimed") /\ ClaimSlot(c, FALSE)
  /\ UNCHANGED <<streaming, queueVars, notifyVars, held, dropped, loopVars, taskVars>>

ContinueBusy(c) ==
  /\ active # NoCaller
  /\ \E from \in {"drainedSteering", "drainedFollowUp", "resuming"} : Move(c, from, "rest")
  /\ dropped' = dropped \cup Elements(held[c])
  /\ held' = [held EXCEPT ![c] = <<>>]
  /\ UNCHANGED <<slotVars, queueVars, notifyVars, loopVars, taskVars>>

(* Retry and compaction take a failed assistant message off the transcript   *)
(* before they continue.                                                     *)
DropFailedMessage ==
  /\ lastRole = "error"
  /\ run \in {"none", "ended"}
  /\ lastRole' = "user"
  /\ UNCHANGED <<run, more, pending, transcript>>
  /\ KeepButLoop

-----------------------------------------------------------------------------
(* The run loop.                                                            *)

Goto(from, to) == run = from /\ run' = to

(* collect_pending_messages: settled results first, then steering.  The two *)
(* drains touch different locks and only add to what later polls find, so   *)
(* they are one step.                                                       *)
Collect(pollSteering) ==
  LET steer == IF pollSteering THEN Taken(steering, SteeringMode) ELSE <<>>
  IN /\ pending' = results \o steer
     /\ results' = <<>>
     /\ steering' = IF pollSteering THEN Left(steering, SteeringMode) ELSE steering

AfterPoll(from, idle) == Goto(from, IF more \/ pending' # <<>> THEN "turn" ELSE idle)

LoopStart ==
  /\ Goto("start", "turn")
  /\ Collect(~skipPoll)
  /\ skipPoll' = FALSE
  /\ UNCHANGED <<followUp, more>>
  /\ KeepButPolled

(* The turn starts: pending messages are announced and join the transcript. *)
(* A request sent with an aborted signal can only end aborted.              *)
BeginTurn ==
  /\ Goto("turn", IF aborted THEN "doomedStream" ELSE "stream")
  /\ transcript' = transcript \o pending
  /\ lastRole' = IF pending # <<>> THEN "user" ELSE lastRole
  /\ pending' = <<>>
  /\ UNCHANGED more
  /\ KeepButLoop

(* The response ends with error or aborted, or a hook or the stream fails:  *)
(* the run ends (finish() writes the failure message of a failed run).      *)
StreamFails ==
  /\ Goto("stream", "ended") \/ Goto("doomedStream", "ended")
  /\ lastRole' = "error"
  /\ UNCHANGED <<more, pending, transcript>>
  /\ KeepButLoop

StreamStops ==
  /\ Goto("stream", "turnEnd")
  /\ more' = FALSE
  /\ lastRole' = "assistant"
  /\ UNCHANGED <<pending, transcript>>
  /\ KeepButLoop

StreamCallsTools ==
  /\ Goto("stream", "tools")
  /\ lastRole' = "assistant"
  /\ UNCHANGED <<more, pending, transcript>>
  /\ KeepButLoop

(* dispatch_background_tool_calls: one call of the message is prepared and  *)
(* spawned; after an abort the rest are answered without running.           *)
Dispatch(t) ==
  /\ run = "tools"
  /\ ~aborted
  /\ task[t] = "new"
  /\ task' = [task EXCEPT ![t] = "running"]
  /\ inflight' = inflight + 1
  /\ UNCHANGED <<settled, results>>
  /\ KeepButTasks

(* The foreground batch is over (ToolBatch models it): more unless every    *)
(* foreground result asked to terminate.                                    *)
ToolsDone ==
  /\ Goto("tools", "turnEnd")
  /\ more' \in BOOLEAN
  /\ lastRole' = "user"
  /\ UNCHANGED <<pending, transcript>>
  /\ KeepButLoop

(* prepare_next_turn may fail the run; else the next messages are polled.   *)
EndTurn ==
  /\ Collect(TRUE)
  /\ AfterPoll("turnEnd", "count")
  /\ UNCHANGED <<followUp, more, skipPoll>>
  /\ KeepButPolled

PrepareNextTurnFails ==
  /\ Goto("turnEnd", "ended")
  /\ lastRole' = "error"
  /\ UNCHANGED <<more, pending, transcript>>
  /\ KeepButLoop

(* has_work() of the loop's condition: the counter, then the results.       *)
\* Mutation of HasWorkCount: the counter alone decides whether work is left.
HasWorkCountOnly ==
  /\ Goto("count", IF inflight > 0 THEN "arm" ELSE "outer")
  /\ UNCHANGED notifyVars
  /\ KeepButNotify

HasWorkCount ==
  /\ Goto("count", IF inflight > 0 THEN "arm" ELSE "results")
  /\ UNCHANGED notifyVars
  /\ KeepButNotify

HasWorkResults ==
  /\ Goto("results", IF results # <<>> THEN "arm" ELSE "outer")
  /\ UNCHANGED notifyVars
  /\ KeepButNotify

(* wait_for_background_or_message: queued.enable() registers the waiter or  *)
(* consumes the permit; then select! polls its two branches in any order.   *)
\* Mutation of Arm: the queued future is created but not enabled.
ArmWithoutEnable ==
  /\ Goto("arm", "select")
  /\ queued' = "registered"
  /\ UNCHANGED <<permit, settled>>
  /\ KeepButNotify

Arm ==
  /\ Goto("arm", "select")
  /\ queued' = IF permit THEN "done" ELSE "registered"
  /\ permit' = FALSE
  /\ UNCHANGED settled
  /\ KeepButNotify

SelectQueued ==
  /\ run \in {"select", "asleep"}
  /\ queued \in {"done", "notified"}
  /\ run' = "woken"
  /\ queued' = "none" /\ settled' = "none"
  /\ UNCHANGED permit
  /\ KeepButNotify

(* wait_for_next, first poll: register on settled, then look at the results *)
(* and at the counter.                                                      *)
\* Mutation of SelectBackground: the waiter is registered only once it sleeps.
SelectBackgroundUnregistered ==
  /\ Goto("select", "bgResults")
  /\ settled' = "none"
  /\ UNCHANGED <<permit, queued>>
  /\ KeepButNotify

SelectBackground ==
  /\ Goto("select", "bgResults")
  /\ settled' = "registered"
  /\ UNCHANGED <<permit, queued>>
  /\ KeepButNotify

WakeByBackground(from) ==
  /\ Goto(from, "woken")
  /\ DropQueuedFuture
  /\ settled' = "none"

BackgroundResults ==
  /\ IF results # <<>>
     THEN WakeByBackground("bgResults")
     ELSE Goto("bgResults", "bgCount") /\ UNCHANGED notifyVars
  /\ KeepButNotify

BackgroundCount ==
  /\ IF inflight = 0
     THEN WakeByBackground("bgCount")
     ELSE Goto("bgCount", "asleep") /\ UNCHANGED notifyVars
  /\ KeepButNotify

WakeBySettled ==
  /\ settled = "notified"
  /\ WakeByBackground("asleep")
  /\ KeepButNotify

AfterWait ==
  /\ Collect(TRUE)
  /\ AfterPoll("woken", "pollFollowUp")
  /\ UNCHANGED <<followUp, more, skipPoll>>
  /\ KeepButPolled

(* get_follow_up_messages, after an empty collect and before the loop would *)
(* stop.                                                                    *)
TakeFollowUps ==
  /\ pending' = Taken(followUp, FollowUpMode)
  /\ followUp' = Left(followUp, FollowUpMode)

\* Mutation of PollFollowUps: the messages an outer poll takes are not injected.
PollFollowUpsForgetful ==
  /\ TakeFollowUps
  /\ Goto("pollFollowUp", "count")
  /\ UNCHANGED <<steering, more, results, skipPoll>>
  /\ KeepButPolled

PollFollowUps ==
  /\ TakeFollowUps
  /\ AfterPoll("pollFollowUp", "count")
  /\ UNCHANGED <<steering, more, results, skipPoll>>
  /\ KeepButPolled

OuterFollowUps ==
  /\ TakeFollowUps
  /\ Goto("outer", IF pending' # <<>> THEN "turn" ELSE "ended")
  /\ more' = (pending' # <<>>)
  /\ UNCHANGED <<steering, results, skipPoll>>
  /\ KeepButPolled

(* finish(): the state and the slot are cleared together, then the waiters  *)
(* on idle are notified.                                                    *)
FinishAs(c, next) ==
  /\ Goto("ended", "none")
  /\ Move(c, "running", next)
  /\ streaming' = FALSE
  /\ active' = NoCaller /\ aborted' = FALSE
  /\ skipPoll' = FALSE /\ more' = FALSE
  /\ UNCHANGED <<pending, transcript, lastRole, queueVars, notifyVars, held, dropped,
                 taskVars>>

\* Mutation of Finish: nobody who waits for the idle agent is told.
FinishSilently(c) == FinishAs(c, "rest")

Finish(c) == FinishAs(c, "finishing")

NotifyIdle(c) ==
  /\ caller[c] = "finishing"
  /\ caller' = [d \in Callers |->
                 IF d = c THEN "rest"
                 ELSE IF caller[d] \in {"registered", "parked"} THEN "notified"
                 ELSE caller[d]]
  /\ KeepButCallers

-----------------------------------------------------------------------------
(* A background task: the tool returns and its result is stored, then the   *)
(* task is counted down, then the sleeping loop is notified.                *)

Advance(t, from, to) == task[t] = from /\ task' = [task EXCEPT ![t] = to]

PushResult(t) ==
  /\ Advance(t, "running", "pushed")
  /\ results' = Append(results, t)
  /\ UNCHANGED <<settled, inflight>>
  /\ KeepButTasks

CountDown(t) ==
  /\ Advance(t, "pushed", "counted")
  /\ inflight' = inflight - 1
  /\ UNCHANGED <<settled, results>>
  /\ KeepButTasks

NotifySettled(t) ==
  /\ Advance(t, "counted", "settled")
  /\ settled' = IF settled = "registered" THEN "notified" ELSE settled
  /\ UNCHANGED <<inflight, results>>
  /\ KeepButTasks

-----------------------------------------------------------------------------
UserStep ==
  \/ Steer \/ FollowUp
  \/ WithdrawSteering(1) \/ WithdrawSteering(Len(steering))
  \/ WithdrawFollowUp(1) \/ WithdrawFollowUp(Len(followUp))
  \/ Abort \/ DropFailedMessage

CallerStep(c) ==
  \/ StartRun(c) \/ EnableIdle(c) \/ TestIdle(c) \/ WokenIdle(c)
  \/ ContinueTestSlot(c) \/ ContinueReadRole(c) \/ ContinueDrain(c)
  \/ ContinueBegin(c) \/ ContinueBusy(c) \/ Finish(c) \/ NotifyIdle(c)

LoopStep ==
  \/ LoopStart \/ BeginTurn \/ StreamFails \/ StreamStops \/ StreamCallsTools
  \/ ToolsDone \/ EndTurn \/ PrepareNextTurnFails
  \/ HasWorkCount \/ HasWorkResults
  \/ Arm \/ SelectQueued \/ SelectBackground \/ BackgroundResults \/ BackgroundCount
  \/ WakeBySettled \/ AfterWait \/ PollFollowUps \/ OuterFollowUps

TaskStep(t) == PushResult(t) \/ CountDown(t) \/ NotifySettled(t)

Next ==
  \/ UserStep
  \/ LoopStep
  \/ \E m \in MessageIds : MessageQueued(m)
  \/ \E c \in Callers : Prompt(c) \/ WantContinue(c) \/ CallerStep(c)
  \/ \E t \in Tasks : Dispatch(t) \/ TaskStep(t)

Spec == Init /\ [][Next]_vars

(* The runtime keeps polling ready futures and scheduled tasks, a response   *)
(* stream ends, and a push is followed by its notify.  Nothing is assumed of *)
(* the user, nor of how long a background tool runs (PushResult).            *)
Fairness ==
  /\ WF_vars(LoopStep)
  /\ \A c \in Callers : WF_vars(CallerStep(c))
  /\ WF_vars(\E m \in MessageIds : MessageQueued(m))
  /\ \A t \in Tasks : WF_vars(CountDown(t) \/ NotifySettled(t))

LiveSpec == Spec /\ Fairness

-----------------------------------------------------------------------------
TypeOK ==
  /\ active \in Callers \cup {NoCaller}
  /\ streaming \in BOOLEAN /\ aborted \in BOOLEAN /\ skipPoll \in BOOLEAN
  /\ accepted \in 0..MaxMessages
  /\ steering \in Seq(MessageIds) /\ followUp \in Seq(MessageIds)
  /\ unsignalled \subseteq MessageIds /\ withdrawn \subseteq MessageIds
  /\ permit \in BOOLEAN
  /\ queued \in {"none", "registered", "notified", "done"}
  /\ settled \in {"none", "registered", "notified"}
  /\ caller \in [Callers -> CallerStates]
  /\ held \in [Callers -> Seq(MessageIds)]
  /\ dropped \subseteq MessageIds
  /\ run \in RunStates /\ more \in BOOLEAN
  /\ pending \in Seq(Items) /\ transcript \in Seq(Items)
  /\ lastRole \in {"none", "user", "assistant", "error"}
  /\ task \in [Tasks -> {"new", "running", "pushed", "counted", "settled"}]
  /\ inflight \in Nat
  /\ results \in Seq(Tasks)

(* begin_run and finish: a caller that took the slot holds it until its run  *)
(* has finished, so two runs never overlap, and an empty slot means no loop  *)
(* is running and nobody sees the state as streaming.                        *)
OneRunAtATime ==
  /\ \A c \in Callers : caller[c] \in {"claimed", "running"} => active = c
  /\ (\E c \in Callers : caller[c] = "running") <=> run # "none"
  /\ streaming <=> run # "none"

(* wait_for_idle: whoever sleeps there will be notified, by the run that     *)
(* holds the slot or by the one that has just released it.                   *)
IdleWaiterHasWaker ==
  \A c \in Callers :
    caller[c] = "parked" => active # NoCaller \/ \E d \in Callers : caller[d] = "finishing"

Occurrences(x, q) == Cardinality({i \in DOMAIN q : q[i] = x})
InSet(x, S) == IF x \in S THEN 1 ELSE 0

OnePlaceForMessage(m) ==
  LET holders == {c \in Callers : Occurrences(m, held[c]) > 0}
  IN /\ Occurrences(m, steering) + Occurrences(m, followUp) + Occurrences(m, pending)
        + Occurrences(m, transcript) + Cardinality(holders)
        + InSet(m, withdrawn) + InSet(m, dropped) = 1
     /\ \A c \in holders : Occurrences(m, held[c]) = 1

OnePlaceForResult(t) ==
  Occurrences(t, results) + Occurrences(t, pending) + Occurrences(t, transcript)
    = IF task[t] \in {"new", "running"} THEN 0 ELSE 1

(* A message handed to the agent is in exactly one place at any time: a      *)
(* queue, a caller's hands, the next turn's messages, the transcript, or it  *)
(* was withdrawn by the user or dropped with a continue() that lost the slot.*)
(* A background result is collected once: never lost, never injected twice.  *)
MessagesAccounted ==
  /\ \A m \in Accepted : OnePlaceForMessage(m)
  /\ \A t \in Tasks : OnePlaceForResult(t)

(* The loop stops by itself only when every spawned task has settled and its *)
(* result was collected: has_work() reads the counter before the results, in *)
(* the opposite order to the task's push and count-down.                     *)
StopsOnlyWithoutWork ==
  run = "outer" => /\ results = <<>>
                   /\ \A t \in Tasks : task[t] \notin {"running", "pushed"}

(* Steering waits for the turn in progress, never for a background task:     *)
(* while the run lives the queue is emptied (the user's messages are finitely *)
(* many, so a queue that is never refilled for ever).                        *)
SteeringTaken ==
  steering # <<>> /\ active # NoCaller ~> steering = <<>> \/ active = NoCaller

(* An aborted run ends once no background tool is still running.             *)
AbortEndsRun ==
  aborted /\ active # NoCaller /\ (\A t \in Tasks : task[t] # "running")
    ~> active = NoCaller
=============================================================================
