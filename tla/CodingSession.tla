----------------------------- MODULE CodingSession -----------------------------
(***************************************************************************)
(* hoocode-code-agent-session: what follows a run of the agent.  The run's *)
(* agent_end starts a tail (after_agent_end) that switches a refused model,*)
(* retries a transient error after a backoff, or compacts the transcript;  *)
(* each of these may continue the agent later, when it is idle again.      *)
(* prompt() waits for the retry, abort() cancels it, and requests of RPC   *)
(* and app-server clients arrive at any point of it.                       *)
(*                                                                         *)
(* A run is one step per reply; the loop inside it is module AgentLoop's.  *)
(* Of the transcript the kind of its last message is kept, and of the      *)
(* session log, which keeps the errors the transcript drops, the same.     *)
(***************************************************************************)
EXTENDS Naturals, FiniteSets

CONSTANTS Requests,    \* calls of prompt()
          Queuing,     \* those with a streaming_behavior
          NoRequest,
          MaxRetries,  \* retry_settings().max_retries
          Candidates,  \* models to fall back to
          MaxRuns,     \* bound on runs of the agent
          MaxAborts    \* bound on calls of abort()

ASSUME CodingSessionAssumption ==
  /\ Queuing \subseteq Requests /\ NoRequest \notin Requests
  /\ MaxRetries \in Nat /\ Candidates \in Nat /\ MaxRuns \in Nat /\ MaxAborts \in Nat

VARIABLES
  pc,          \* where each request is
  armed,       \* requests whose Notified is enabled and not notified
  slot,        \* the agent: free, live, ended (agent_end emitted, slot still held)
  runner,      \* the request that awaits the run
  runs,        \* runs so far; the last one is the agent's
  stopping,    \* the run's abort signal
  last,        \* last message of the agent's transcript
  log,         \* last message of the session log
  queue,       \* requests queued on the agent
  tail,        \* after_agent_end of each run
  reply,       \* the reply each run ended with
  pending,     \* RetryState.pending
  attempt,     \* RetryState.attempt
  signal,      \* RetryState.abort: the tail it cancels, 0 for None
  cancelled,   \* tails whose signal was aborted
  fallbacks,   \* candidates left
  tried,       \* overflow_recovery_attempted
  waiting,     \* continue_agent tasks that wait for the agent to be idle
  continuing,  \* and those that have seen it idle
  aborting,    \* abort() has cancelled the retry and not aborted the run
  aborts,      \* calls of abort() or abort_retry()
  restored     \* a compaction has put a reply back that a retry had taken off

agentVars == <<slot, runner, runs, stopping>>
messageVars == <<last, log, queue>>
retryVars == <<pending, attempt, signal, cancelled>>
taskVars == <<waiting, continuing>>
abortVars == <<aborting, aborts>>
vars == <<pc, armed, agentVars, messageVars, tail, reply, retryVars, fallbacks, tried,
          taskVars, abortVars, restored>>

Runs == 1..MaxRuns
Kinds == {"good", "transient", "refused", "overflow", "fatal", "aborted"}
Messages == {"none", "user", "good", "error"}
Stages == {"new", "window", "decide", "queue", "compact", "start", "turn",
           "enable", "look", "asleep", "settle", "ok", "queued", "refused"}

TypeOK ==
  /\ pc \in [Requests -> Stages] /\ armed \subseteq Requests
  /\ slot \in {"free", "live", "ended"}
  /\ runner \in Requests \cup {NoRequest}
  /\ \A r \in Requests : runner = r <=> pc[r] = "turn"
  /\ runs \in 0..MaxRuns /\ stopping \in BOOLEAN
  /\ last \in Messages /\ log \in Messages /\ queue \subseteq Requests
  /\ tail \in [Runs -> {"none", "begin", "backoff", "check", "compact", "done"}]
  /\ reply \in [Runs -> Kinds \cup {"none"}]
  /\ pending \in BOOLEAN /\ attempt \in 0..MaxRetries
  /\ signal \in Runs \cup {0} /\ cancelled \subseteq Runs
  /\ fallbacks \in 0..Candidates /\ tried \in BOOLEAN
  /\ waiting \in Nat /\ continuing \in Nat
  /\ aborting \in BOOLEAN /\ aborts \in 0..MaxAborts
  /\ restored \in BOOLEAN

Init ==
  /\ pc = [r \in Requests |-> "new"] /\ armed = {}
  /\ slot = "free" /\ runner = NoRequest /\ runs = 0 /\ stopping = FALSE
  /\ last = "none" /\ log = "none" /\ queue = {}
  /\ tail = [n \in Runs |-> "none"] /\ reply = [n \in Runs |-> "none"]
  /\ pending = FALSE /\ attempt = 0 /\ signal = 0 /\ cancelled = {}
  /\ fallbacks = Candidates /\ tried = FALSE
  /\ waiting = 0 /\ continuing = 0
  /\ aborting = FALSE /\ aborts = 0 /\ restored = FALSE

\* Mutation of Unheard: notify_one for notify_waiters.
UnheardButOne == {r \in armed : r # CHOOSE q \in armed : TRUE}

(* notify_waiters reaches every Notified that is enabled.                    *)
Unheard == {}

(* resolve_retry: release whoever waits for the retry.                       *)
Resolve ==
  /\ pending' = FALSE
  /\ armed' = IF pending THEN Unheard ELSE armed

(* Take an assistant message off the end of the transcript.                  *)
Popped(message) == IF message \in {"good", "error"} THEN "user" ELSE message

-----------------------------------------------------------------------------
(* The agent.                                                                *)

BeginRun(who) ==
  /\ slot = "free" /\ runs < MaxRuns
  /\ slot' = "live"
  /\ runner' = who
  /\ runs' = runs + 1
  /\ stopping' = FALSE

(* A user message starts: overflow recovery may be tried again.              *)
UserMessage ==
  /\ last' = "user" /\ log' = "user"
  /\ tried' = FALSE

(* The loop polls its queues.                                                *)
TakeQueued(r) ==
  /\ slot = "live" /\ r \in queue
  /\ queue' = queue \ {r}
  /\ UserMessage
  /\ UNCHANGED <<pc, armed, agentVars, tail, reply, retryVars, fallbacks, taskVars, abortVars,
                 restored>>

(* Timing: a reply takes longer than the scheduler takes to run a task that  *)
(* is ready.  The first steps of a tail do not wait for anything.            *)
TailsScheduled == \A n \in Runs : tail[n] # "begin"

(* A reply that asks for tools, and their results.                           *)
ReplyGoesOn ==
  /\ slot = "live" /\ TailsScheduled
  /\ last' = "user" /\ log' = "user"
  /\ attempt' = 0 /\ tried' = FALSE /\ fallbacks' = 0
  /\ UNCHANGED <<pc, armed, agentVars, queue, tail, reply, pending, signal, cancelled, taskVars,
                 abortVars, restored>>

\* Mutation of Armed: the retry is armed by the tail, not at agent_end.
ArmedLater(kind) == FALSE

(* Whether agent_end arms the retry (arm_retry_for_agent_end).               *)
Armed(kind) == (kind = "transient" /\ MaxRetries > 0) \/ (kind = "refused" /\ fallbacks > 0)

RunEnds(kind) ==
  LET good == kind \in {"good", "aborted"}   \* no error
  IN /\ slot = "live" /\ TailsScheduled
     /\ kind = "aborted" => stopping
     /\ slot' = "ended"
     /\ last' = (IF good THEN "good" ELSE "error") /\ log' = last'
     /\ attempt' = IF good THEN 0 ELSE attempt
     /\ tried' = (tried /\ ~good)
     /\ fallbacks' = IF kind = "good" THEN 0 ELSE fallbacks
     /\ pending' = (pending \/ Armed(kind))
     /\ tail' = [tail EXCEPT ![runs] = "begin"]
     /\ reply' = [reply EXCEPT ![runs] = kind]
     /\ UNCHANGED <<pc, armed, runner, runs, stopping, queue, signal, cancelled,
                    taskVars, abortVars, restored>>

Release ==
  /\ slot = "ended"
  /\ slot' = "free" /\ runner' = NoRequest /\ stopping' = FALSE
  /\ pc' = IF runner = NoRequest THEN pc ELSE [pc EXCEPT ![runner] = "enable"]
  /\ UNCHANGED <<armed, runs, messageVars, tail, reply, retryVars, fallbacks, tried,
                 taskVars, abortVars, restored>>

-----------------------------------------------------------------------------
(* prompt().                                                                 *)

Goto(r, stage) == pc' = [pc EXCEPT ![r] = stage]

requestRest == <<agentVars, log, tail, reply, retryVars, fallbacks, continuing, abortVars>>

Moves(r, stage) ==
  /\ Goto(r, stage)
  /\ UNCHANGED <<requestRest, armed, last, queue, tried, waiting, restored>>

Ask(r) ==
  /\ pc[r] = "new"
  /\ Moves(r, IF r \notin Queuing /\ slot = "ended" THEN "window" ELSE "decide")

(* It waits until the run that has ended releases its slot, or 5 s.          *)
WindowOver(r) ==
  /\ pc[r] = "window"
  /\ Moves(r, "decide")

(* The slot is read here, and acted on later.                                *)
Decide(r) ==
  /\ pc[r] = "decide"
  /\ \/ slot # "free" /\ Moves(r, IF r \in Queuing THEN "queue" ELSE "refused")
     \/ slot = "free" /\ Moves(r, "start")
     \/ slot = "free" /\ last # "none" /\ Moves(r, "compact")

Queue(r) ==
  /\ pc[r] = "queue"
  /\ queue' = queue \cup {r}
  /\ Goto(r, "queued")
  /\ UNCHANGED <<requestRest, armed, last, tried, waiting, restored>>

(* continue_agent: a task that will wait for the agent to be idle.           *)
Continue == waiting' = waiting + 1

(* apply_compaction reads the transcript back from the log.                  *)
ReadBack(message) ==
  /\ last' = message
  /\ restored' = (restored \/ ((pending \/ attempt > 0) /\ last = "user" /\ message # "user"))

(* A threshold compaction; messages that were queued meanwhile are delivered.*)
Compact ==
  \/ ReadBack(log) /\ (IF queue = {} THEN UNCHANGED waiting ELSE Continue)
  \/ UNCHANGED <<last, restored, waiting>>   \* failed or cancelled

PromptCompacts(r) ==
  /\ pc[r] = "compact"
  /\ Goto(r, "start")
  /\ Compact
  /\ UNCHANGED <<requestRest, armed, queue, tried>>

Start(r) ==
  /\ pc[r] = "start"
  /\ BeginRun(r) /\ UserMessage
  /\ Goto(r, "turn")
  /\ UNCHANGED <<armed, queue, tail, reply, retryVars, fallbacks, taskVars, abortVars, restored>>

StartRefused(r) ==
  /\ pc[r] = "start" /\ slot # "free"
  /\ Moves(r, "refused")

(* wait_for_retry.  A Notified is enabled before pending is looked at.       *)
Enable(r) ==
  /\ pc[r] = "enable"
  /\ armed' = armed \cup {r}
  /\ Goto(r, "look")
  /\ UNCHANGED <<requestRest, last, queue, tried, waiting, restored>>

Look(r) ==
  /\ pc[r] = "look"
  /\ Moves(r, IF pending THEN "asleep" ELSE "settle")

WakeUp(r) ==
  /\ pc[r] = "asleep" /\ r \notin armed
  /\ Moves(r, "enable")

Settle(r) ==
  /\ pc[r] = "settle" /\ slot = "free"
  /\ Moves(r, "ok")

-----------------------------------------------------------------------------
(* after_agent_end of run n.                                                 *)

tailRest == <<pc, agentVars, log, queue, continuing, abortVars>>

GotoTail(n, stage) ==
  /\ tail' = [tail EXCEPT ![n] = stage]
  /\ reply' = IF stage = "done" THEN [reply EXCEPT ![n] = "none"] ELSE reply

(* try_model_fallback.                                                       *)
FallBack(n) ==
  /\ tail[n] = "begin" /\ reply[n] = "refused" /\ fallbacks > 0
  /\ fallbacks' = fallbacks - 1
  /\ pending' = TRUE /\ attempt' = 0
  /\ last' = Popped(last)
  /\ Continue
  /\ GotoTail(n, "done")
  /\ UNCHANGED <<tailRest, armed, signal, cancelled, tried, restored>>

Retries(n) == reply[n] = "transient" /\ attempt < MaxRetries

(* handle_retryable_error: back off.                                         *)
BackOff(n) ==
  /\ tail[n] = "begin" /\ Retries(n)
  /\ pending' = TRUE /\ attempt' = attempt + 1
  /\ signal' = n
  /\ last' = Popped(last)
  /\ GotoTail(n, "backoff")
  /\ UNCHANGED <<tailRest, armed, cancelled, fallbacks, tried, waiting, restored>>

GivenUp == Resolve

(* Nothing to retry, or no retry left: the streak is over.                   *)
NoRetry(n) ==
  /\ tail[n] = "begin" /\ ~Retries(n)
  /\ ~(reply[n] = "refused" /\ fallbacks > 0)
  /\ attempt' = 0
  /\ GivenUp
  /\ GotoTail(n, "check")
  /\ UNCHANGED <<tailRest, last, signal, cancelled, fallbacks, tried, waiting, restored>>

Slept(n) ==
  /\ tail[n] = "backoff"
  /\ signal' = 0 /\ cancelled' = cancelled \ {n}
  /\ Continue
  /\ GotoTail(n, "done")
  /\ UNCHANGED <<tailRest, armed, last, pending, attempt, fallbacks, tried, restored>>

\* Mutation of AttemptAfterCancel: the streak is not over with its retry.
AttemptAfterCancelKept == attempt

AttemptAfterCancel == 0

CancelledSleep(n) ==
  /\ tail[n] = "backoff" /\ n \in cancelled
  /\ signal' = 0 /\ cancelled' = cancelled \ {n}
  /\ attempt' = AttemptAfterCancel
  /\ Resolve
  /\ GotoTail(n, "check")
  /\ UNCHANGED <<tailRest, last, fallbacks, tried, waiting, restored>>

(* check_compaction: overflow is recovered from once.                        *)
Overflowed(n) == reply[n] = "overflow"

CheckCompaction(n) ==
  /\ tail[n] = "check"
  /\ \/ /\ GotoTail(n, "done")
        /\ UNCHANGED <<last, tried>>
     \/ /\ Overflowed(n) /\ ~tried
        /\ tried' = TRUE
        /\ last' = Popped(last)
        /\ GotoTail(n, "compact")
     \/ /\ ~Overflowed(n) /\ reply[n] # "aborted"   \* past the threshold
        /\ GotoTail(n, "compact")
        /\ UNCHANGED <<last, tried>>
  /\ UNCHANGED <<tailRest, armed, retryVars, fallbacks, waiting, restored>>

Compacted(n) ==
  /\ tail[n] = "compact"
  /\ GotoTail(n, "done")
  /\ \/ ~Overflowed(n) /\ Compact
     \/ Overflowed(n) /\ ReadBack(IF log = "error" THEN "user" ELSE log) /\ Continue
     \/ Overflowed(n) /\ UNCHANGED <<last, restored, waiting>>   \* failed or cancelled
  /\ UNCHANGED <<tailRest, armed, retryVars, fallbacks, tried>>

-----------------------------------------------------------------------------
(* The tasks of continue_agent, and Agent::continue.                         *)

SeeIdle ==
  /\ waiting > 0 /\ slot = "free"
  /\ waiting' = waiting - 1 /\ continuing' = continuing + 1
  /\ UNCHANGED <<pc, armed, agentVars, messageVars, tail, reply, retryVars, fallbacks, tried,
                 abortVars, restored>>

continueRest == <<pc, armed, tail, reply, retryVars, fallbacks, waiting, abortVars, restored>>

ContinueRun ==
  /\ continuing > 0 /\ continuing' = continuing - 1
  /\ last = "user"
  /\ BeginRun(NoRequest)
  /\ UNCHANGED <<continueRest, messageVars, tried>>

ContinueQueued(r) ==
  /\ continuing > 0 /\ continuing' = continuing - 1
  /\ last \in {"good", "error"} /\ r \in queue
  /\ queue' = queue \ {r}
  /\ BeginRun(NoRequest) /\ UserMessage
  /\ UNCHANGED continueRest

ContinueFails ==
  /\ continuing > 0 /\ continuing' = continuing - 1
  /\ slot # "free" \/ last = "none" \/ (last # "user" /\ queue = {})
  /\ UNCHANGED <<continueRest, agentVars, messageVars, tried>>

-----------------------------------------------------------------------------
(* abort() cancels the retry, then aborts the run there is by then; its wait *)
(* for idle changes nothing.  abort_retry() alone is the first half.  With   *)
(* no retry and no run they change nothing.                                  *)

AbortRetry(thenRun) ==
  /\ ~aborting /\ aborts < MaxAborts
  /\ pending \/ slot # "free"
  /\ aborts' = aborts + 1 /\ aborting' = thenRun
  /\ cancelled' = cancelled \cup ({signal} \ {0})
  /\ Resolve
  /\ UNCHANGED <<pc, agentVars, messageVars, tail, reply, attempt, signal, fallbacks, tried,
                 taskVars, restored>>

AbortRun ==
  /\ aborting /\ aborting' = FALSE
  /\ stopping' = (slot # "free")
  /\ UNCHANGED <<pc, armed, slot, runner, runs, messageVars, tail, reply, retryVars, fallbacks,
                 tried, taskVars, aborts, restored>>

-----------------------------------------------------------------------------
RequestStep(r) ==
  \/ WindowOver(r) \/ Decide(r) \/ Queue(r) \/ PromptCompacts(r)
  \/ Start(r) \/ StartRefused(r)
  \/ Enable(r) \/ Look(r) \/ WakeUp(r) \/ Settle(r)

TailStep(n) ==
  \/ FallBack(n) \/ BackOff(n) \/ NoRetry(n) \/ Slept(n) \/ CancelledSleep(n)
  \/ CheckCompaction(n) \/ Compacted(n)

ContinueStep == SeeIdle \/ ContinueRun \/ ContinueFails \/ \E r \in Requests : ContinueQueued(r)

RunStep == Release \/ \E kind \in Kinds : RunEnds(kind)

Next ==
  \/ \E r \in Requests : Ask(r) \/ RequestStep(r) \/ TakeQueued(r)
  \/ ReplyGoesOn \/ RunStep
  \/ \E n \in Runs : TailStep(n)
  \/ ContinueStep
  \/ \E thenRun \in BOOLEAN : AbortRetry(thenRun)
  \/ AbortRun

Spec == Init /\ [][Next]_vars

(* Tasks run on, a run ends, and a backoff or a compaction is over.          *)
LiveSpec ==
  /\ Spec
  /\ \A r \in Requests : WF_vars(RequestStep(r))
  /\ \A n \in Runs : WF_vars(TailStep(n))
  /\ WF_vars(ContinueStep) /\ WF_vars(RunStep)

-----------------------------------------------------------------------------
(* The tail of run n backs off, or will as it starts to (or falls back to    *)
(* another model).                                                           *)
Retrying(n) ==
  \/ tail[n] = "backoff"
  \/ tail[n] = "begin" /\ (Retries(n) \/ (reply[n] = "refused" /\ fallbacks > 0))

(* No later run has ended.                                                   *)
LastEnded(n) == \A m \in Runs : m > n => tail[m] = "none"

(* A prompt does not miss a retry: it is armed as the agent ends             *)
(* (retry.rs:63-65), though the tail comes later.  Only an abort or the end  *)
(* of a later run may release those who wait for it.                         *)
RetryNotMissed ==
  [][\A r \in Requests :
       pc[r] = "look" /\ pc'[r] = "settle" /\ aborts = 0
         => \A n \in Runs : LastEnded(n) => ~Retrying(n)]_vars

(* Bound: the model allows no further run where the code would start one.    *)
OutOfRuns ==
  /\ runs = MaxRuns /\ slot = "free"
  /\ waiting + continuing > 0 \/ \E r \in Requests : pc[r] = "start"

(* prompt() returns, unless a compaction does that.                          *)
PromptReturns ==
  \A r \in Requests : pc[r] = "turn" ~> (pc[r] = "ok" \/ OutOfRuns \/ restored)

(* Every streak of retries that was announced ends.                          *)
StreakEnds == attempt > 0 ~> (attempt = 0 \/ OutOfRuns \/ restored)
=============================================================================
