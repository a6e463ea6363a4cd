# Verification of hoocode

This directory holds TLA+ models of the concurrent core of hoocode, the TLC
configurations that check them on small instances, and TLAPS proofs of the
properties that matter most for every instance. hoocode is a coding agent in
Rust: a loop sends the conversation to a model, runs the tools the model asks
for, and writes everything to session files, while the user steers, queues,
takes back and aborts from other threads.

Source paths below are relative to `src/crates/`. `PROJECT.json` maps each
definition to the lines it models and lists components, runs, mutations,
hazards, findings and theorems.

## Inventory

Core, with the state each part keeps and what makes it hard:

| Part | State | Operations | Interacts with | Hard because |
|---|---|---|---|---|
| Agent (`hoocode-agent-core`) | one run slot (`active`), `AgentState`, steering and follow-up queues, `message_queued`, `idle` | `prompt`, `continue`, `steer`, `follow_up`, take back, clear, `abort`, `wait_for_idle` | the run loop through hooks; the session layer through events | any thread calls any of them during a run; several locks and two `Notify` objects |
| Run loop (`hoocode-agent-loop`) | pending messages, `has_more_tool_calls`, background manager (counter, results, `settled`) | one turn after another; sleeping on background work | provider stream, tool batch, agent queues | wake-ups, results that settle at any time |
| Tool batch (same crate, slots in `hoocode-runtime/limits.rs`) | waiting, running, outcomes, turnstile, gate | prepare, launch, settle, cut short | tools on the blocking pool, memory watchdog, abort signal | slots and turns together, abort grace |
| Session writer (`hoocode-runtime/session_io.rs`) | bounded queue, batch, open file, error | `append_line`, `replace`, `barrier`, drop | every session of the process; the file system | backpressure, failing writes, crash, thread death |
| Session files (`hoocode-code-session`) | tree of entries, leaf, file, `flushed` | append, label, compact, navigate, fork, resume | session writer, subagent pool (run records), compaction | rewrites against appends, lost writes, compactions applied late |
| Coding session (`hoocode-code-agent-session`) | mirror queues, retry and compaction state | prompt, steer, retry, compact, abort, shutdown | agent, session files, extensions | state read before an await and used after it |
| Subagent pool and lifeguard (`hoocode-code-subagents`) | queue, starting, slots, kill reasons, pid generations | spawn, cancel, settle, retry, reap | child processes, inbox, parent's transcript | cancels at every stage, pid reuse, retries |
| Inbox, warm workers (same crate) | records, waiters, one worker | settle, prune, wait, reset, dispose | pool | cap on settled records, waits against settles |
| Scheduler (`hoocode-code-scheduler`) | task file, lock file | create, delete, claim due | other hoocode processes, idle sessions | locks that go stale or are not waited for, owners that die |
| MCP client (`hoocode-agent-mcp`) | session with generation, permits, progress routes | call, cancel, reset, shutdown | server processes | a mutex held across a start, one re-send, shutdown in between |
| Bash jobs (`hoocode-code-tool-bash`), job notices (`services.rs`) | jobs, completions, notices in flight | spawn, kill, acknowledge, hand to a model call, wake | process groups, the agent, the terminal | exit against kill, descendants, calls that fail |
| File tools (`hoocode-code-tools-fs`) | per-file ticket queues | mutate in order | tool batch (dispatch point) | removal of idle queues |
| Credentials (`hoocode-code-auth`) | stored tokens | refresh under a lock | other processes | two refreshes of one token |
| Shutdown, memory (`hoocode-runtime`) | steps with deadlines; shedding flag | run steps; observe | everything | a step that overruns |
| Compaction (`hoocode-agent-compaction`) | none | cut point, summary, context | session files | boundaries of turns and of earlier compactions |
| Task store, permissions, settings, session tree | lists and trees | sequential edits | session layer | mostly data |

Terminal UI, provider wire formats, model catalogs, plugins, resources, media
and installers are pure input and output or data conversion and are left out.

For each part, what makes it correct: the agent never runs twice at once and
never loses or repeats a message; the loop never stops with work left and never
sleeps without a waker; each tool call of a message is answered once, truthfully
and in order; a session file is the queue's lines in order and a flush tells the
truth; a subagent task is settled once and a cancel takes effect; one process
claims a due minute; a request that may have run is not sent again; a job is
reported as it ended and its notice reaches the model; a retry is neither
forgotten nor missed by who waits for it; a session read back is the session
that was written, and a compaction forgets nothing. The hazards behind each are
in `PROJECT.json`, at their lines.

## Modules

### AgentLoop: the agent and its run loop

Actors are the user's threads, the tasks that call `prompt()` or `continue()`
(`Callers`), the one run loop of the slot's holder (`run` is its program
counter) and the detached background tasks (`Tasks`). An action is the code
between two points where another thread can see or change shared state: the
push of `steer()` and its `notify_one` are two actions (`Steer`,
`MessageQueued`), and so are the two halves of `begin_run` (`ClaimSlot` in
`Prompt` and `ContinueBegin`, then `StartRun`), the enable and the test of
`wait_for_idle`, the two reads of `has_work`, and the push, count-down and
notification of a background task. `Finish` clears the state and the slot
under both locks, `NotifyIdle` follows.

The sleep of the loop is modelled as tokio defines it. `Arm` is
`queued.enable()`, which registers the waiter or consumes the stored permit.
`SelectQueued` and `SelectBackground` are the branches of `select!`, polled in
any order. `BackgroundResults` and `BackgroundCount` are the reads of
`wait_for_next` after it has registered. Dropping the other branch passes a
delivered wake-up on (`DropQueuedFuture`) but cannot give a consumed permit back.

Abstracted: message contents, the provider stream (`StreamStops`,
`StreamCallsTools`, `StreamFails` are its ends; a request sent after an abort
can only fail), the foreground batch (`ToolsDone`; ToolBatch has it), hooks and
listeners. `DropFailedMessage` is what retry and compaction do before they
continue.

### ToolBatch: the foreground tool calls of one message

`phase` is the batch's program counter, `tool` what each call does on the
blocking pool. Both execution modes, any set of `ordered_start` calls and any
switching of load shedding are in the model. `Launch` is one round of
`SlotLauncher::fill`: take the slot (and the gate while shedding), then the
turn, then start the task. `Settle` frees slot and gate before the batch sees
the result. `StopWaiting` is an empty running set or an expired grace.
`Conclude` answers what is left and builds the messages in call order. Tools
the batch stopped waiting for keep running, as in the code.

### SessionLog and SessionWriter

SessionLog is the promise of the writer: entries are settled in queue order,
none is skipped, a barrier reports the failures since the last one, and when
the writer dies everything unsettled is lost together. SessionWriter is the
code: queue, batch and gathered lines are stretches of one numbered log
(`flushed`, `cur`, `taken`), so `cur < taken` is the rest of the batch. It has
the two condition variables, the error flag's two stages (`outError`, `error`),
the handle kept open between batches, torn lines, `fs::write`'s truncation,
the thread's death (`Die`, DeathWatch) and the process's (`Crash`, then a
restart on the same files). Every write can fail whole or half way.

A file is its list of lines (numbers of the operations that wrote them), with a
flag for a torn end. Lines count one byte and a replacement `ReplaceBytes`, so
that an instance has operations that fit, fill and exceed the queue.

SessionWriter implements SessionLog under the mapping `upTo <- flushed`,
`failure <- error \/ outError` while the thread lives, `open <- life # "dead"`;
the property is `ImplementsSessionLog`.

### SubagentPool

The cold pool and, where they meet, its lifeguard. `stage[t]` is the program
counter of the code that handles task `t`: the thread inside `start_task`, then
the tokio task that waits for the child and settles. Each action is one
critical section of the pool's mutex or one effect outside it, because no
operation holds the mutex from end to end: `cancel` kills after it lets go,
`settle` removes the slot first and decides on a retry later, the lifeguard
signals (`Reap`) before it reports (`Report`). `pulls` counts the threads at the
head of `pull()`'s loop; nested calls of `pull()` are just more of them.

| Code | Actions |
|---|---|
| `spawn`, `pull` | `Spawn`, `PullStarts`, `PullReturns` |
| `start_task` | `StartTask`, `SpawnChild`, `SpawnFails`, `LookAgain`, `EnterSlot`, `Monitor`; for a task that never ran `ResolveUnstarted`, `Release` |
| the waiting task, `settle`, `settle_error` | `ChildLeft`, `LeaveSlot`, `WaitFails`, `Settle`, `Requeue`, `ResolveSettled` |
| `cancel` | `CancelQueued` and `ResolveQueued`, `CancelStarting`, `CancelRunning` and `Kill` |
| `wait_for`, `resolve_waiter` | `WaitFor`, `Resolve` |
| lifeguard | `Reap`, `Report`, `DisposeGuard` |
| `dispose` | `Dispose`, then `Kill` of each slot's child |

Abstracted: a stall and a missed deadline are one reason, `"reaped"`; what the
child left behind is two free booleans, a valid result.json and a success; the
classifier of provider errors may match any failure of a `Pinned` task; the
clock of the ageing priority is a free choice of the first queued task that has
not aged. A task is dispatched once (`begin_dispatch` makes the ids) and waited
for by its dispatcher only. A kill that is still on its way when the task has a
newer child is refused, as the pid generations make it. The wait of a child can
fail only when its tokio task is lost; the model lets that happen once the child
has left, and does not follow a child whose wait was lost earlier. The model is
of the process runner; the in-process and scripted runners have no pid to kill.

### Schedule and ScheduleStore

Schedule is the promise of store.rs's module documentation: one list shared by
processes, no operation undoes another, a due minute is handed to one process,
once. ScheduleStore is the code. Each operation (`StartCreate`, `StartDelete`,
`StartTick`) asks for the lock file (`AcquireLock`; `FindStale` and `RemoveStale`
are two steps, because `is_stale` and `remove_file` are; `GiveUp` is LOCK_WAIT
running out), reads the file (`Read`), writes the changed list (`Write`,
`WriteFails`) and removes the lock (`Return`). A create or delete that gave up
goes on without the lock, a tick does not (`MayProceed`). Processes die anywhere
(`Crash`); a lock they leave grows stale (`LockAges`).

A cron expression is the set `DueAt` of the minutes it matches. PROCESS_LOCK runs
one operation of a process at a time, so a process is one actor. Timing assumed:
a live holder keeps the lock for less than LOCK_WAIT and STALE_LOCK.

ScheduleStore implements Schedule: an id is `waiting` from `new_id` to the write,
`hand` is the claim's result before it is returned. The property is
`ImplementsSchedule`.

### ShellJobs and JobNotices

ShellJobs is the job registry with the processes behind it: the shell of a job,
one descendant that may outlive it, the job's task (`StartShell`, `SetGroup`, then
the loop `CheckFlag`, `TryWait`, then `Record` and `ForgetGroup`) and kills of one
or all jobs. A kill holds the registry's lock while it flags each entry (`Flag`)
and signals its group (`Signal`); the task reads the flag outside the lock, so the
two are steps of their own.

JobNotices extends it with what becomes of a finished job: `ForCall` is
`JobNotices::for_call` as a run calls the model, the reply is good, failed or
missing, a failed one is taken off for a retry, the transcript may be compacted,
and `Wake` is the terminal's tick. The transcript is the sequence of its replies.

### McpClient

Calls of tools and listings over one session. `slot`, `owner` and `service` are
`Inner.session`, the call that holds its mutex across the start of a server, and
the state of each generation's service. A call takes a permit, the peer
(`UsePeer`, or `StartAgain` then `StartOk` or `StartFails`), sends, adds its
progress route, waits; `SendFails` and `ConnectionLost` go through `Reset` and at
most once back. `GiveUp` is a cancel or the deadline in any wait under `bounded`.
`Run` counts how often a server ran a request. rmcp's service is external: a
queue whose requests the server may run until it ends.

### CodingSession

What follows a run. `RunEnds` is `agent_end`, where the retry is armed and the tail
spawned; the slot is released later (`Release`). `tail[n]` is the tail of run
`n`: `FallBack`, `BackOff`, `NoRetry` are the branches of `after_agent_end`, `Slept`
and `CancelledSleep` the ends of the backoff, `CheckCompaction` and `Compacted` the
rest. Each may leave a `continue_agent` task (`waiting`, then `continuing` once it
has seen the agent idle). A request is `prompt()`: `Ask` and `WindowOver` are the
bounded wait after `agent_end`, `Decide` reads the slot, `Queue`, `PromptCompacts` and
`Start` act on it later, `Enable`, `Look`, `WakeUp` and `Settle` are `wait_for_retry`.
`AbortRetry` and `AbortRun` are the two halves of `abort()`.

The loop inside a run is AgentLoop's; here it is one step per reply. Transcript
and session log are the kinds of their last messages. Assumed: the first steps of
a tail, which wait for nothing, are run before the next reply is complete
(`TailsScheduled`).

### CutPoint and SessionFiles

CutPoint has the pure choices of compaction as operators on a branch: `Cut`
(`find_cut_point`), `SplitTurn`, `Boundary` (where the previous compaction's kept
part begins), `Compaction` (what the summary takes in) and `Context` (what the
model is shown). A message weighs one token.

SessionFiles is the session manager over a queue of writes. An entry has an id, a
parent and a kind, so that branches, compactions, labels and forks are computed
as in the code. `Add` is `append` with `persist`: nothing before the first
assistant message, the whole file with it, a line each after it. `WriteOne` and
`WriteFails` are the session writer's (SessionWriter has its threads).
`PrepareCompaction` and `ApplyCompaction` are apart, as the summary's model call
is between them. `ReadForRecord` and `QueueRecord` are
`append_custom_entry_to_file`, which subagents call beside the manager. `Restart`
reads the file back with any part of the queue lost; `Fork` and `NewSession` put
another file in place. `Branch`, `Only` and `After` (the lines of a file once the
queue is written) are recursive functions, so that theorems can be stated of them.
`holes` and `strays` are history variables, read by properties only: the entries
that failed writes and forks left out of a file, and the compactions that were
applied after the leaf had been moved away from the branch they were made of.

### The modules of proofs

AgentLoopProofs, ToolBatchProofs, SessionWriterProofs, SubagentPoolProofs,
ScheduleStoreProofs, JobNoticesProofs and McpClientProofs: theorems about the
module they are named after, ScheduleStoreProofs about Schedule too. SessionProofs:
theorems about SessionFiles with CutPoint and, in its last part, about CodingSession.
See Proofs.

## Runs

| Run | Instance | Question |
|---|---|---|
| `agent_loop` | 2 callers, 1 task, 2 messages | safety of the agent and its loop; steering is taken, an aborted run ends |
| `tool_batch` | 4 calls, 2 slots, call 2 may hang | safety and liveness of a batch |
| `session_writer` | 1 producer, 2 files, queue of 2, 3 operations, 2 process starts | safety of the writer, its refinement, progress of producers and barriers |
| `subagent_pool` | 2 tasks, one of each priority, 1 child at a time, 1 stored result, spawns and waits that fail | safety of the pool |
| `subagent_pool_live` | the same without failures, a queue of 1 | accepted tasks settle, waiters are answered |
| `schedule_store` | 2 processes, 2 tasks (1 recurring), 2 due minutes, 1 death, 1 failed write | safety of the store, its refinement, due tasks are handled |
| `job_notices` | 1 job with a descendant, a transcript of 5 messages | kills, notices, wakes |
| `mcp_client` | 2 tool calls, 1 listing, 2 permits, 1 further server start | no request runs twice, no server is left, everything returns |
| `coding_session` | 2 requests, 1 retry, 1 fallback model, 2 runs, 1 abort | retries, continuations and the requests that wait for them |
| `session_files` | 2 files, 5 entries, 1 navigation, fork or restart, 1 failed write | files, branches, compactions, forks |
| `cancel_stops_child`, `summary_covers` | the smallest that show it | what a comment says and the code does not do |

The passing properties, by what they are for:

- `OneRunAtATime`, `IdleWaiterHasWaker`: the slot of `begin_run` and `finish`,
  and the waiters of `wait_for_idle`.
- `MessagesAccounted`: every accepted message and every
  background result is in exactly one place, whichever threads take, withdraw
  and inject at the same time.
- `StopsOnlyWithoutWork`, `SteeringTaken`, `AbortEndsRun`: no lost wake-up of the
  loop.
- `AnsweredOnce`, `CutShortTruthfully`, `OrderedStarts`, `BatchCompletes`,
  `AbortEndsBatch`: see the comments in ToolBatch.
- `FilesFollowTheQueue`: order, torn lines and replacements of the files, over
  failures and crashes; `ImplementsSessionLog`: a flush says Ok only of writes that
  are done or whose failure was reported; `CallersAnswered`: no producer waits for
  room for ever and no flush for its verdict.
- `ConcurrencyBounded`: places and live children, through retries, cancels and
  failed spawns; `QueueHasPuller`: no task waits beside a free place with no
  thread to pull it; `SettledOnce`: one place and one settlement per task, and no
  child left alive behind it; `AcceptedSettles`, `WaiterAnswered`: every accepted
  task settles, `wait_for` returns.
- `FiredOnce`, `OwnerKept`, `ImplementsSchedule`, `DueHandled`: a due minute is
  fired once though lists are read, changed and renamed by several processes, and
  is handled though its owner or a lock's holder died.
- `KilledIsRecorded`: a kill against the exit
  it races; `NoticeAccounted`, `DeliveredWasAnswered`, `EndWakesAgent`: a notice is
  in one place until a good reply followed the call that carried it.
- `RunAtMostOnce`, `NoStrayServer`, `LiveSessionKept`, `CallsReturn`: see McpClient.
- `RetryNotMissed`: a prompt does not pass by a retry that the last run to end was
  promised, unless it is aborted; `PromptReturns`, `StreakEnds`: while requests are
  held back, something is on its way to the `agent_end` that releases them.
- `FileHoldsSession`, `RestartFindsPrefix`: memory, queue and file agree, whatever was
  lost, and every branch goes back to its root; `CompactionOnPath`, `ResultFollowsCall`,
  `NothingSkipped`: compactions prepared at one time and applied at another;
  `ForkDuplicates`.

Each module's `TypeOK` says what its variables hold. It is an invariant of every
instance above and is proved of ToolBatch, SubagentPool, McpClient, ScheduleStore,
CodingSession and SessionFiles (`FilesTypeOK`); the configurations leave it out, because it says nothing of a hazard.

Bounds. Two callers are enough for every race on the slot (a holder and a
contender); two messages and one-at-a-time queues for a drain that leaves
something behind; one background task settles while the loop polls, arms or
sleeps. `MaxMessages` caps what the user hands over, in `Accept`. A batch of four
calls over two slots has calls running, calls waiting and two refills, and any
subset of them ordered. Three operations on a queue of two fill it, wait, and
leave one behind a batch; with `MaxBytes = 2` and `ReplaceBytes = 3` a replacement
is the oversized operation. `MaxOps` and `MaxBoots` cap the operations and the
process starts, in `Calling`, the barrier actions and `Crash`. In the pool one place
and two tasks make one task wait for, overtake and requeue before the other, and
one stored result makes the second evict the first; a task runs at most four
times (a failed wait and a fallback each start it once more), so no counter needs
a bound. More places are left to the proofs, which hold for any number. In the
live run `Faulty` is empty and only one task can be cancelled, to keep it small.

In the scheduler two due minutes with a lookback of one and no lateness allowed
make a minute late, skipped, or claimed by the next owner; `MaxMinute`,
`MaxErrors` and `MaxCrashes` cap the clock, failed writes and deaths. With one job
every race is between its shell, its descendant, its task and the kills; five
messages hold a failed call, its retry, a compaction and a good reply
(`MaxMessages`, in `Say`). Two permits and three calls make one wait; one further
start (`MaxStarts`) gives a second generation, on which tokens start over. Two runs
(`MaxRuns`) are a run and its retry, a fallback or another request's run, one
abort (`MaxAborts`) falls anywhere among them; where the model has no further run
the code would start one, and `OutOfRuns` says so in the properties. Five entries
(`MaxEntries`) hold two compactions, or a turn with a tool call, its label and its
fork; `MaxMoves` and `MaxFaults` cap moves and failed writes in `MayMove` and
`WriteFails`.

Deadlock is not checked: an agent at rest, a finished batch, an idle writer, an
empty pool, a store at the last minute and a session without requests really
stop.

### Fairness

`AgentLoop!Fairness`: the loop, the callers, a push's `notify_one` and a task
that has its result keep being polled, which the multi-threaded tokio runtime
does for ready tasks. Nothing is assumed of the user, of how the model answers,
or of when a background tool returns. `ToolBatch!LiveSpec`: the batch future is
polled when it can move, and tools outside `Hanging` get a pool thread and
return; the grace timer is part of the batch's step `StopWaiting`.
`SessionWriter!LiveSpec`: the writer thread runs, and a producer that a
condition variable has woken runs again. `SubagentPool!FairSpec`: threads and
tokio tasks go on with the task they handle, someone at the head of `pull()`
runs, and a watched child that does not leave is reaped in the end, because
`handle_timeout` re-arms the deadline only up to `load_ceiling_ms`; a killed
child leaves. A child need not leave by itself, and nobody has to cancel, wait
or dispose.

`ScheduleStore!Fairness`: an operation that has begun goes on, a dead holder's lock
ages, a session ticks. Ticking and taking the lock are strong: a session is busy
with another operation and the lock is held by others again and again, while the
code ticks every TICK_INTERVAL and asks for the lock every 10 ms.
`JobNotices!Fairness`: kills and the jobs' tasks run on (strong, because other
threads take the registry's lock in between), a run of the agent ends, and the
terminal ticks whenever it is idle. Shells need not exit. `McpClient!LiveSpec`:
tasks run on and deadlines pass, which is what bounds a start that hangs;
`TakeSession` is strong, because calls take the mutex in turn (a tokio mutex is
fair). `CodingSession!LiveSpec`: tasks run on, a run ends, a backoff or a summary
is over. No user, model or server has to do anything.

### Findings

Two runs show places where the code does not do what a comment says; the quotes
are in `PROJECT.json`.

- `cancel_stops_child`: a cancel after the second look of `start_task` and
  before the slot returns true and stops nothing; the child runs to its end.
- `summary_covers`: a compaction whose cut is inside the turn that the previous
  one kept has no history before the turn, takes "No prior history." for its
  summary and drops the previous summary. Everything before that is forgotten.
  `NothingSkipped` holds: what was in the context since the last boundary is kept
  or summarized.

### Also seen while modelling

Not runs of their own. In the agent and the writer:

- A queued follow-up does not always wake a run that sleeps on background work
  (one `Notify` permit stands for several messages, `hoocode-agent-loop/src/lib.rs`
  335). Steering messages always do (`SteeringTaken`).
- `continue()` drains a queue before it owns the run slot and drops what it drained
  when it loses the slot (`hoocode-agent-core/src/lib.rs` 639-647).
- A failed write can stay unknown to the caller who flushes to learn of it,
  because a reader's flush took the error (`session_io.rs` 214, `manager.rs` 26).
- A barrier in the batch the writer has already taken is not answered when its
  thread stops, so its waiter runs into its deadline.

In the subagent pool: a cancelled run whose child had written a valid result with
status "failed", or whose cancel is overwritten by a late report of the
lifeguard, can be put back on the queue for the inherited model. `dispose()` while
a task is being started leaves that child to the lifeguard, which no longer
watches.

In the scheduler: with a third process, two that find one dead holder's lock stale
can each remove a lock and claim a minute together (`store.rs` 543-546).

In the job registry: a kill of all jobs between the entry and its group only sets
the flag, which the job's task then finds. A compaction that leaves the transcript
longer than the index of a call in flight can make its notice be given again; one
that shortens it counts as a reply.

In the MCP client: `reset_session` waits up to a request timeout past the deadline
of the call (`client.rs` 701). Tokens start over with a session, so the guard of a
late call may remove the route of a newer one, which then gets no progress.

In the coding session:

- `abort()` between the spawn of a tail and its arming of the signal, or after the
  backoff and before `continue`, does not stop the retry's run.
- A second run's backoff overwrites `RetryState.abort`, so the first can no longer
  be cancelled (`retry.rs` 209-211).
- A compaction of another run, or before a prompt, that ends between the pop of the
  error message and `continue` puts that message back: `continue` fails, nobody
  hears of it (`retry.rs` 205), and `prompt()` waits for ever. `PromptReturns`
  and `StreakEnds` exclude it by `restored`.
- `compact()` unsubscribes from the agent before it aborts (`compaction.rs` 192): an
  attempt in flight then does not end its streak, and a prompt of another client
  that arrives meanwhile runs unrecorded.

In session files: a fork leaves out label entries but keeps the parents of their
children, so the branch ends there; a fork of a branch without an assistant message
is opened empty; navigating during a compaction makes it lose what it kept; a
failed first write leaves a file without header, which the next open overwrites; a
failed write in the middle cuts the branch on resume. `holes`, `moved` and `strays`
mark these cases in the properties.

## Proofs

`ToolBatchProofs` proves, for every number of calls, slot limit and set of
hanging tools: `TypeCorrect`, `AnsweredOnceAlways`, `CutShortTruthfullyAlways`,
`OrderedStartsAlways` and `TurnIsHeldAlways`. The only assumption is
`ToolBatchAssumption` of the module.

None of the properties is inductive. `IInv` adds:

- `Places`: where a call can be. Waiting calls are unanswered and their tools
  idle; running calls are unanswered and started; what was prepared is waiting,
  running or answered; calls behind `index` are untouched.
- `Answers`: each outcome with the tool state and the abort it implies, and the
  event count. It carries `AnsweredOnce` and `CutShortTruthfully`.
- `Turns`: turns are handed out in call order and used in that order. A call's
  turn is below `starts`; two calls never share one; a call before `next` has
  passed its dispatch point; the one at `next`, when given out, has not; and a
  later waiting call is behind every ordered call that has a turn. `OrderedStarts`
  and `TurnIsHeld` follow from it.

`InitIInv` and `StepIInv` are the two halves of the induction, `StepIInv` with
one step per action; `ReleaseIInv` is the case the two actions that pass a turn
on share. TLC checked `IInv` on small instances before it was proved.

`SubagentPoolProofs` proves, for any set of tasks and any limits, the types and the
three invariants of the run `subagent_pool`: `TypeCorrect`, `ConcurrencyBoundedAlways`,
`SettledOnceAlways` and `QueueHasPullerAlways`, from `SubagentPoolAssumption`. Its
`IInv` adds:

- `PlacesHeld`: `starting` and `slots` are the tasks between `pull()` and the end
  of their child, and the tasks at those stages never exceed the limit. The
  count of stages, not of the two sets, is what survives `dispose()`, which
  empties the sets under the feet of running threads.
- `Children`: a live child belongs to a task that holds a place.
- `InLine`: the queue holds a task once, and no thread handles a queued task.
- `Settlements`: a handled task is not settled, a settled one is not handled, and
  an accepted one that is not settled is queued or handled until the disposal.

The four changes of the queue (insertion by priority, removal, head, front) are
lemmas about sequences (`InsertedTask`, `RemovedTask`, `FirstTask`, `FrontTask`);
each action has a lemma (`SpawnStep`, ...), and `NothingMoves` serves those that
move no task. `PullerStep` carries `QueueHasPuller`, which needs only `IInv` beside
itself.

`AgentLoopProofs` proves `OneRunAtATimeAlways`, `IdleWaiterHasWakerAlways` and
`StopsOnlyWithoutWorkAlways` for any callers, tasks and messages. Its `Inv` adds:

- `Slot`: the holder of the slot is exactly the caller between `begin_run` and
  `finish`. The property says only that such a caller holds it, which a second
  claim could break.
- `Counted`: `inflight` is the number of tasks spawned and not counted down, and once
  the loop has read zero no task is at work. This is where the order of the two
  reads of `has_work` is needed: with no task at work nothing can push a result
  between them.

Its second part proves `MessagesAccountedAlways`. `Placed` states the sum of a
message's places for every number, accepted or not (a number not given out yet is
nowhere), and `Phases` when messages can be pending or held: without it the polls
could overwrite what they find. `OccursAppend`, `OccursConcat`, `OccursCut` and
`OccursDrain` say how often an element occurs in a sequence that was added to, joined,
cut or drained. `NothingMoves` serves the steps that move no message.

`SessionWriterProofs` proves `Implementation`, the refinement of SessionLog, for any
files, producers, queue sizes and process starts: the initial states agree
(`InitIInv`), and `StepIInv` shows each step to be one of SessionLog or a stutter.
`IInv` adds:

- `Stretches`: settled, gathered, taken and queued operations follow each other in
  the log.
- `Gathered`: what is gathered are lines of one file, so that writing them settles
  nothing but writes, and no barrier is settled out of turn.
- `IdleIsDone`, `DeadIsDone`: an idle writer has settled what it took and published
  its error, which is why a barrier on an empty queue may be answered at once.

The same module proves `FilesFollowTheQueueAlways`. A file kept open is whole
(`Unglued`), so whoever writes after a torn line has opened the file and looked for
it: that is `NoLineGlued`. For the rest `FilesInv` adds, to `IInv` and `Unglued`:

- `Horizon`: only settled operations are in a file, in the order of their numbers.
- `Outcomes`: what is not settled was queued by this process. So a line that is
  missing behind a later one of the same process was settled before it.
- `Kept`: what was written is in its file until the next replacement.
- `InOrder`: a line ahead of which an earlier one of its process is missing has that
  one failed or replaced. A write that succeeds settles all that was gathered, and
  nothing is gathered out of turn, so the induction needs only the outcomes of the
  operations below `flushed`.

`AppendedFiles` and `ReplacedFiles` say what one write does to one file;
the lemmas about outcomes say what one settlement does to the log.

`ScheduleStoreProofs` proves `ImplementsScheduleAlways`, `FiredOnceAlways`,
`OwnerKeptAlways` and `TypeCorrect` under one hypothesis besides the assumptions of
the module, `Few`: two processes share the store, which is how `store.rs` 6-8 puts
it, or any finite number of them of which none dies. It is needed: with a death and a
third process the exclusion fails (see the stale lock under Findings), and with it
the promise. `IInv`:

- `Exclusive`: who works on the file holds the lock, or has nobody alive beside it.
  A process that went on without the lock, or is about to remove a stale one, has
  seen the lock held all through LOCK_WAIT or old, so its holder is dead, so it is
  alone.
- `Created`: the id of a task being created is nobody else's and not in the file.
- `Current`: what is about to be written was made from what the file holds.
- `InCall`: only a process in an operation has one, and a claim that writes has the
  lock.

`Mapped` lists what a step may do to the mapped state (mint or forget an id, create,
delete, empty a hand, hand out), `MappedIs` shows each of these to be an action of
Schedule, and `StepSched` shows each step of ScheduleStore to be one of them or a
stutter. `HandedOnceAlways` is of the abstract store alone and needs no `Few`: no
due minute of a task is in two hands, or in one after it was run. Its `HandInv` says
that a minute handed out is not later than its task's `last` while the task is
listed (`Past`) and that ids are not used again (`Ids`). `FiredOnceAlways` is that
result carried over by the refinement. That a claim's latest minute exists at all
(`LastOne`) is the library's well-foundedness of the natural numbers.

`McpClientProofs` proves `RunAtMostOnceAlways`, `NoStrayServerAlways`, `TypeCorrect`,
`ProgressClosesAlways` and `LiveSessionKeptAlways` for any calls, permits and server
starts. `ProgressCloses` is a property of McpClient that no run checks. `IInv`:

- `SentOnce`: a tool call that can still be sent has not been sent.
- `Sessions`: sessions are begun in order, the one in the slot is the only one that
  may live, and none is while a call is starting one.
- `Uses`: a call that resets a session has seen it end.
- `Routes`: a route belongs to a call that waits under its token, which survives the
  reuse of tokens.

`JobNoticesProofs` proves `KilledIsRecordedAlways`, `LeftoversReachableAlways`,
`NoticeAccountedAlways` and `DeliveredWasAnsweredAlways` for any number of jobs and
messages. `JobPlaces` relates
entry, group and processes of a job to the stage of its task. `Strikes` says that a
strike of a shell was announced by the kill flag or made by the job's task, and
follows it up to the record, through the window between the task's look at the flag
and its look at the shell. `Notices` keeps due, in flight and delivered notices
apart, each list without repetition and of finished jobs only: that a job finishes
once (`JobPlaces`) is what keeps `Record` from announcing it twice.

`SessionProofs` proves every property of the run `session_files` for any number of
files, entries, moves and failed writes and any `KeepRecent`, from
`SessionFilesAssumption` and `CutPointAssumption`: `FileHoldsSessionAlways`,
`RestartFindsPrefixAlways`, `CompactionOnPathAlways`, `ResultFollowsCallAlways`,
`NothingSkippedAlways` and `ForkDuplicatesAlways`, and the types
(`FilesTypeCorrect`).

What the recursive functions compute for every input is an induction over data.
The induction theorems of the library take an operator for a parameter; `Induct`
and `SeqInduct` say the same of a set: a set of naturals (of sequences) that has
the first one, and with each the next, has them all. They are proved from the
well-foundedness of the natural numbers, and so is `Recursion`, that a function
so defined exists. The lemmas built on them say what `Only`, `Branch` and `After`
are for nothing (`OnlyEmpty`, ...), for one more element, for a sequence
that is joined or cut, and when an element that does not matter is taken away.

The invariant has four layers. Each is inductive together with those before it:

- `IdInv`. An id belongs to one line, wherever copies of the line are: in memory, in
  any file, in the queue (`OneLineAnId`). Without it a line read back could not be
  told from the one that was written. Nothing goes on from a run record
  (`RecordsApart`), a file begins with its header and is not there before its
  session (`FilesSound`), and an entry written alone is younger than all
  that is in the files by then (`InOrder`).
- `PathInv`. What the session's file has of the conversation, or is to have, is in
  memory (`InEntries`): that is why a record never hangs from an entry the session
  has not. A compaction being summarized keeps a part of the branch (`OnPath`).
  Parents come first, in memory, in the file, and in the file as it is before
  each write of the queue (`Roots`): a restart may find any of these files.
- `FileInv`. However much of the queue is written, the file has a beginning of the
  conversation, and all of it in the end (`Synced`). The beginnings
  are what a crash leaves; the property of the settled file alone is not inductive.
- `SessionInv`. On every branch, the current one or any that navigation can come
  back to, a tool result is behind its call, and the last compaction keeps from a
  place where one may cut (`Good`, `Goods`); so does the compaction being
  summarized, on the branch as it has grown by then. "May cut" (`Keeps`) is that
  what is shown from there does not begin with a result and is not empty: without
  the second half a result that arrives later could be the first thing shown.

`ForkDuplicates` needs no more than `FileInv`: the fork is the path without its
labels, and the new labels are a chain behind it (`LabelChain`), along which
`Branch` walks back into the copied path.

`Sound` speaks of the compactions that were applied away from their branch
(`strays`), not of those whose kept entry has left the path. The second is
weaker and not enough: prepare a compaction that keeps from a label, navigate to
that label, append a tool result there and apply the compaction. The entry kept
from is on the path, and the context begins with the result. It takes six entries,
one more than the run has.

The last part of `SessionProofs` proves `RetryNotMissedAlways` and `TypeCorrect` of
CodingSession, for any number of requests, runs, retries, fallbacks and aborts. `IInv`
adds to the types:

- `Control`: a run in progress has no tail, and a tail that has not been scheduled is
  of the last run that ended.
- `RetryPending`: while that last run is retried or about to be, `pending` is set.

The property speaks of the last run that ended because every `agent_end` sets
`pending` anew. With three requests, a queued message is delivered by a run that
another request's compaction continues, and the good end of that run releases the
waiter of an earlier one whose tail is still to come. An earlier form of the
property, about each run's own retry, was true of two requests only.

The assumptions are those of the modules (`...Assumption`), about constants only, and
`Few`.

Every safety and action property of a passing run is stated by a theorem, and the
two refinements too. Only model-checked is all liveness (`SteeringTaken`,
`AbortEndsRun`, `BatchCompletes`, `AbortEndsBatch`, `CallersAnswered`,
`AcceptedSettles`, `WaiterAnswered`, `DueHandled`, `EndWakesAgent`, `CallsReturn`,
`PromptReturns`, `StreakEnds`): fairness and ENABLED are beyond TLAPS here. The two
violated properties have no theorem, of course.

## Plan

1. Lifeguard in detail: the registry of pid generations against pid reuse, the
   escalation from the stop signal to SIGKILL. Warm workers.
2. Manual `compact()` in CodingSession; the registry of background managers with two
   sessions.
3. Ordered shutdown with its deadlines; credentials under their lock.

## Not modelled

Listed with the reason in `PROJECT.json` under `components`. In the modelled
parts: `reset()` and the setters of the agent, `should_stop_after_turn` (no
product code sets it), listeners, update events of tools, the registry that
shares a background manager between the runs of a session, and the deadline of
a waiting `FlushTicket`, which changes nothing but the waiter; of the pool, token
budgets, ledgers, dispatch directories, clearance requests and the choice of
model and command line; of the scheduler, cron expressions and the display fields
of a task; of the jobs, their log files and rows; of the MCP client, the first
connect, authorization and elicitation; of the coding session, manual `compact()`,
the terminal's mirror queues, commands and hooks; of session files, settings
entries (a cut passes over them as over labels), migrations and exports.
