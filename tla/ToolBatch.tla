------------------------------ MODULE ToolBatch ------------------------------
(***************************************************************************)
(* The foreground tool calls of one assistant message, as                  *)
(* hoocode-agent-loop executes them: prepared in call order, launched into *)
(* the free slots of a ParallelToolLimit (one at a time while the process  *)
(* sheds load), ordered_start calls kept in call order by a Turnstile, and *)
(* answered by the loop itself when an abort cuts them short.  A batch     *)
(* with a sequential tool runs its calls one after the other instead.      *)
(*                                                                         *)
(* Actors: the batch (phase is its program counter), each call's tool on   *)
(* the blocking pool (tool), the user who may abort, the memory watchdog   *)
(* that switches shedding, and the grace timer.                            *)
(***************************************************************************)
EXTENDS Integers, FiniteSets, Sequences

CONSTANTS N,           \* tool calls of the message
          MaxParallel, \* performance.maxParallelTools
          Hanging      \* calls whose tool may never return

Calls == 1..N

ASSUME ToolBatchAssumption ==
  /\ N \in Nat \ {0}
  /\ MaxParallel \in Nat \ {0}
  /\ Hanging \subseteq Calls

VARIABLES
  mode,       \* "parallel" or "sequential", decided by the message's tools
  ordered,    \* calls of ordered_start tools
  phase,      \* program counter of the batch
  index,      \* next call to prepare
  waiting,    \* prepared calls without a slot
  running,    \* launched calls the batch waits for; each holds a slot
  gated,      \* running calls that hold the shedding gate
  seq,        \* place of a launched ordered call in the turnstile, -1 for none
  starts,     \* ordered_starts: turns given out
  next,       \* Turnstile.next
  tool,       \* what the call's tool does on the blocking pool
  outcome,    \* how the call was answered
  ends,       \* how many tool_execution_end events each call has had
  messages,   \* result messages of the batch
  aborted,    \* the run's abort signal
  shedding    \* memory::shedding()

plan == <<mode, ordered>>
batch == <<phase, index, waiting, running, gated, starts, outcome, ends, messages>>
pool == <<seq, next, tool>>
env == <<aborted, shedding>>
vars == <<plan, batch, pool, env>>

Init ==
  /\ mode \in {"parallel", "sequential"}
  /\ ordered \in SUBSET Calls
  /\ phase = "prepare" /\ index = 1
  /\ waiting = {} /\ running = {} /\ gated = {}
  /\ seq = [i \in Calls |-> -1] /\ starts = 0 /\ next = 0
  /\ tool = [i \in Calls |-> "idle"]
  /\ outcome = [i \in Calls |-> "none"]
  /\ ends = [i \in Calls |-> 0] /\ messages = <<>>
  /\ aborted = FALSE /\ shedding \in BOOLEAN

-----------------------------------------------------------------------------
(* The tool's side: spawn_blocking runs the call; an ordered call of a      *)
(* parallel batch first waits for its turn, and passes it on at its dispatch *)
(* point or, when it never reaches one, as it returns.                       *)

InTurn(i) == seq[i] >= 0

\* Mutation of Release: the turn goes to the call that has just had it.
ReleaseSame(i) == next' = IF InTurn(i) THEN seq[i] ELSE next

Release(i) == next' = IF InTurn(i) THEN seq[i] + 1 ELSE next

Begin(i) ==
  /\ tool[i] = "spawned"
  /\ InTurn(i) => next = seq[i]
  /\ tool' = [tool EXCEPT ![i] = "executing"]
  /\ UNCHANGED <<seq, next, plan, batch, env>>

DispatchPoint(i) ==
  /\ tool[i] = "executing"
  /\ tool' = [tool EXCEPT ![i] = "dispatched"]
  /\ Release(i)
  /\ UNCHANGED <<seq, plan, batch, env>>

Return(i) ==
  /\ \/ tool[i] = "executing" /\ Release(i)
     \/ tool[i] = "dispatched" /\ UNCHANGED next
  /\ tool' = [tool EXCEPT ![i] = "returned"]
  /\ UNCHANGED <<seq, plan, batch, env>>

ToolStep(i) == Begin(i) \/ DispatchPoint(i) \/ Return(i)

-----------------------------------------------------------------------------
(* Answering a call: its outcome and its tool_execution_end.                *)

Answer(i, how) ==
  /\ outcome' = [outcome EXCEPT ![i] = how]
  /\ ends' = [ends EXCEPT ![i] = @ + 1]

\* Mutation of AnswerNotRun: the end is announced, the outcome is not kept.
AnnounceNotRun ==
  /\ ends' = [ends EXCEPT ![index] = @ + 1]
  /\ UNCHANGED outcome

AnswerNotRun == Answer(index, "not_run")

NextCall == index' = index + 1

(* The call was not prepared: the run is aborted, or prepare_tool_call       *)
(* answered it at once (unknown tool, bad arguments, denied, blocked).       *)
SkipCall ==
  /\ phase = "prepare" /\ index \in Calls
  /\ \/ aborted /\ AnswerNotRun
     \/ ~aborted /\ Answer(index, "immediate")
  /\ NextCall
  /\ messages' = IF mode = "sequential" THEN Append(messages, index) ELSE messages
  /\ UNCHANGED <<phase, waiting, running, gated, starts, pool, plan, env>>

-----------------------------------------------------------------------------
(* execute_tool_calls_parallel.                                             *)

PrepareParallel ==
  /\ mode = "parallel" /\ phase = "prepare" /\ index \in Calls
  /\ ~aborted
  /\ waiting' = waiting \cup {index}
  /\ NextCall
  /\ UNCHANGED <<phase, running, gated, starts, outcome, ends, messages, pool, plan, env>>

AllPrepared ==
  /\ mode = "parallel" /\ phase = "prepare" /\ index = N + 1
  /\ phase' = IF aborted THEN "await" ELSE "fill"
  /\ UNCHANGED <<index, waiting, running, gated, starts, outcome, ends, messages, pool,
                 plan, env>>

(* ParallelToolLimit::try_acquire: while shedding, the one-slot gate first.  *)
\* Mutation of CanAcquire: a shedding process starts nothing new.
CanAcquireUnlessShedding == ~shedding /\ Cardinality(running) < MaxParallel

CanAcquire == (shedding => gated = {}) /\ Cardinality(running) < MaxParallel

Earliest(i) == i \in waiting /\ \A j \in waiting : i <= j

\* Mutation of NextInLine: any waiting call may get the freed slot.
AnyInLine(i) == i \in waiting

NextInLine(i) == Earliest(i)

(* SlotLauncher::fill, one round: the slot, then the turn, then the task.    *)
Launch(i) ==
  /\ phase = "fill"
  /\ NextInLine(i)
  /\ CanAcquire
  /\ waiting' = waiting \ {i}
  /\ running' = running \cup {i}
  /\ gated' = IF shedding THEN gated \cup {i} ELSE gated
  /\ IF i \in ordered
     THEN seq' = [seq EXCEPT ![i] = starts] /\ starts' = starts + 1
     ELSE UNCHANGED <<seq, starts>>
  /\ tool' = [tool EXCEPT ![i] = "spawned"]
  /\ UNCHANGED <<phase, index, outcome, ends, messages, next, plan, env>>

FillDone ==
  /\ phase = "fill"
  /\ waiting = {} \/ ~CanAcquire
  /\ phase' = "await"
  /\ UNCHANGED <<index, waiting, running, gated, starts, outcome, ends, messages, pool,
                 plan, env>>

(* A call settled: its slot and gate are free before the batch sees it; the  *)
(* freed slot is refilled unless the run is aborted.                         *)
Settle(i) ==
  /\ mode = "parallel" /\ phase = "await"
  /\ i \in running /\ tool[i] = "returned"
  /\ running' = running \ {i} /\ gated' = gated \ {i}
  /\ Answer(i, "own")
  /\ phase' = IF aborted THEN "await" ELSE "fill"
  /\ UNCHANGED <<index, waiting, starts, messages, pool, plan, env>>

(* Nothing is running any more, or the grace of an abort is over.            *)
\* Mutation of StopWaiting: an abort sets no limit to the wait.
StopWaitingWithoutGrace ==
  /\ mode = "parallel" /\ phase = "await"
  /\ running = {}
  /\ phase' = "cut"
  /\ UNCHANGED <<index, waiting, running, gated, starts, outcome, ends, messages, pool,
                 plan, env>>

StopWaiting ==
  /\ mode = "parallel" /\ phase = "await"
  /\ running = {} \/ aborted
  /\ phase' = "cut"
  /\ UNCHANGED <<index, waiting, running, gated, starts, outcome, ends, messages, pool,
                 plan, env>>

(* The calls left are answered, the futures of the running ones dropped      *)
(* (their tools keep running), and the messages built in call order.         *)
Conclude ==
  /\ phase = "cut"
  /\ outcome' = [i \in Calls |->
                  IF outcome[i] # "none" THEN outcome[i]
                  ELSE IF i \in waiting THEN "not_run" ELSE "unfinished"]
  /\ ends' = [i \in Calls |-> IF outcome[i] = "none" THEN ends[i] + 1 ELSE ends[i]]
  /\ messages' = [i \in Calls |-> i]
  /\ running' = {} /\ gated' = {}
  /\ phase' = "done"
  /\ UNCHANGED <<index, waiting, starts, pool, plan, env>>

-----------------------------------------------------------------------------
(* execute_tool_calls_sequential: one call at a time, without slot or turn.  *)

RunSequential ==
  /\ mode = "sequential" /\ phase = "prepare" /\ index \in Calls
  /\ ~aborted
  /\ running' = {index}
  /\ tool' = [tool EXCEPT ![index] = "spawned"]
  /\ phase' = "await"
  /\ UNCHANGED <<index, waiting, gated, starts, outcome, ends, messages, seq, next, plan,
                 env>>

SettleSequential ==
  /\ mode = "sequential" /\ phase = "await"
  /\ \/ tool[index] = "returned" /\ Answer(index, "own")
     \/ aborted /\ Answer(index, "unfinished")
  /\ running' = {}
  /\ messages' = Append(messages, index)
  /\ NextCall
  /\ phase' = "prepare"
  /\ UNCHANGED <<waiting, gated, starts, pool, plan, env>>

SequentialDone ==
  /\ mode = "sequential" /\ phase = "prepare" /\ index = N + 1
  /\ phase' = "done"
  /\ UNCHANGED <<index, waiting, running, gated, starts, outcome, ends, messages, pool,
                 plan, env>>

-----------------------------------------------------------------------------
Abort ==
  /\ ~aborted
  /\ aborted' = TRUE
  /\ UNCHANGED <<shedding, plan, batch, pool>>

SwitchShedding ==
  /\ phase # "done"
  /\ shedding' = ~shedding
  /\ UNCHANGED <<aborted, plan, batch, pool>>

BatchStep ==
  \/ SkipCall \/ PrepareParallel \/ AllPrepared \/ FillDone \/ StopWaiting \/ Conclude
  \/ RunSequential \/ SettleSequential \/ SequentialDone
  \/ \E i \in Calls : Launch(i) \/ Settle(i)

Next ==
  \/ BatchStep
  \/ \E i \in Calls : ToolStep(i)
  \/ Abort
  \/ SwitchShedding

Spec == Init /\ [][Next]_vars

(* The runtime polls the batch whenever it can move, and a tool that does    *)
(* not hang gets a pool thread and returns.                                  *)
LiveSpec ==
  /\ Spec
  /\ WF_vars(BatchStep)
  /\ \A i \in Calls \ Hanging : WF_vars(ToolStep(i))

-----------------------------------------------------------------------------
ToolStates == {"idle", "spawned", "executing", "dispatched", "returned"}
Outcomes == {"none", "immediate", "own", "not_run", "unfinished"}

TypeOK ==
  /\ mode \in {"parallel", "sequential"} /\ ordered \in SUBSET Calls
  /\ phase \in {"prepare", "fill", "await", "cut", "done"}
  /\ index \in 1..(N + 1)
  /\ waiting \in SUBSET Calls /\ running \in SUBSET Calls /\ gated \in SUBSET Calls
  /\ seq \in [Calls -> Nat \cup {-1}] /\ starts \in Nat /\ next \in Nat
  /\ tool \in [Calls -> ToolStates]
  /\ outcome \in [Calls -> Outcomes]
  /\ ends \in [Calls -> Nat] /\ messages \in Seq(Calls)
  /\ aborted \in BOOLEAN /\ shedding \in BOOLEAN

(* Every tool call of the message ends exactly once and has one result       *)
(* message, in call order, whatever mix of denials, settles and cuts it saw. *)
AnsweredOnce ==
  /\ \A i \in Calls : ends[i] = IF outcome[i] = "none" THEN 0 ELSE 1
  /\ phase = "done" => /\ messages = [i \in Calls |-> i]
                       /\ \A i \in Calls : outcome[i] # "none"

(* What an abort's answers tell the model is true: a call reported as not    *)
(* run never started and never will, one reported as unfinished did start,   *)
(* and neither is reported without an abort.                                 *)
CutShortTruthfully ==
  \A i \in Calls :
    /\ outcome[i] = "not_run" => aborted /\ tool[i] = "idle"
    /\ outcome[i] = "unfinished" => aborted /\ tool[i] # "idle"

(* ordered_start: of two ordered calls of a parallel batch the later one     *)
(* begins only after the earlier one was passed its dispatch point.          *)
OrderedStarts ==
  mode = "parallel" =>
    \A i, j \in ordered :
      i < j /\ tool[j] \in {"executing", "dispatched", "returned"}
        => tool[i] \in {"dispatched", "returned"} \/ outcome[i] = "immediate"

(* The doc comment of SlotLauncher: every turn-holder's predecessors are     *)
(* already running, so the turn somebody waits for is held by a call that    *)
(* has a slot and has not passed it on.                                      *)
TurnIsHeld ==
  \A i \in Calls :
    tool[i] = "spawned" /\ InTurn(i) =>
      \E j \in Calls : /\ seq[j] = next
                       /\ seq[j] <= seq[i]
                       /\ tool[j] \in {"spawned", "executing"}

(* A batch whose started tools all return completes: no call waits for a     *)
(* slot, a gate or a turn that never comes.                                  *)
BatchCompletes ==
  <>(phase = "done" \/ \E i \in Hanging : tool[i] # "idle")

(* An aborted batch ends, whatever its tools do.                             *)
AbortEndsBatch == aborted ~> phase = "done"
=============================================================================
