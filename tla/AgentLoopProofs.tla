--------------------------- MODULE AgentLoopProofs ---------------------------
(***************************************************************************)
(* Proofs about AgentLoop for any number of callers, background tasks and  *)
(* messages: one run at a time, no waiter on the idle agent left asleep,   *)
(* no run that stops beside a task at work, and every message and every    *)
(* background result in exactly one place.                                 *)
(***************************************************************************)
EXTENDS AgentLoop, FiniteSetTheorems, FunctionTheorems, SequenceTheorems, TLAPS

(* What the control of the agent needs of the variables' types.              *)
Types ==
  /\ active \in Callers \cup {NoCaller}
  /\ caller \in [Callers -> CallerStates]
  /\ run \in RunStates
  /\ task \in [Tasks -> {"new", "running", "pushed", "counted", "settled"}]

(* The holder of the run slot is the one caller between begin_run and        *)
(* finish().                                                                 *)
Slot ==
  /\ \A c \in Callers : caller[c] \in {"claimed", "running"} <=> active = c
  /\ (\E c \in Callers : caller[c] = "running") <=> run # "none"
  /\ streaming <=> run # "none"

AtWork == {t \in Tasks : task[t] \in {"running", "pushed"}}

(* The counter counts the tasks at work; once the loop has seen it at zero,  *)
(* no task is at work and none can store a result behind its back.           *)
Counted ==
  /\ inflight = Cardinality(AtWork)
  /\ run \in {"results", "outer"} => AtWork = {}
  /\ run = "outer" => results = <<>>

Inv == Types /\ Slot /\ IdleWaiterHasWaker /\ Counted

USE AgentLoopAssumption DEF slotVars, queueVars, notifyVars, callerVars, loopVars, taskVars,
    KeepButQueues, KeepButCallers, KeepButLoop, KeepButNotify, KeepButPolled, KeepButTasks,
    CallerStates, RunStates

(* The tasks at work are finitely many.                                      *)
LEMMA AtWorkFinite == IsFiniteSet(AtWork) /\ Cardinality(AtWork) \in Nat
BY FS_Subset, FS_CardinalityType DEF AtWork

(* The agent starts idle, with nothing at work.                             *)
LEMMA InitInv == Init => Inv
<1> SUFFICES ASSUME Init PROVE Inv OBVIOUS
<1>1. Types BY DEF Init, Types
<1>2. Slot BY DEF Init, Slot
<1>3. IdleWaiterHasWaker BY DEF Init, IdleWaiterHasWaker
<1>4. Counted
  <2>1. AtWork = {} BY DEF Init, AtWork
  <2> QED BY <2>1, FS_EmptySet DEF Init, Counted
<1> QED BY <1>1, <1>2, <1>3, <1>4 DEF Inv

-----------------------------------------------------------------------------
(* Each part depends on a few variables only; the steps that leave these     *)
(* alone keep it.                                                            *)

controlVars == <<active, streaming, caller>>

(* The user's threads touch none of it.                                      *)
LEMMA UserKeeps ==
  UserStep => UNCHANGED <<controlVars, run, task, inflight, results>>
BY DEF UserStep, Steer, FollowUp, WithdrawSteering, WithdrawFollowUp, Abort, DropFailedMessage,
       controlVars

(* The loop moves only within a run: it neither begins nor ends one.         *)
LEMMA LoopKeeps ==
  ASSUME Types, LoopStep
  PROVE  /\ UNCHANGED <<controlVars, task, inflight>>
         /\ run # "none" /\ run' # "none" /\ run' \in RunStates
<1>1. CASE LoopStart BY <1>1 DEF LoopStart, Goto, controlVars
<1>2. CASE BeginTurn BY <1>2 DEF BeginTurn, Goto, controlVars
<1>3. CASE StreamFails BY <1>3 DEF StreamFails, Goto, controlVars
<1>4. CASE StreamStops \/ StreamCallsTools \/ ToolsDone \/ PrepareNextTurnFails
  BY <1>4 DEF StreamStops, StreamCallsTools, ToolsDone, PrepareNextTurnFails, Goto, controlVars
<1>5. CASE EndTurn \/ AfterWait \/ PollFollowUps
  BY <1>5 DEF EndTurn, AfterWait, PollFollowUps, AfterPoll, Goto, controlVars
<1>6. CASE OuterFollowUps BY <1>6 DEF OuterFollowUps, Goto, controlVars
<1>7. CASE HasWorkCount \/ HasWorkResults
  BY <1>7 DEF HasWorkCount, HasWorkResults, Goto, controlVars
<1>8. CASE Arm \/ SelectBackground BY <1>8 DEF Arm, SelectBackground, Goto, controlVars
<1>9. CASE SelectQueued BY <1>9 DEF SelectQueued, controlVars
<1>10. CASE BackgroundResults
  BY <1>10 DEF BackgroundResults, WakeByBackground, DropQueuedFuture, Goto, controlVars
<1>11. CASE BackgroundCount
  BY <1>11 DEF BackgroundCount, WakeByBackground, DropQueuedFuture, Goto, controlVars
<1>12. CASE WakeBySettled
  BY <1>12 DEF WakeBySettled, WakeByBackground, DropQueuedFuture, Goto, controlVars
<1> QED BY <1>1, <1>2, <1>3, <1>4, <1>5, <1>6, <1>7, <1>8, <1>9, <1>10, <1>11, <1>12 DEF LoopStep

(* Of its steps only has_work() and the outer poll concern the stop: the     *)
(* counter is looked at first.                                               *)
LEMMA LoopStops ==
  ASSUME Counted, LoopStep
  PROVE  /\ run' = "results" => inflight = 0
         /\ run' = "outer" => run = "results" /\ results = <<>> /\ results' = <<>>
<1>1. CASE LoopStart BY <1>1 DEF LoopStart, Goto
<1>2. CASE BeginTurn BY <1>2 DEF BeginTurn, Goto
<1>3. CASE StreamFails BY <1>3 DEF StreamFails, Goto
<1>4. CASE StreamStops \/ StreamCallsTools \/ ToolsDone \/ PrepareNextTurnFails
  BY <1>4 DEF StreamStops, StreamCallsTools, ToolsDone, PrepareNextTurnFails, Goto
<1>5. CASE EndTurn \/ AfterWait \/ PollFollowUps
  BY <1>5 DEF EndTurn, AfterWait, PollFollowUps, AfterPoll, Goto
<1>6. CASE OuterFollowUps BY <1>6 DEF OuterFollowUps, Goto
<1>7. CASE HasWorkCount
  <2>1. inflight \in Nat BY AtWorkFinite DEF Counted
  <2> QED BY <1>7, <2>1 DEF HasWorkCount, Goto
<1>8. CASE HasWorkResults BY <1>8 DEF HasWorkResults, Goto
<1>9. CASE Arm \/ SelectBackground BY <1>9 DEF Arm, SelectBackground, Goto
<1>10. CASE SelectQueued BY <1>10 DEF SelectQueued
<1>11. CASE BackgroundResults BY <1>11 DEF BackgroundResults, WakeByBackground, Goto
<1>12. CASE BackgroundCount BY <1>12 DEF BackgroundCount, WakeByBackground, Goto
<1>13. CASE WakeBySettled BY <1>13 DEF WakeBySettled, WakeByBackground, Goto
<1> QED BY <1>1, <1>2, <1>3, <1>4, <1>5, <1>6, <1>7, <1>8, <1>9, <1>10, <1>11, <1>12, <1>13
        DEF LoopStep

-----------------------------------------------------------------------------
(* One run at a time.                                                        *)

(* A caller takes the free slot.                                             *)
LEMMA ClaimStep ==
  ASSUME Inv, NEW c \in Callers, Prompt(c) \/ ContinueBegin(c)
  PROVE  Types' /\ Slot' /\ IdleWaiterHasWaker'
<1>1. /\ active = NoCaller /\ active' = c
      /\ caller' = [caller EXCEPT ![c] = "claimed"]
      /\ caller[c] \notin {"claimed", "running"}
      /\ UNCHANGED <<streaming, run, task>>
  BY DEF Prompt, ContinueBegin, ClaimSlot, Move
<1> QED BY <1>1 DEF Inv, Types, Slot, IdleWaiterHasWaker

(* It begins its run, in which no other caller is.                           *)
LEMMA StartRunStep ==
  ASSUME Inv, NEW c \in Callers, StartRun(c)
  PROVE  Types' /\ Slot' /\ IdleWaiterHasWaker'
<1>1. /\ caller[c] = "claimed" /\ caller' = [caller EXCEPT ![c] = "running"]
      /\ streaming' = TRUE /\ run' \in {"ended", "start"}
      /\ UNCHANGED <<active, task>>
  BY DEF StartRun, Move
<1>2. active = c /\ c # NoCaller BY <1>1 DEF Inv, Slot
<1> QED BY <1>1, <1>2 DEF Inv, Types, Slot, IdleWaiterHasWaker

(* It finishes: state and slot are cleared together.                         *)
LEMMA FinishStep ==
  ASSUME Inv, NEW c \in Callers, Finish(c)
  PROVE  Types' /\ Slot' /\ IdleWaiterHasWaker'
<1>1. /\ caller[c] = "running" /\ caller' = [caller EXCEPT ![c] = "finishing"]
      /\ run' = "none" /\ streaming' = FALSE /\ active' = NoCaller
      /\ UNCHANGED task
  BY DEF Finish, FinishAs, Move, Goto
<1>2. \A d \in Callers : caller[d] \in {"claimed", "running"} => d = c BY <1>1 DEF Inv, Slot
<1>3. Types' BY <1>1 DEF Inv, Types
<1>4. \A d \in Callers : caller'[d] \notin {"claimed", "running"} BY <1>1, <1>2 DEF Inv, Types
<1>5. Slot' BY <1>1, <1>4 DEF Slot
<1>6. IdleWaiterHasWaker' BY <1>1 DEF Inv, Types, IdleWaiterHasWaker
<1> QED BY <1>3, <1>5, <1>6

(* The waiters on the idle agent are told.                                   *)
LEMMA NotifyIdleStep ==
  ASSUME Inv, NEW c \in Callers, NotifyIdle(c)
  PROVE  Types' /\ Slot' /\ IdleWaiterHasWaker'
<1>1. UNCHANGED <<active, streaming, run, task>> BY DEF NotifyIdle
<1>2. \A d \in Callers : /\ caller'[d] \in {"rest", "notified", caller[d]}
                         /\ caller'[d] # "parked"
                         /\ caller[d] \in {"claimed", "running"} => caller'[d] = caller[d]
  BY DEF NotifyIdle
<1>3. caller' \in [Callers -> CallerStates] BY DEF NotifyIdle, Inv, Types
<1>4. Types' BY <1>1, <1>3 DEF Inv, Types
<1>5. Slot' BY <1>1, <1>2 DEF Inv, Slot
<1>6. IdleWaiterHasWaker' BY <1>2 DEF IdleWaiterHasWaker
<1> QED BY <1>4, <1>5, <1>6

(* The other steps of a caller move it between states without the slot.      *)
LEMMA WaitStep ==
  ASSUME Inv, NEW c \in Callers,
         \/ WantContinue(c) \/ EnableIdle(c) \/ TestIdle(c) \/ WokenIdle(c)
         \/ ContinueTestSlot(c) \/ ContinueReadRole(c) \/ ContinueDrain(c) \/ ContinueBusy(c)
  PROVE  Types' /\ Slot' /\ IdleWaiterHasWaker'
<1>1. UNCHANGED <<active, streaming, run, task>>
  BY DEF WantContinue, EnableIdle, TestIdle, WokenIdle, ContinueTestSlot, ContinueReadRole,
         ContinueDrain, ContinueBusy
<1>2. PICK to \in CallerStates \ {"claimed", "running", "finishing"} :
        /\ caller' = [caller EXCEPT ![c] = to]
        /\ caller[c] \notin {"claimed", "running", "finishing"}
        /\ to = "parked" => active # NoCaller
  BY DEF WantContinue, EnableIdle, TestIdle, WokenIdle, ContinueTestSlot, ContinueReadRole,
         ContinueDrain, DrainSteering, DrainFollowUp, NothingToContinue, ContinueBusy, Move
<1> QED BY <1>1, <1>2 DEF Inv, Types, Slot, IdleWaiterHasWaker

(* Every step keeps the run slot and the waiters on the idle agent.         *)
LEMMA SlotStep == Inv /\ [Next]_vars => Types' /\ Slot' /\ IdleWaiterHasWaker'
<1> SUFFICES ASSUME Inv, [Next]_vars PROVE Types' /\ Slot' /\ IdleWaiterHasWaker' OBVIOUS
<1>1. CASE UserStep BY <1>1, UserKeeps DEF Inv, Types, Slot, IdleWaiterHasWaker, controlVars
<1>2. CASE LoopStep
  BY <1>2, LoopKeeps DEF Inv, Types, Slot, IdleWaiterHasWaker, controlVars
<1>3. ASSUME NEW m \in MessageIds, MessageQueued(m) PROVE Types' /\ Slot' /\ IdleWaiterHasWaker'
  BY <1>3 DEF MessageQueued, Inv, Types, Slot, IdleWaiterHasWaker
<1>4. ASSUME NEW c \in Callers, Prompt(c) \/ WantContinue(c) \/ CallerStep(c)
      PROVE  Types' /\ Slot' /\ IdleWaiterHasWaker'
  BY <1>4, ClaimStep, StartRunStep, FinishStep, NotifyIdleStep, WaitStep DEF CallerStep
<1>5. ASSUME NEW t \in Tasks, Dispatch(t) \/ TaskStep(t)
      PROVE  Types' /\ Slot' /\ IdleWaiterHasWaker'
  <2>1. UNCHANGED <<active, streaming, caller, run>>
    BY <1>5 DEF Dispatch, TaskStep, PushResult, CountDown, NotifySettled
  <2>2. \E to \in {"running", "pushed", "counted", "settled"} : task' = [task EXCEPT ![t] = to]
    BY <1>5 DEF Dispatch, TaskStep, PushResult, CountDown, NotifySettled, Advance
  <2> QED BY <2>1, <2>2 DEF Inv, Types, Slot, IdleWaiterHasWaker
<1>6. CASE UNCHANGED vars BY <1>6 DEF vars, Inv, Types, Slot, IdleWaiterHasWaker
<1> QED BY <1>1, <1>2, <1>3, <1>4, <1>5, <1>6 DEF Next

-----------------------------------------------------------------------------
(* The counter, and the stop.                                                *)

(* Nothing of it changes.                                                    *)
LEMMA CountedKept ==
  ASSUME Counted, UNCHANGED <<run, task, inflight, results>> PROVE Counted'
BY DEF Counted, AtWork

(* A spawned task is counted.                                               *)
LEMMA DispatchStep ==
  ASSUME Inv, NEW t \in Tasks, Dispatch(t) PROVE Counted'
<1>1. AtWork' = AtWork \cup {t} /\ t \notin AtWork
  BY DEF Dispatch, AtWork, Inv, Types
<1>2. inflight' = Cardinality(AtWork')
  BY <1>1, AtWorkFinite, FS_AddElement DEF Dispatch, Inv, Counted
<1> QED BY <1>2 DEF Dispatch, Counted

(* A task that counts itself down is at work no longer.                     *)
LEMMA CountDownStep ==
  ASSUME Inv, NEW t \in Tasks, CountDown(t) PROVE Counted'
<1>1. AtWork' = AtWork \ {t} /\ t \in AtWork
  BY DEF CountDown, Advance, AtWork, Inv, Types
<1>2. inflight' = Cardinality(AtWork')
  BY <1>1, AtWorkFinite, FS_RemoveElement DEF CountDown, Inv, Counted
<1> QED BY <1>1, <1>2 DEF CountDown, Inv, Counted

(* A result is stored by a task at work, so not after the stop.              *)
LEMMA PushResultStep ==
  ASSUME Inv, NEW t \in Tasks, PushResult(t) PROVE Counted'
<1>1. AtWork' = AtWork /\ t \in AtWork
  BY DEF PushResult, Advance, AtWork, Inv, Types
<1> QED BY <1>1 DEF PushResult, Inv, Counted

(* The notification comes after the count-down and changes no count.        *)
LEMMA NotifySettledStep ==
  ASSUME Inv, NEW t \in Tasks, NotifySettled(t) PROVE Counted'
<1>1. AtWork' = AtWork BY DEF NotifySettled, Advance, AtWork, Inv, Types
<1> QED BY <1>1 DEF NotifySettled, Inv, Counted

(* Every step keeps the counter equal to the tasks at work.                 *)
LEMMA CountedStep == Inv /\ [Next]_vars => Counted'
<1> SUFFICES ASSUME Inv, [Next]_vars PROVE Counted' OBVIOUS
<1> USE DEF Inv
<1>1. CASE UserStep BY <1>1, UserKeeps, CountedKept
<1>2. CASE LoopStep
  <2>1. AtWork' = AtWork /\ inflight' = inflight BY <1>2, LoopKeeps DEF AtWork
  <2>2. inflight = 0 => AtWork = {} BY AtWorkFinite, FS_EmptySet DEF Counted
  <2> QED BY <1>2, <2>1, <2>2, LoopStops DEF Counted
<1>3. ASSUME NEW m \in MessageIds, MessageQueued(m) PROVE Counted'
  BY <1>3, CountedKept DEF MessageQueued
<1>4. ASSUME NEW c \in Callers, Prompt(c) \/ WantContinue(c) \/ CallerStep(c) PROVE Counted'
  <2>1. CASE StartRun(c) \/ Finish(c)
    <3>1. UNCHANGED <<task, inflight, results>> /\ run' \in {"none", "start", "ended"}
      BY <2>1 DEF StartRun, Finish, FinishAs, Goto
    <3> QED BY <3>1 DEF Counted, AtWork
  <2>2. CASE ~(StartRun(c) \/ Finish(c))
    <3>1. UNCHANGED <<run, task, inflight, results>>
      BY <1>4, <2>2 DEF CallerStep, Prompt, WantContinue, EnableIdle, TestIdle, WokenIdle,
         ContinueTestSlot, ContinueReadRole, ContinueDrain, ContinueBegin, ContinueBusy, NotifyIdle
    <3> QED BY <3>1, CountedKept
  <2> QED BY <2>1, <2>2
<1>5. ASSUME NEW t \in Tasks, Dispatch(t) \/ TaskStep(t) PROVE Counted'
  BY <1>5, DispatchStep, PushResultStep, CountDownStep, NotifySettledStep DEF TaskStep
<1>6. CASE UNCHANGED vars BY <1>6, CountedKept DEF vars
<1> QED BY <1>1, <1>2, <1>3, <1>4, <1>5, <1>6 DEF Next

-----------------------------------------------------------------------------
(* What a reader should know of.                                             *)

(* The inductive invariant holds in every reachable state.                   *)
THEOREM Invariance == Spec => []Inv
<1>1. Inv /\ [Next]_vars => Inv' BY SlotStep, CountedStep DEF Inv
<1> QED BY InitInv, <1>1, PTL DEF Spec

(* Whoever prompts and continues at the same time, no two runs overlap, and  *)
(* the state is seen as streaming exactly while one goes on.                 *)
THEOREM OneRunAtATimeAlways == Spec => []OneRunAtATime
<1>1. Inv => OneRunAtATime BY DEF Inv, Slot, OneRunAtATime
<1> QED BY <1>1, Invariance, PTL

(* Whoever sleeps in wait_for_idle has the run that holds the slot, or one   *)
(* that is just about to notify, to wake it.                                 *)
THEOREM IdleWaiterHasWakerAlways == Spec => []IdleWaiterHasWaker
<1>1. Inv => IdleWaiterHasWaker BY DEF Inv
<1> QED BY <1>1, Invariance, PTL

(* A run stops by itself only when no background task is at work and no      *)
(* result is left, however the tasks settle between its two looks.           *)
THEOREM StopsOnlyWithoutWorkAlways == Spec => []StopsOnlyWithoutWork
<1>1. Inv => StopsOnlyWithoutWork BY DEF Inv, Counted, AtWork, StopsOnlyWithoutWork
<1> QED BY <1>1, Invariance, PTL

-----------------------------------------------------------------------------
(* How often an element occurs in a sequence.                                *)

HIDE AgentLoopAssumption
     DEF slotVars, queueVars, notifyVars, callerVars, loopVars, taskVars,
         KeepButQueues, KeepButCallers, KeepButLoop, KeepButNotify, KeepButPolled, KeepButTasks,
         CallerStates, RunStates

At(x, q) == {i \in DOMAIN q : q[i] = x}

(* It is a number, zero when the element is not there.                       *)
LEMMA OccursType ==
  ASSUME NEW S, NEW q \in Seq(S), NEW x
  PROVE  /\ IsFiniteSet(At(x, q)) /\ Occurrences(x, q) = Cardinality(At(x, q))
         /\ Occurrences(x, q) \in Nat
         /\ Occurrences(x, q) = 0 <=> x \notin Elements(q)
<1>1. DOMAIN q = 1..Len(q) /\ Len(q) \in Nat BY LenProperties
<1>2. IsFiniteSet(DOMAIN q) BY <1>1, FS_Interval
<1>3. IsFiniteSet(At(x, q)) BY <1>2, FS_Subset DEF At
<1>4. Occurrences(x, q) = Cardinality(At(x, q)) BY DEF Occurrences, At
<1>5. Cardinality(At(x, q)) \in Nat BY <1>3, FS_CardinalityType
<1>6. Cardinality(At(x, q)) = 0 <=> At(x, q) = {} BY <1>3, FS_EmptySet
<1>7. At(x, q) = {} <=> x \notin Elements(q) BY DEF At, Elements
<1> QED BY <1>3, <1>4, <1>5, <1>6, <1>7

(* What is no element of the set occurs in none of its sequences.           *)
LEMMA OccursOutside ==
  ASSUME NEW S, NEW q \in Seq(S), NEW x, x \notin S PROVE Occurrences(x, q) = 0
<1>1. \A i \in DOMAIN q : q[i] \in S BY ElementOfSeq, LenProperties
<1>2. x \notin Elements(q) BY <1>1 DEF Elements
<1> QED BY <1>2, OccursType

(* Nothing occurs in the empty sequence.                                    *)
LEMMA OccursEmpty == ASSUME NEW x PROVE Occurrences(x, <<>>) = 0
<1>1. {i \in DOMAIN <<>> : <<>>[i] = x} = {} OBVIOUS
<1> QED BY <1>1, FS_EmptySet DEF Occurrences

(* One more at the end.                                                      *)
LEMMA OccursAppend ==
  ASSUME NEW S, NEW q \in Seq(S), NEW e \in S, NEW x
  PROVE  Occurrences(x, Append(q, e)) = Occurrences(x, q) + (IF x = e THEN 1 ELSE 0)
<1> DEFINE n == Len(q) + 1
<1>1. /\ DOMAIN q = 1..Len(q) /\ Len(q) \in Nat
      /\ DOMAIN Append(q, e) = 1..n
      /\ \A i \in 1..Len(q) : Append(q, e)[i] = q[i]
      /\ Append(q, e)[n] = e
  BY AppendProperties, LenProperties
<1>2. At(x, Append(q, e)) = At(x, q) \cup (IF x = e THEN {n} ELSE {})
  BY <1>1 DEF At
<1>3. n \notin At(x, q) BY <1>1 DEF At
<1>4. IsFiniteSet(At(x, q)) /\ Cardinality(At(x, q)) \in Nat
      /\ Occurrences(x, q) = Cardinality(At(x, q))
      /\ Occurrences(x, Append(q, e)) = Cardinality(At(x, Append(q, e)))
  BY OccursType, AppendProperties
<1> HIDE DEF n
<1>5. CASE x = e BY <1>2, <1>3, <1>4, <1>5, FS_AddElement, ZenonT(30)
<1>6. CASE x # e BY <1>2, <1>4, <1>6
<1> QED BY <1>5, <1>6

(* A sequence of one element.                                               *)
LEMMA OccursOne ==
  ASSUME NEW e, NEW x PROVE Occurrences(x, <<e>>) = IF x = e THEN 1 ELSE 0
<1>1. At(x, <<e>>) = IF x = e THEN {1} ELSE {} BY DEF At
<1>2. Occurrences(x, <<e>>) = Cardinality(At(x, <<e>>)) BY DEF Occurrences, At
<1> QED BY <1>1, <1>2, FS_Singleton, FS_EmptySet

(* Two sequences, one after the other.                                       *)
LEMMA OccursConcat ==
  ASSUME NEW S, NEW q \in Seq(S), NEW r \in Seq(S), NEW x
  PROVE  Occurrences(x, q \o r) = Occurrences(x, q) + Occurrences(x, r)
<1> DEFINE n == Len(q)
           shifted == {i \in (n + 1)..(n + Len(r)) : r[i - n] = x}
<1>1. /\ DOMAIN q = 1..n /\ n \in Nat /\ DOMAIN r = 1..Len(r) /\ Len(r) \in Nat
      /\ q \o r \in Seq(S) /\ DOMAIN (q \o r) = 1..(n + Len(r))
      /\ \A i \in 1..(n + Len(r)) : (q \o r)[i] = IF i <= n THEN q[i] ELSE r[i - n]
  BY ConcatProperties, LenProperties
<1>2. At(x, q \o r) = At(x, q) \cup shifted BY <1>1 DEF At
<1>3. At(x, q) \cap shifted = {} BY <1>1 DEF At
<1>4. IsFiniteSet(shifted) /\ Cardinality(shifted) = Cardinality(At(x, r))
  <2> DEFINE f == [i \in At(x, r) |-> i + n]
  <2>1. f \in Bijection(At(x, r), shifted)
    <3>1. \A i \in At(x, r) : i \in Nat /\ i \in 1..Len(r) /\ r[i] = x BY <1>1 DEF At
    <3>2. f \in [At(x, r) -> shifted] BY <1>1, <3>1
    <3>3. \A i, j \in At(x, r) : f[i] = f[j] => i = j BY <1>1, <3>1
    <3>4. ASSUME NEW k \in shifted PROVE k - n \in At(x, r) /\ f[k - n] = k
      <4>1. k \in Int /\ k - n \in 1..Len(r) /\ r[k - n] = x BY <1>1
      <4>2. k - n \in At(x, r) BY <1>1, <4>1 DEF At
      <4> QED BY <1>1, <4>1, <4>2
    <3> HIDE DEF f, shifted
    <3> QED BY <3>2, <3>3, <3>4, Fun_IsBij
  <2> QED BY <2>1, FS_Bijection, OccursType DEF ExistsBijection
<1> HIDE DEF n, shifted
<1>5. Cardinality(At(x, q \o r)) = Cardinality(At(x, q)) + Cardinality(shifted)
  <2>1. IsFiniteSet(At(x, q)) /\ Cardinality(At(x, q)) \in Nat BY OccursType, FS_CardinalityType
  <2>2. Cardinality(At(x, q) \cap shifted) = 0 BY <1>3, FS_EmptySet
  <2>3. Cardinality(shifted) \in Nat BY <1>4, FS_CardinalityType
  <2>4. Cardinality(At(x, q) \cup shifted)
          = Cardinality(At(x, q)) + Cardinality(shifted) - Cardinality(At(x, q) \cap shifted)
    BY <1>4, <2>1, FS_Union
  <2> QED BY <1>2, <2>1, <2>2, <2>3, <2>4
<1> QED BY <1>1, <1>4, <1>5, OccursType

(* A sequence cut in two: what is withdrawn from a queue is its end.         *)
LEMMA OccursCut ==
  ASSUME NEW S, NEW q \in Seq(S), NEW k \in 1..Len(q), NEW x
  PROVE  /\ SubSeq(q, 1, k - 1) \in Seq(S) /\ SubSeq(q, k, Len(q)) \in Seq(S)
         /\ Occurrences(x, q)
              = Occurrences(x, SubSeq(q, 1, k - 1)) + Occurrences(x, SubSeq(q, k, Len(q)))
         /\ Elements(SubSeq(q, k, Len(q))) = {q[i] : i \in k..Len(q)}
<1> DEFINE front == SubSeq(q, 1, k - 1)
           back == SubSeq(q, k, Len(q))
<1>1. Len(q) \in Nat /\ \A i \in 1..Len(q) : q[i] \in S BY LenProperties, ElementOfSeq
<1>2. front \in Seq(S) BY <1>1, SubSeqProperties
<1>3. /\ back \in Seq(S) /\ Len(back) = Len(q) - k + 1
      /\ \A i \in 1..(Len(q) - k + 1) : back[i] = q[k + i - 1]
  BY <1>1, SubSeqProperties
<1>4. front \o back = q
  <2>1. SubSeq(q, 1, k - 1) \o SubSeq(q, (k - 1) + 1, Len(q)) = SubSeq(q, 1, Len(q))
    <3>1. 1 \in 1..(Len(q) + 1) /\ k - 1 \in (1 - 1)..Len(q) /\ Len(q) \in (k - 1)..Len(q)
      BY <1>1
    <3> QED BY <3>1, ConcatAdjacentSubSeq
  <2>2. (k - 1) + 1 = k BY <1>1
  <2> QED BY <2>1, <2>2, SubSeqFull
<1>5. Elements(back) = {q[i] : i \in k..Len(q)}
  <2>1. DOMAIN back = 1..(Len(q) - k + 1) BY <1>3, LenProperties
  <2>2. ASSUME NEW i \in k..Len(q) PROVE q[i] \in Elements(back)
    <3>1. i - k + 1 \in DOMAIN back /\ k + (i - k + 1) - 1 = i BY <1>1, <2>1
    <3>2. back[i - k + 1] = q[i] BY <1>3, <2>1, <3>1
    <3> QED BY <3>1, <3>2 DEF Elements
  <2>3. ASSUME NEW j \in DOMAIN back PROVE back[j] \in {q[i] : i \in k..Len(q)}
    <3>1. k + j - 1 \in k..Len(q) /\ back[j] = q[k + j - 1] BY <1>1, <1>3, <2>1
    <3> QED BY <3>1
  <2> HIDE DEF back
  <2> QED BY <2>2, <2>3 DEF Elements
<1> HIDE DEF front, back
<1>6. Occurrences(x, q) = Occurrences(x, front) + Occurrences(x, back)
  BY <1>2, <1>3, <1>4, OccursConcat
<1> QED BY <1>2, <1>3, <1>5, <1>6 DEF front, back

(* A drained queue: what is taken and what is left.                          *)
LEMMA OccursDrain ==
  ASSUME NEW S, NEW q \in Seq(S), NEW mode, NEW x
  PROVE  /\ Taken(q, mode) \in Seq(S) /\ Left(q, mode) \in Seq(S)
         /\ Occurrences(x, q) = Occurrences(x, Taken(q, mode)) + Occurrences(x, Left(q, mode))
<1>1. <<>> \in Seq(S) /\ Occurrences(x, <<>>) = 0 BY EmptySeq, OccursEmpty
<1>2. Occurrences(x, q) \in Nat BY OccursType
<1>3. CASE mode = "all" \/ q = <<>> BY <1>1, <1>2, <1>3 DEF Taken, Left
<1>4. CASE ~(mode = "all" \/ q = <<>>)
  <2>1. Head(q) \in S /\ Tail(q) \in Seq(S) BY <1>4, HeadTailProperties
  <2>2. <<Head(q)>> \in Seq(S) BY <2>1
  <2>3. q = <<Head(q)>> \o Tail(q)
    <3>1. Len(q) \in Nat \ {0} BY <1>4, EmptySeq
    <3>2. SubSeq(q, 1, Len(q)) = <<q[1]>> \o SubSeq(q, 1 + 1, Len(q))
      BY <3>1, SubSeqRecursiveFirst
    <3>3. Tail(q) = SubSeq(q, 2, Len(q)) BY <1>4, TailIsSubSeq
    <3>4. Head(q) = q[1] BY <1>4
    <3> QED BY <3>2, <3>3, <3>4, SubSeqFull
  <2>4. Occurrences(x, q) = Occurrences(x, <<Head(q)>>) + Occurrences(x, Tail(q))
    BY <2>1, <2>2, <2>3, OccursConcat
  <2> QED BY <1>4, <2>1, <2>2, <2>4 DEF Taken, Left
<1> QED BY <1>3, <1>4

(* Without repetition, occurring is being an element.                        *)
LEMMA OccursOnceIsIn ==
  ASSUME NEW S, NEW q \in Seq(S), NEW x, Occurrences(x, q) <= 1
  PROVE  Occurrences(x, q) = InSet(x, Elements(q))
BY OccursType DEF InSet

-----------------------------------------------------------------------------
(* The invariant.                                                            *)

USE DEF slotVars, queueVars, notifyVars, callerVars, loopVars, taskVars,
    KeepButQueues, KeepButCallers, KeepButLoop, KeepButNotify, KeepButPolled, KeepButTasks

MessageTypes ==
  /\ accepted \in 0..MaxMessages
  /\ steering \in Seq(MessageIds) /\ followUp \in Seq(MessageIds)
  /\ held \in [Callers -> Seq(MessageIds)]
  /\ pending \in Seq(Items) /\ transcript \in Seq(Items)
  /\ results \in Seq(Tasks)

(* Only a turn about to begin has messages to inject, and only a caller on   *)
(* its way to a run holds any.                                               *)
Phases ==
  /\ run # "turn" => pending = <<>>
  /\ \A c \in Callers :
       caller[c] \notin {"claimed", "drainedSteering", "drainedFollowUp"} => held[c] = <<>>

Holders(m) == {c \in Callers : Occurrences(m, held[c]) > 0}

(* A message that was not accepted yet is nowhere.                           *)
Placed(m) ==
  /\ IsFiniteSet(Holders(m)) /\ \A c \in Callers : Occurrences(m, held[c]) <= 1
  /\ Occurrences(m, steering) + Occurrences(m, followUp) + Occurrences(m, pending)
       + Occurrences(m, transcript) + Cardinality(Holders(m))
       + InSet(m, withdrawn) + InSet(m, dropped) = InSet(m, Accepted)

MessagesInv ==
  /\ MessageTypes /\ Phases
  /\ \A m \in MessageIds : Placed(m)
  /\ \A t \in Tasks : OnePlaceForResult(t)

(* The counts are numbers; messages are no results.                          *)
LEMMA Numbers ==
  ASSUME MessageTypes, NEW x
  PROVE  /\ Occurrences(x, steering) \in Nat /\ Occurrences(x, followUp) \in Nat
         /\ Occurrences(x, pending) \in Nat /\ Occurrences(x, transcript) \in Nat
         /\ Occurrences(x, results) \in Nat
         /\ \A c \in Callers : Occurrences(x, held[c]) \in Nat
         /\ \A S : InSet(x, S) \in {0, 1}
         /\ IsFiniteSet(Holders(x)) => Cardinality(Holders(x)) \in Nat
         /\ x \in MessageIds => Occurrences(x, results) = 0
         /\ x \in Tasks => /\ Occurrences(x, steering) = 0 /\ Occurrences(x, followUp) = 0
                           /\ \A c \in Callers : Occurrences(x, held[c]) = 0
<1>1. MessageIds \cap Tasks = {} BY AgentLoopAssumption DEF MessageIds
<1>2. /\ steering \in Seq(MessageIds) /\ followUp \in Seq(MessageIds) /\ results \in Seq(Tasks)
      /\ pending \in Seq(Items) /\ transcript \in Seq(Items)
      /\ \A c \in Callers : held[c] \in Seq(MessageIds)
  BY DEF MessageTypes
<1>3. Occurrences(x, steering) \in Nat /\ Occurrences(x, followUp) \in Nat
      /\ Occurrences(x, results) \in Nat
  BY <1>2, OccursType
<1>4. Occurrences(x, pending) \in Nat /\ Occurrences(x, transcript) \in Nat
  BY <1>2, OccursType
<1>5. \A c \in Callers : Occurrences(x, held[c]) \in Nat BY <1>2, OccursType
<1>6. x \in MessageIds => Occurrences(x, results) = 0 BY <1>1, <1>2, OccursOutside
<1>7. x \in Tasks => /\ Occurrences(x, steering) = 0 /\ Occurrences(x, followUp) = 0
                     /\ \A c \in Callers : Occurrences(x, held[c]) = 0
  BY <1>1, <1>2, OccursOutside
<1>8. IsFiniteSet(Holders(x)) => Cardinality(Holders(x)) \in Nat BY FS_CardinalityType
<1> QED BY <1>3, <1>4, <1>5, <1>6, <1>7, <1>8 DEF InSet

(* The sum of the places of one message, and that its terms are numbers.     *)
Sums(m) ==
  /\ Occurrences(m, steering) \in Nat /\ Occurrences(m, followUp) \in Nat
  /\ Occurrences(m, pending) \in Nat /\ Occurrences(m, transcript) \in Nat
  /\ Cardinality(Holders(m)) \in Nat
  /\ InSet(m, withdrawn) \in Nat /\ InSet(m, dropped) \in Nat
  /\ InSet(m, Accepted) \in 0..1
  /\ Occurrences(m, steering) + Occurrences(m, followUp) + Occurrences(m, pending)
       + Occurrences(m, transcript) + Cardinality(Holders(m))
       + InSet(m, withdrawn) + InSet(m, dropped) = InSet(m, Accepted)

(* The invariant gives the sum of every message.                            *)
LEMMA Counts == ASSUME MessagesInv, NEW m \in MessageIds PROVE Sums(m)
<1>1. MessageTypes /\ Placed(m) BY DEF MessagesInv
<1> QED BY <1>1, Numbers DEF Placed, InSet, Sums

(* A caller takes messages into its hands, or lets them go.                  *)
LEMMA HandsFill ==
  ASSUME MessageTypes, NEW m \in MessageIds, Placed(m), NEW c \in Callers, held[c] = <<>>,
         NEW q \in Seq(MessageIds), Occurrences(m, q) <= 1, held' = [held EXCEPT ![c] = q]
  PROVE  /\ IsFiniteSet(Holders(m)') /\ \A d \in Callers : Occurrences(m, held'[d]) <= 1
         /\ Cardinality(Holders(m)') = Cardinality(Holders(m)) + Occurrences(m, q)
<1>1. /\ held'[c] = q /\ \A d \in Callers \ {c} : held'[d] = held[d]
      /\ Occurrences(m, held[c]) = 0 /\ Occurrences(m, q) \in Nat
      /\ IsFiniteSet(Holders(m)) /\ Cardinality(Holders(m)) \in Nat
  BY OccursEmpty, OccursType, Numbers DEF MessageTypes, Placed
<1>2. c \notin Holders(m) BY <1>1 DEF Holders
<1>3. CASE Occurrences(m, q) = 0
  <2>1. Holders(m)' = Holders(m) BY <1>1, <1>3 DEF Holders
  <2> QED BY <1>1, <1>3, <2>1 DEF Placed
<1>4. CASE Occurrences(m, q) = 1
  <2>1. Holders(m)' = Holders(m) \cup {c} BY <1>1, <1>4 DEF Holders
  <2>2. /\ IsFiniteSet(Holders(m) \cup {c})
        /\ Cardinality(Holders(m) \cup {c}) = Cardinality(Holders(m)) + 1
    BY <1>1, <1>2, FS_AddElement
  <2> QED BY <1>1, <1>4, <2>1, <2>2 DEF Placed
<1> QED BY <1>1, <1>3, <1>4

(* The caller lets go of what it holds.                                     *)
LEMMA HandsEmpty ==
  ASSUME MessageTypes, NEW m \in MessageIds, Placed(m), NEW c \in Callers,
         held' = [held EXCEPT ![c] = <<>>]
  PROVE  /\ IsFiniteSet(Holders(m)') /\ \A d \in Callers : Occurrences(m, held'[d]) <= 1
         /\ Cardinality(Holders(m)') = Cardinality(Holders(m)) - Occurrences(m, held[c])
         /\ Occurrences(m, held[c]) \in {0, 1}
<1>1. /\ held'[c] = <<>> /\ \A d \in Callers \ {c} : held'[d] = held[d]
      /\ Occurrences(m, held'[c]) = 0 /\ Occurrences(m, held[c]) \in {0, 1}
      /\ IsFiniteSet(Holders(m)) /\ Cardinality(Holders(m)) \in Nat
  <2>1. held'[c] = <<>> /\ \A d \in Callers \ {c} : held'[d] = held[d] BY DEF MessageTypes
  <2>2. Occurrences(m, held[c]) \in Nat /\ Occurrences(m, held[c]) <= 1 BY Numbers DEF Placed
  <2>3. IsFiniteSet(Holders(m)) /\ Cardinality(Holders(m)) \in Nat BY Numbers DEF Placed
  <2> QED BY <2>1, <2>2, <2>3, OccursEmpty
<1>2. Holders(m)' = Holders(m) \ {c} BY <1>1 DEF Holders
<1>3. /\ IsFiniteSet(Holders(m) \ {c})
      /\ Cardinality(Holders(m) \ {c}) = IF c \in Holders(m) THEN Cardinality(Holders(m)) - 1
                                         ELSE Cardinality(Holders(m))
  BY <1>1, FS_RemoveElement
<1>4. c \in Holders(m) <=> Occurrences(m, held[c]) = 1 BY <1>1 DEF Holders
<1> QED BY <1>1, <1>2, <1>3, <1>4 DEF Placed

(* At the start no message is anywhere.                                     *)
LEMMA InitMessages == Init => MessagesInv
<1> SUFFICES ASSUME Init PROVE MessagesInv OBVIOUS
<1>1. MessageTypes BY EmptySeq, AgentLoopAssumption DEF Init, MessageTypes
<1>2. Phases BY DEF Init, Phases
<1>3. ASSUME NEW m \in MessageIds PROVE Placed(m)
  <2>1. \A c \in Callers : Occurrences(m, held[c]) = 0 BY OccursEmpty DEF Init
  <2>2. Holders(m) = {} BY <2>1 DEF Holders
  <2>3. m \notin Accepted BY EmptySeq DEF Init, Accepted
  <2> QED BY <2>1, <2>2, <2>3, OccursEmpty, FS_EmptySet DEF Init, Placed, InSet
<1>4. ASSUME NEW t \in Tasks PROVE OnePlaceForResult(t)
  BY OccursEmpty DEF Init, OnePlaceForResult
<1> QED BY <1>1, <1>2, <1>3, <1>4 DEF MessagesInv

-----------------------------------------------------------------------------
(* Steps that move nothing.                                                  *)

placeVars == <<accepted, steering, followUp, held, pending, transcript, results, withdrawn, dropped>>

(* A step that leaves every place alone keeps the places.                   *)
LEMMA NothingMoves ==
  ASSUME MessagesInv, UNCHANGED placeVars, Phases',
         \A t \in Tasks : task'[t] \in {"new", "running"} <=> task[t] \in {"new", "running"}
  PROVE  MessagesInv'
<1>1. MessageTypes' BY DEF placeVars, MessagesInv, MessageTypes
<1>2. ASSUME NEW m \in MessageIds PROVE Placed(m)'
  <2>1. Holders(m)' = Holders(m) /\ Accepted' = Accepted BY DEF placeVars, Holders, Accepted
  <2> QED BY <2>1 DEF placeVars, MessagesInv, Placed
<1>3. ASSUME NEW t \in Tasks PROVE OnePlaceForResult(t)'
  BY DEF placeVars, MessagesInv, OnePlaceForResult
<1> QED BY <1>1, <1>2, <1>3 DEF MessagesInv

(* The callers wait, look at the slot, take it or leave it.                  *)
LEMMA CallerMoves ==
  ASSUME Inv, MessagesInv, NEW c \in Callers,
         \/ WantContinue(c) \/ EnableIdle(c) \/ TestIdle(c) \/ WokenIdle(c)
         \/ ContinueTestSlot(c) \/ ContinueReadRole(c) \/ ContinueBegin(c)
         \/ Finish(c) \/ NotifyIdle(c)
         \/ NothingToContinue(c) /\ ContinueDrain(c)
  PROVE  MessagesInv'
<1> DEFINE Holding == {"claimed", "drainedSteering", "drainedFollowUp"}
<1>1. UNCHANGED placeVars /\ UNCHANGED task
  BY DEF WantContinue, EnableIdle, TestIdle, WokenIdle, ContinueTestSlot, ContinueReadRole,
         ContinueBegin, Finish, FinishAs, NotifyIdle, NothingToContinue, ContinueDrain, placeVars
<1>2. \A d \in Callers : caller'[d] \notin Holding => caller[d] \notin Holding
  <2>1. CASE NotifyIdle(c) BY <2>1 DEF NotifyIdle
  <2>2. CASE ContinueBegin(c)
    <3>1. caller' = [caller EXCEPT ![c] = "claimed"] BY <2>2 DEF ContinueBegin, Move
    <3> QED BY <3>1 DEF Inv, Types
  <2>3. CASE ~NotifyIdle(c) /\ ~ContinueBegin(c)
    <3>1. caller[c] \notin Holding /\ \E to : caller' = [caller EXCEPT ![c] = to]
      BY <2>3 DEF WantContinue, EnableIdle, TestIdle, WokenIdle, ContinueTestSlot,
         ContinueReadRole, Finish, FinishAs, NothingToContinue, Move
    <3> QED BY <3>1 DEF Inv, Types
  <2> QED BY <2>1, <2>2, <2>3
<1>3. run' = run \/ (run' = "none" /\ run = "ended")
  <2>1. CASE Finish(c) BY <2>1 DEF Finish, FinishAs, Goto
  <2>2. CASE ~Finish(c)
    BY <2>2 DEF WantContinue, EnableIdle, TestIdle, WokenIdle, ContinueTestSlot,
       ContinueReadRole, ContinueBegin, NotifyIdle, ContinueDrain
  <2> QED BY <2>1, <2>2
<1>4. Phases' BY <1>1, <1>2, <1>3 DEF placeVars, Phases, MessagesInv
<1> QED BY <1>1, <1>4, NothingMoves

(* The loop streams, runs tools and sleeps.                                  *)
LEMMA LoopMoves ==
  ASSUME MessagesInv,
         \/ StreamFails \/ StreamStops \/ StreamCallsTools \/ ToolsDone \/ PrepareNextTurnFails
         \/ HasWorkCount \/ HasWorkResults \/ Arm \/ SelectQueued \/ SelectBackground
         \/ BackgroundResults \/ BackgroundCount \/ WakeBySettled
  PROVE  MessagesInv'
<1>1. UNCHANGED placeVars /\ UNCHANGED task /\ UNCHANGED caller
  BY DEF StreamFails, StreamStops, StreamCallsTools, ToolsDone, PrepareNextTurnFails,
         HasWorkCount, HasWorkResults, Arm, SelectQueued, SelectBackground,
         BackgroundResults, BackgroundCount, WakeBySettled, placeVars
<1>2. run # "turn"
  BY DEF StreamFails, StreamStops, StreamCallsTools, ToolsDone, PrepareNextTurnFails,
         HasWorkCount, HasWorkResults, Arm, SelectQueued, SelectBackground,
         BackgroundResults, BackgroundCount, WakeBySettled, WakeByBackground, Goto
<1>3. Phases' BY <1>1, <1>2 DEF placeVars, Phases, MessagesInv
<1> QED BY <1>1, <1>3, NothingMoves

(* Notifications, the abort, a failed message popped; a task that starts, is *)
(* counted down or notifies.                                                 *)
LEMMA OtherMoves ==
  ASSUME Inv, MessagesInv,
         \/ \E m \in MessageIds : MessageQueued(m)
         \/ Abort \/ DropFailedMessage
         \/ \E t \in Tasks : Dispatch(t) \/ CountDown(t) \/ NotifySettled(t)
         \/ UNCHANGED vars
  PROVE  MessagesInv'
<1>1. UNCHANGED placeVars /\ UNCHANGED <<run, caller>>
  BY DEF MessageQueued, Abort, DropFailedMessage, Dispatch, CountDown, NotifySettled, vars,
         placeVars
<1>2. \A t \in Tasks : task'[t] \in {"new", "running"} <=> task[t] \in {"new", "running"}
  BY DEF MessageQueued, Abort, DropFailedMessage, Dispatch, CountDown, NotifySettled, vars,
         Advance, Inv, Types
<1>3. Phases' BY <1>1 DEF placeVars, Phases, MessagesInv
<1> QED BY <1>1, <1>2, <1>3, NothingMoves

-----------------------------------------------------------------------------
(* Messages come in, and the user takes them back.                           *)

(* The next number is that of no accepted message, so it is nowhere.         *)
LEMMA Accepts ==
  ASSUME MessageTypes, Accept
  PROVE  /\ accepted' \in 0..MaxMessages
         /\ NewMessage \in MessageIds
         /\ \A m \in MessageIds : /\ InSet(m, Accepted') = InSet(m, Accepted)
                                                           + (IF m = NewMessage THEN 1 ELSE 0)
                                  /\ InSet(m, Accepted) \in {0, 1}
                                  /\ m = NewMessage => InSet(m, Accepted) = 0
<1>1. accepted \in Nat /\ accepted < MaxMessages /\ accepted' = accepted + 1
  BY AgentLoopAssumption DEF Accept, MessageTypes, NewMessage
<1>2. MaxMessages \in Nat BY AgentLoopAssumption
<1>3. Accepted' = Accepted \cup {NewMessage} /\ NewMessage \notin Accepted
  BY <1>1 DEF Accepted, NewMessage
<1>4. NewMessage \in MessageIds /\ accepted' \in 0..MaxMessages
  BY <1>1, <1>2 DEF NewMessage, MessageIds
<1> QED BY <1>1, <1>3, <1>4 DEF InSet

(* Appended to the steering or the follow-up queue.                          *)
LEMMA QueueSteps ==
  ASSUME MessagesInv, Steer \/ FollowUp PROVE MessagesInv'
<1>0. MessageTypes /\ UNCHANGED <<held, pending, transcript, results, withdrawn, dropped, task,
                                  run, caller>>
  BY DEF Steer, FollowUp, MessagesInv
<1>1. Accept BY DEF Steer, FollowUp
<1>2. \/ steering' = Append(steering, NewMessage) /\ followUp' = followUp
      \/ followUp' = Append(followUp, NewMessage) /\ steering' = steering
  BY DEF Steer, FollowUp
<1>3. MessageTypes'
  <2>1. NewMessage \in MessageIds BY <1>0, <1>1, Accepts
  <2>2. accepted' \in 0..MaxMessages
    BY <1>0, <1>1, Accepts
  <2>3. /\ Append(steering, NewMessage) \in Seq(MessageIds)
        /\ Append(followUp, NewMessage) \in Seq(MessageIds)
    BY <1>0, <2>1, AppendProperties DEF MessageTypes
  <2> QED BY <1>0, <1>2, <2>2, <2>3 DEF MessageTypes
<1>4. Phases' BY <1>0 DEF Phases, MessagesInv
<1>5. ASSUME NEW m \in MessageIds PROVE Placed(m)'
  <2> DEFINE more1 == IF m = NewMessage THEN 1 ELSE 0
  <2>0. Sums(m) BY Counts
  <2>1. Holders(m)' = Holders(m) BY <1>0 DEF Holders
  <2>2. InSet(m, Accepted') = InSet(m, Accepted) + more1 BY <1>0, <1>1, Accepts
  <2>3. Occurrences(m, steering') + Occurrences(m, followUp')
          = Occurrences(m, steering) + Occurrences(m, followUp) + more1
    <3>1. NewMessage \in MessageIds BY <1>0, <1>1, Accepts
    <3>2. /\ Occurrences(m, Append(steering, NewMessage)) = Occurrences(m, steering) + more1
          /\ Occurrences(m, Append(followUp, NewMessage)) = Occurrences(m, followUp) + more1
      BY <1>0, <3>1, OccursAppend DEF MessageTypes
    <3>3. more1 \in 0..1 OBVIOUS
    <3> HIDE DEF more1
    <3>4. CASE steering' = Append(steering, NewMessage) /\ followUp' = followUp
      BY <2>0, <3>2, <3>3, <3>4 DEF Sums
    <3>5. CASE followUp' = Append(followUp, NewMessage) /\ steering' = steering
      BY <2>0, <3>2, <3>3, <3>5 DEF Sums
    <3> QED BY <1>2, <3>4, <3>5
  <2>4. Placed(m) BY DEF MessagesInv
  <2>5. /\ Occurrences(m, steering') \in Nat /\ Occurrences(m, followUp') \in Nat
        /\ more1 \in 0..1
    BY <1>3, OccursType DEF MessageTypes
  <2> HIDE DEF more1
  <2>6. Occurrences(m, steering') + Occurrences(m, followUp') + Occurrences(m, pending)
          + Occurrences(m, transcript) + Cardinality(Holders(m))
          + InSet(m, withdrawn) + InSet(m, dropped) = InSet(m, Accepted')
    BY <2>0, <2>2, <2>3, <2>5 DEF Sums
  <2> QED BY <1>0, <2>1, <2>4, <2>6 DEF Placed
<1>6. ASSUME NEW t \in Tasks PROVE OnePlaceForResult(t)'
  BY <1>0 DEF OnePlaceForResult, MessagesInv
<1> QED BY <1>3, <1>4, <1>5, <1>6 DEF MessagesInv

(* What leaves a queue joins the withdrawn messages.                         *)
LEMMA Withdraws ==
  ASSUME NEW q \in Seq(MessageIds), NEW first \in 1..Len(q), NEW m, Occurrences(m, q) <= 1,
         m \in withdrawn => Occurrences(m, q) = 0,
         withdrawn' = withdrawn \cup {q[i] : i \in first..Len(q)}
  PROVE  /\ SubSeq(q, 1, first - 1) \in Seq(MessageIds)
         /\ Occurrences(m, SubSeq(q, 1, first - 1)) + InSet(m, withdrawn')
              = Occurrences(m, q) + InSet(m, withdrawn)
<1> DEFINE front == SubSeq(q, 1, first - 1)
           back == SubSeq(q, first, Len(q))
<1>1. /\ front \in Seq(MessageIds) /\ back \in Seq(MessageIds)
      /\ Occurrences(m, q) = Occurrences(m, front) + Occurrences(m, back)
      /\ Elements(back) = {q[i] : i \in first..Len(q)}
  BY OccursCut
<1> HIDE DEF front, back
<1>2. Occurrences(m, front) \in Nat /\ Occurrences(m, back) \in Nat BY <1>1, OccursType
<1>3. Occurrences(m, back) = InSet(m, Elements(back))
  <2>1. Occurrences(m, back) <= 1 BY <1>1, <1>2
  <2> QED BY <1>1, <2>1, OccursOnceIsIn
<1>4. withdrawn' = withdrawn \cup Elements(back) BY <1>1
<1>5. m \in withdrawn => Occurrences(m, back) = 0 BY <1>1, <1>2
<1>6. InSet(m, withdrawn') = InSet(m, withdrawn) + Occurrences(m, back)
  BY <1>3, <1>4, <1>5 DEF InSet
<1>7. InSet(m, withdrawn) \in 0..1 BY DEF InSet
<1>8. Occurrences(m, front) + InSet(m, withdrawn') = Occurrences(m, q) + InSet(m, withdrawn)
  BY <1>1, <1>2, <1>6, <1>7
<1> QED BY <1>1, <1>8 DEF front

(* What moves between two counts of three leaves their sum.                 *)
LEMMA Shifted ==
  ASSUME NEW a \in Nat, NEW b \in Nat, NEW w \in Nat,
         NEW x \in Nat, NEW y \in Nat, NEW z \in Nat,
         (x + z = a + w /\ y = b) \/ (y + z = b + w /\ x = a)
  PROVE  x + y + z = a + b + w
OBVIOUS

(* The user takes back the newest message of a queue, or all of them.       *)
LEMMA WithdrawSteps ==
  ASSUME MessagesInv,
         \/ \E first \in 1..Len(steering) : WithdrawSteering(first)
         \/ \E first \in 1..Len(followUp) : WithdrawFollowUp(first)
  PROVE  MessagesInv'
<1>0. /\ MessageTypes
      /\ UNCHANGED <<accepted, held, pending, transcript, results, dropped, task, run, caller>>
  BY DEF WithdrawSteering, WithdrawFollowUp, MessagesInv
<1>1. ASSUME NEW m \in MessageIds
      PROVE  /\ steering' \in Seq(MessageIds) /\ followUp' \in Seq(MessageIds)
             /\ Occurrences(m, steering') + Occurrences(m, followUp') + InSet(m, withdrawn')
                  = Occurrences(m, steering) + Occurrences(m, followUp) + InSet(m, withdrawn)
  <2>0. Sums(m) BY Counts
  <2>1. /\ Occurrences(m, steering) <= 1 /\ Occurrences(m, followUp) <= 1
        /\ m \in withdrawn => Occurrences(m, steering) = 0 /\ Occurrences(m, followUp) = 0
    BY <2>0 DEF Sums, InSet
  <2>2. ASSUME NEW first \in 1..Len(steering), WithdrawSteering(first)
        PROVE  /\ steering' \in Seq(MessageIds)
               /\ Occurrences(m, steering') + InSet(m, withdrawn')
                    = Occurrences(m, steering) + InSet(m, withdrawn)
               /\ followUp' = followUp
    <3>1. /\ withdrawn' = withdrawn \cup {steering[i] : i \in first..Len(steering)}
          /\ steering' = SubSeq(steering, 1, first - 1) /\ followUp' = followUp
      BY <2>2 DEF WithdrawSteering
    <3> QED BY <1>0, <2>1, <3>1, Withdraws DEF MessageTypes
  <2>3. ASSUME NEW first \in 1..Len(followUp), WithdrawFollowUp(first)
        PROVE  /\ followUp' \in Seq(MessageIds)
               /\ Occurrences(m, followUp') + InSet(m, withdrawn')
                    = Occurrences(m, followUp) + InSet(m, withdrawn)
               /\ steering' = steering
    <3>1. /\ withdrawn' = withdrawn \cup {followUp[i] : i \in first..Len(followUp)}
          /\ followUp' = SubSeq(followUp, 1, first - 1) /\ steering' = steering
      BY <2>3 DEF WithdrawFollowUp
    <3> QED BY <1>0, <2>1, <3>1, Withdraws DEF MessageTypes
  <2>4. /\ steering' \in Seq(MessageIds) /\ followUp' \in Seq(MessageIds)
    BY <1>0, <2>2, <2>3 DEF MessageTypes
  <2>5. Occurrences(m, steering') \in Nat /\ Occurrences(m, followUp') \in Nat
        /\ InSet(m, withdrawn') \in Nat
    BY <2>4, OccursType DEF InSet
  <2>a. Occurrences(m, steering) \in Nat /\ Occurrences(m, followUp) \in Nat
        /\ InSet(m, withdrawn) \in Nat
    BY <2>0 DEF Sums
  <2>6. \/ /\ Occurrences(m, steering') + InSet(m, withdrawn')
               = Occurrences(m, steering) + InSet(m, withdrawn)
           /\ Occurrences(m, followUp') = Occurrences(m, followUp)
        \/ /\ Occurrences(m, followUp') + InSet(m, withdrawn')
               = Occurrences(m, followUp) + InSet(m, withdrawn)
           /\ Occurrences(m, steering') = Occurrences(m, steering)
    BY <2>2, <2>3
  <2>7. Occurrences(m, steering') + Occurrences(m, followUp') + InSet(m, withdrawn')
          = Occurrences(m, steering) + Occurrences(m, followUp) + InSet(m, withdrawn)
    BY <2>a, <2>5, <2>6, Shifted, SMTT(60)
  <2> QED BY <2>4, <2>7
<1>2. MessageTypes'
  <2>1. CASE MessageIds = {}
    <3>1. steering = <<>> /\ followUp = <<>> BY <1>0, <2>1 DEF MessageTypes
    <3> QED BY <3>1 DEF WithdrawSteering, WithdrawFollowUp
  <2>2. CASE MessageIds # {}
    <3>1. steering' \in Seq(MessageIds) /\ followUp' \in Seq(MessageIds) BY <1>1, <2>2
    <3> QED BY <1>0, <3>1 DEF MessageTypes
  <2> QED BY <2>1, <2>2
<1>3. Phases' BY <1>0 DEF Phases, MessagesInv
<1>4. ASSUME NEW m \in MessageIds PROVE Placed(m)'
  <2>0. Sums(m) BY Counts
  <2>1. Holders(m)' = Holders(m) /\ Accepted' = Accepted BY <1>0 DEF Holders, Accepted
  <2>2. Placed(m) BY DEF MessagesInv
  <2>3. Occurrences(m, steering') \in Nat /\ Occurrences(m, followUp') \in Nat
        /\ InSet(m, withdrawn') \in Nat
    BY <1>2, OccursType DEF MessageTypes, InSet
  <2>4. Occurrences(m, steering') + Occurrences(m, followUp') + InSet(m, withdrawn')
          = Occurrences(m, steering) + Occurrences(m, followUp) + InSet(m, withdrawn)
    BY <1>1
  <2>5. Occurrences(m, steering') + Occurrences(m, followUp') + Occurrences(m, pending)
          + Occurrences(m, transcript) + Cardinality(Holders(m))
          + InSet(m, withdrawn') + InSet(m, dropped) = InSet(m, Accepted)
    BY <2>0, <2>3, <2>4, SMTT(60) DEF Sums
  <2> QED BY <1>0, <2>1, <2>2, <2>5 DEF Placed
<1>5. ASSUME NEW t \in Tasks PROVE OnePlaceForResult(t)'
  BY <1>0 DEF OnePlaceForResult, MessagesInv
<1> QED BY <1>2, <1>3, <1>4, <1>5 DEF MessagesInv

-----------------------------------------------------------------------------
(* Messages pass through the callers' hands.                                 *)

(* A new prompt is held by its caller.                                       *)
LEMMA PromptBrings ==
  ASSUME Inv, MessagesInv, NEW c \in Callers, Prompt(c) PROVE MessagesInv'
<1>0. /\ MessageTypes /\ held[c] = <<>> /\ Accept
      /\ held' = [held EXCEPT ![c] = <<NewMessage>>]
      /\ caller' = [caller EXCEPT ![c] = "claimed"] /\ caller \in [Callers -> CallerStates]
      /\ UNCHANGED <<steering, followUp, pending, transcript, results, withdrawn, dropped,
                     task, run>>
  BY DEF Prompt, Move, MessagesInv, Phases, Inv, Types
<1>1. NewMessage \in MessageIds /\ <<NewMessage>> \in Seq(MessageIds) BY <1>0, Accepts
<1>2. MessageTypes' BY <1>0, <1>1, Accepts DEF MessageTypes
<1>3. Phases' BY <1>0 DEF Phases, MessagesInv, MessageTypes
<1>4. ASSUME NEW m \in MessageIds PROVE Placed(m)'
  <2>0. Sums(m) /\ Placed(m) BY Counts DEF MessagesInv
  <2>1. /\ Occurrences(m, <<NewMessage>>) = IF m = NewMessage THEN 1 ELSE 0
        /\ Occurrences(m, <<NewMessage>>) <= 1
    BY OccursOne
  <2>2. /\ IsFiniteSet(Holders(m)') /\ \A d \in Callers : Occurrences(m, held'[d]) <= 1
        /\ Cardinality(Holders(m)') = Cardinality(Holders(m)) + Occurrences(m, <<NewMessage>>)
    BY <1>0, <1>1, <2>0, <2>1, HandsFill
  <2>3. InSet(m, Accepted') = InSet(m, Accepted) + Occurrences(m, <<NewMessage>>)
    BY <1>0, <2>1, Accepts
  <2>4. Occurrences(m, <<NewMessage>>) \in Nat BY <2>1
  <2>5. Occurrences(m, steering) + Occurrences(m, followUp) + Occurrences(m, pending)
          + Occurrences(m, transcript) + Cardinality(Holders(m)')
          + InSet(m, withdrawn) + InSet(m, dropped) = InSet(m, Accepted')
    BY <2>0, <2>2, <2>3, <2>4, SMTT(60) DEF Sums
  <2> QED BY <1>0, <2>2, <2>5 DEF Placed
<1>5. ASSUME NEW t \in Tasks PROVE OnePlaceForResult(t)'
  BY <1>0 DEF OnePlaceForResult, MessagesInv
<1> QED BY <1>2, <1>3, <1>4, <1>5 DEF MessagesInv

(* What the holder of the slot brings joins the transcript.                  *)
LEMMA StartRunBrings ==
  ASSUME Inv, MessagesInv, NEW c \in Callers, StartRun(c) PROVE MessagesInv'
<1>0. /\ MessageTypes /\ held[c] \in Seq(MessageIds) /\ caller \in [Callers -> CallerStates]
      /\ caller[c] = "claimed" /\ caller' = [caller EXCEPT ![c] = "running"]
      /\ held' = [held EXCEPT ![c] = <<>>] /\ transcript' = transcript \o held[c]
      /\ run' # "turn"
      /\ UNCHANGED <<accepted, steering, followUp, pending, results, withdrawn, dropped, task>>
  BY DEF StartRun, Move, MessagesInv, MessageTypes, Inv, Types
<1>1. run = "none"
  <2>1. active = c /\ \A d \in Callers : caller[d] = "running" => active = d
    BY <1>0 DEF Inv, Slot
  <2> QED BY <1>0, <2>1 DEF Inv, Slot
<1>2. held[c] \in Seq(Items) /\ transcript \in Seq(Items) BY <1>0 DEF MessageTypes, Items
<1>3. MessageTypes' BY <1>0, <1>2, ConcatProperties, EmptySeq DEF MessageTypes
<1>4. Phases' BY <1>0, <1>1 DEF Phases, MessagesInv, MessageTypes
<1>5. ASSUME NEW x
      PROVE  Occurrences(x, transcript') = Occurrences(x, transcript) + Occurrences(x, held[c])
  BY <1>0, <1>2, OccursConcat
<1>6. ASSUME NEW m \in MessageIds PROVE Placed(m)'
  <2>0. Sums(m) /\ Placed(m) BY Counts DEF MessagesInv
  <2>1. /\ IsFiniteSet(Holders(m)') /\ \A d \in Callers : Occurrences(m, held'[d]) <= 1
        /\ Cardinality(Holders(m)') = Cardinality(Holders(m)) - Occurrences(m, held[c])
        /\ Occurrences(m, held[c]) \in {0, 1}
    BY <1>0, <2>0, HandsEmpty
  <2>2. Occurrences(m, transcript') = Occurrences(m, transcript) + Occurrences(m, held[c])
    BY <1>5
  <2>3. Occurrences(m, steering) + Occurrences(m, followUp) + Occurrences(m, pending)
          + Occurrences(m, transcript') + Cardinality(Holders(m)')
          + InSet(m, withdrawn) + InSet(m, dropped) = InSet(m, Accepted)
    BY <2>0, <2>1, <2>2, SMTT(60) DEF Sums
  <2>4. Accepted' = Accepted BY <1>0 DEF Accepted
  <2> QED BY <1>0, <2>1, <2>3, <2>4 DEF Placed
<1>7. ASSUME NEW t \in Tasks PROVE OnePlaceForResult(t)'
  <2>1. Occurrences(t, held[c]) = 0 /\ Occurrences(t, transcript) \in Nat BY <1>0, Numbers
  <2>2. Occurrences(t, transcript') = Occurrences(t, transcript) BY <1>5, <2>1
  <2> QED BY <1>0, <2>2 DEF OnePlaceForResult, MessagesInv
<1> QED BY <1>3, <1>4, <1>6, <1>7 DEF MessagesInv

(* continue() takes messages off a queue.                                    *)
LEMMA DrainSteps ==
  ASSUME Inv, MessagesInv, NEW c \in Callers, DrainSteering(c) \/ DrainFollowUp(c),
         ContinueDrain(c)
  PROVE  MessagesInv'
<1>0. /\ MessageTypes /\ held[c] = <<>> /\ caller \in [Callers -> CallerStates]
      /\ \E to \in {"drainedSteering", "drainedFollowUp"} : caller' = [caller EXCEPT ![c] = to]
      /\ UNCHANGED <<accepted, pending, transcript, results, withdrawn, dropped, task, run>>
  BY DEF DrainSteering, DrainFollowUp, ContinueDrain, Move, MessagesInv, Phases, Inv, Types
<1>1. PICK q \in Seq(MessageIds) :
        /\ held' = [held EXCEPT ![c] = q]
        /\ steering' \in Seq(MessageIds) /\ followUp' \in Seq(MessageIds)
        /\ \A x : \/ /\ Occurrences(x, steering) = Occurrences(x, q) + Occurrences(x, steering')
                     /\ followUp' = followUp
                  \/ /\ Occurrences(x, followUp) = Occurrences(x, q) + Occurrences(x, followUp')
                     /\ steering' = steering
  <2>1. CASE DrainSteering(c)
    <3>1. /\ held' = [held EXCEPT ![c] = Taken(steering, SteeringMode)]
          /\ steering' = Left(steering, SteeringMode) /\ followUp' = followUp
      BY <2>1 DEF DrainSteering
    <3>2. steering \in Seq(MessageIds) /\ followUp \in Seq(MessageIds) BY <1>0 DEF MessageTypes
    <3>3. Taken(steering, SteeringMode) \in Seq(MessageIds)
          /\ Left(steering, SteeringMode) \in Seq(MessageIds)
      BY <3>2, OccursDrain
    <3>4. \A x : Occurrences(x, steering) = Occurrences(x, Taken(steering, SteeringMode))
                                            + Occurrences(x, Left(steering, SteeringMode))
      BY <3>2, OccursDrain
    <3> QED BY <3>1, <3>2, <3>3, <3>4
  <2>2. CASE DrainFollowUp(c)
    <3>1. /\ held' = [held EXCEPT ![c] = Taken(followUp, FollowUpMode)]
          /\ followUp' = Left(followUp, FollowUpMode) /\ steering' = steering
      BY <2>2 DEF DrainFollowUp
    <3>2. steering \in Seq(MessageIds) /\ followUp \in Seq(MessageIds) BY <1>0 DEF MessageTypes
    <3>3. Taken(followUp, FollowUpMode) \in Seq(MessageIds)
          /\ Left(followUp, FollowUpMode) \in Seq(MessageIds)
      BY <3>2, OccursDrain
    <3>4. \A x : Occurrences(x, followUp) = Occurrences(x, Taken(followUp, FollowUpMode))
                                            + Occurrences(x, Left(followUp, FollowUpMode))
      BY <3>2, OccursDrain
    <3> QED BY <3>1, <3>2, <3>3, <3>4
  <2> QED BY <2>1, <2>2
<1>2. MessageTypes' BY <1>0, <1>1 DEF MessageTypes
<1>3. Phases' BY <1>0, <1>1 DEF Phases, MessagesInv, MessageTypes
<1>4. ASSUME NEW m \in MessageIds PROVE Placed(m)'
  <2>0. Sums(m) /\ Placed(m) BY Counts DEF MessagesInv
  <2>1. /\ Occurrences(m, q) \in Nat
        /\ Occurrences(m, steering') \in Nat /\ Occurrences(m, followUp') \in Nat
    BY <1>1, OccursType
  <2>2. Occurrences(m, steering) + Occurrences(m, followUp)
          = Occurrences(m, q) + Occurrences(m, steering') + Occurrences(m, followUp')
    <3>1. CASE Occurrences(m, steering) = Occurrences(m, q) + Occurrences(m, steering')
               /\ followUp' = followUp
      BY <2>0, <2>1, <3>1, SMTT(60) DEF Sums
    <3>2. CASE Occurrences(m, followUp) = Occurrences(m, q) + Occurrences(m, followUp')
               /\ steering' = steering
      BY <2>0, <2>1, <3>2, SMTT(60) DEF Sums
    <3> QED BY <1>1, <3>1, <3>2
  <2>3. Occurrences(m, q) <= 1 BY <2>0, <2>1, <2>2, SMTT(60) DEF Sums
  <2>4. /\ IsFiniteSet(Holders(m)') /\ \A d \in Callers : Occurrences(m, held'[d]) <= 1
        /\ Cardinality(Holders(m)') = Cardinality(Holders(m)) + Occurrences(m, q)
    BY <1>0, <1>1, <2>0, <2>3, HandsFill
  <2>5. Occurrences(m, steering') + Occurrences(m, followUp') + Occurrences(m, pending)
          + Occurrences(m, transcript) + Cardinality(Holders(m)')
          + InSet(m, withdrawn) + InSet(m, dropped) = InSet(m, Accepted)
    BY <2>0, <2>1, <2>2, <2>4, SMTT(60) DEF Sums
  <2>6. Accepted' = Accepted BY <1>0 DEF Accepted
  <2> QED BY <1>0, <2>4, <2>5, <2>6 DEF Placed
<1>5. ASSUME NEW t \in Tasks PROVE OnePlaceForResult(t)'
  BY <1>0 DEF OnePlaceForResult, MessagesInv
<1> QED BY <1>2, <1>3, <1>4, <1>5 DEF MessagesInv

(* A continue() that lost the slot drops what it holds.                      *)
LEMMA BusyStep ==
  ASSUME Inv, MessagesInv, NEW c \in Callers, ContinueBusy(c) PROVE MessagesInv'
<1>0. /\ MessageTypes /\ held[c] \in Seq(MessageIds) /\ caller \in [Callers -> CallerStates]
      /\ caller' = [caller EXCEPT ![c] = "rest"] /\ held' = [held EXCEPT ![c] = <<>>]
      /\ dropped' = dropped \cup Elements(held[c])
      /\ UNCHANGED <<accepted, steering, followUp, pending, transcript, results, withdrawn, task,
                     run>>
  BY DEF ContinueBusy, Move, MessagesInv, MessageTypes, Inv, Types
<1>1. MessageTypes' BY <1>0, EmptySeq DEF MessageTypes
<1>2. Phases' BY <1>0 DEF Phases, MessagesInv, MessageTypes
<1>3. ASSUME NEW m \in MessageIds PROVE Placed(m)'
  <2>0. Sums(m) /\ Placed(m) BY Counts DEF MessagesInv
  <2>1. /\ IsFiniteSet(Holders(m)') /\ \A d \in Callers : Occurrences(m, held'[d]) <= 1
        /\ Cardinality(Holders(m)') = Cardinality(Holders(m)) - Occurrences(m, held[c])
        /\ Occurrences(m, held[c]) \in {0, 1}
    BY <1>0, <2>0, HandsEmpty
  <2>2. InSet(m, dropped') = InSet(m, dropped) + Occurrences(m, held[c])
    <3>1. Occurrences(m, held[c]) = InSet(m, Elements(held[c])) BY <1>0, <2>1, OccursOnceIsIn
    <3>2. m \in dropped => Occurrences(m, held[c]) = 0
      <4>1. Occurrences(m, held[c]) = 1 => Cardinality(Holders(m)) # 0
        <5>1. Occurrences(m, held[c]) = 1 => Holders(m) # {} BY DEF Holders
        <5> QED BY <2>0, <5>1, FS_EmptySet DEF Placed
      <4>2. Cardinality(Holders(m)) # 0 => InSet(m, dropped) = 0 BY <2>0, SMTT(60) DEF Sums
      <4> QED BY <2>1, <4>1, <4>2 DEF InSet
    <3> QED BY <1>0, <3>1, <3>2 DEF InSet
  <2>3. Occurrences(m, steering) + Occurrences(m, followUp) + Occurrences(m, pending)
          + Occurrences(m, transcript) + Cardinality(Holders(m)')
          + InSet(m, withdrawn) + InSet(m, dropped') = InSet(m, Accepted)
    BY <2>0, <2>1, <2>2, SMTT(60) DEF Sums
  <2>4. Accepted' = Accepted BY <1>0 DEF Accepted
  <2> QED BY <1>0, <2>1, <2>3, <2>4 DEF Placed
<1>4. ASSUME NEW t \in Tasks PROVE OnePlaceForResult(t)'
  BY <1>0 DEF OnePlaceForResult, MessagesInv
<1> QED BY <1>1, <1>2, <1>3, <1>4 DEF MessagesInv

-----------------------------------------------------------------------------
(* The loop polls, injects, and a result is stored.                          *)

(* collect_pending_messages: results and steering messages are set aside for *)
(* the next turn, of which nothing was pending.                              *)
LEMMA CollectSteps ==
  ASSUME MessagesInv, LoopStart \/ EndTurn \/ AfterWait PROVE MessagesInv'
<1>0. /\ MessageTypes /\ pending = <<>> /\ (pending' # <<>> => run' = "turn")
      /\ \E b : Collect(b)
      /\ UNCHANGED <<accepted, followUp, held, transcript, withdrawn, dropped, task, caller>>
  <2>1. UNCHANGED <<accepted, followUp, held, transcript, withdrawn, dropped, task, caller>>
    BY DEF LoopStart, EndTurn, AfterWait
  <2>2. run # "turn" /\ (pending' # <<>> => run' = "turn") /\ \E b : Collect(b)
    BY DEF LoopStart, EndTurn, AfterWait, AfterPoll, Goto
  <2> QED BY <2>1, <2>2 DEF MessagesInv, Phases
<1>1. PICK taken \in Seq(MessageIds) :
        /\ steering' \in Seq(MessageIds) /\ pending' = results \o taken /\ results' = <<>>
        /\ \A x : Occurrences(x, steering) = Occurrences(x, taken) + Occurrences(x, steering')
  <2>1. PICK b : Collect(b) BY <1>0
  <2>2. steering \in Seq(MessageIds) BY <1>0 DEF MessageTypes
  <2>3. CASE b
    <3>1. /\ pending' = results \o Taken(steering, SteeringMode) /\ results' = <<>>
          /\ steering' = Left(steering, SteeringMode)
      BY <2>1, <2>3 DEF Collect
    <3>2. Taken(steering, SteeringMode) \in Seq(MessageIds)
          /\ Left(steering, SteeringMode) \in Seq(MessageIds)
      BY <2>2, OccursDrain
    <3>3. \A x : Occurrences(x, steering) = Occurrences(x, Taken(steering, SteeringMode))
                                            + Occurrences(x, Left(steering, SteeringMode))
      BY <2>2, OccursDrain
    <3> QED BY <3>1, <3>2, <3>3
  <2>4. CASE ~b
    <3>1. pending' = results \o <<>> /\ results' = <<>> /\ steering' = steering
      BY <2>1, <2>4 DEF Collect
    <3>2. <<>> \in Seq(MessageIds) /\ \A x : Occurrences(x, <<>>) = 0 BY EmptySeq, OccursEmpty
    <3>3. \A x : Occurrences(x, steering) \in Nat BY <2>2, OccursType
    <3>4. \A x : Occurrences(x, steering) = Occurrences(x, <<>>) + Occurrences(x, steering)
      BY <3>2, <3>3
    <3> QED BY <2>2, <3>1, <3>2, <3>4
  <2> QED BY <2>3, <2>4
<1>2. taken \in Seq(Items) /\ results \in Seq(Items) BY <1>0 DEF MessageTypes, Items
<1>3. MessageTypes' BY <1>0, <1>1, <1>2, ConcatProperties, EmptySeq DEF MessageTypes
<1>4. Phases' BY <1>0 DEF Phases, MessagesInv
<1>5. ASSUME NEW x
      PROVE  /\ Occurrences(x, pending') = Occurrences(x, results) + Occurrences(x, taken)
             /\ Occurrences(x, pending) = 0 /\ Occurrences(x, results') = 0
             /\ Occurrences(x, taken) \in Nat /\ Occurrences(x, results) \in Nat
             /\ Occurrences(x, steering') \in Nat
  BY <1>0, <1>1, <1>2, OccursConcat, OccursEmpty, OccursType
<1>6. ASSUME NEW m \in MessageIds PROVE Placed(m)'
  <2>0. Sums(m) /\ Placed(m) BY Counts DEF MessagesInv
  <2>1. Occurrences(m, results) = 0 BY <1>0, Numbers
  <2>2. /\ Occurrences(m, pending') = Occurrences(m, taken) /\ Occurrences(m, pending) = 0
        /\ Occurrences(m, taken) \in Nat /\ Occurrences(m, steering') \in Nat
        /\ Occurrences(m, steering) = Occurrences(m, taken) + Occurrences(m, steering')
    BY <1>1, <1>5, <2>1
  <2>3. Occurrences(m, steering') + Occurrences(m, followUp) + Occurrences(m, pending')
          + Occurrences(m, transcript) + Cardinality(Holders(m))
          + InSet(m, withdrawn) + InSet(m, dropped) = InSet(m, Accepted)
    BY <2>0, <2>2, SMTT(60) DEF Sums
  <2>4. Holders(m)' = Holders(m) /\ Accepted' = Accepted BY <1>0 DEF Holders, Accepted
  <2> QED BY <1>0, <2>0, <2>3, <2>4 DEF Placed
<1>7. ASSUME NEW t \in Tasks PROVE OnePlaceForResult(t)'
  <2>1. Occurrences(t, steering) = 0 /\ Occurrences(t, transcript) \in Nat BY <1>0, Numbers
  <2>2. Occurrences(t, taken) = 0 BY <1>1, <1>5, <2>1
  <2>3. /\ Occurrences(t, pending') = Occurrences(t, results)
        /\ Occurrences(t, results') = 0 /\ Occurrences(t, pending) = 0
        /\ Occurrences(t, results) \in Nat
    BY <1>5, <2>2
  <2>4. OnePlaceForResult(t) BY DEF MessagesInv
  <2> QED BY <1>0, <2>1, <2>3, <2>4 DEF OnePlaceForResult
<1> QED BY <1>3, <1>4, <1>6, <1>7 DEF MessagesInv

(* What is pending joins the transcript.                                     *)
LEMMA BeginTurnStep == ASSUME MessagesInv, BeginTurn PROVE MessagesInv'
<1>0. /\ MessageTypes /\ transcript' = transcript \o pending /\ pending' = <<>>
      /\ UNCHANGED <<accepted, steering, followUp, held, results, withdrawn, dropped, task, caller>>
  BY DEF BeginTurn, MessagesInv
<1>1. MessageTypes' BY <1>0, ConcatProperties, EmptySeq DEF MessageTypes
<1>2. Phases' BY <1>0 DEF Phases, MessagesInv
<1>3. ASSUME NEW x
      PROVE  /\ Occurrences(x, transcript') = Occurrences(x, transcript) + Occurrences(x, pending)
             /\ Occurrences(x, pending') = 0
  BY <1>0, OccursConcat, OccursEmpty DEF MessageTypes
<1>4. ASSUME NEW m \in MessageIds PROVE Placed(m)'
  <2>0. Sums(m) /\ Placed(m) BY Counts DEF MessagesInv
  <2>1. /\ Occurrences(m, transcript') = Occurrences(m, transcript) + Occurrences(m, pending)
        /\ Occurrences(m, pending') = 0
    BY <1>3
  <2>2. Occurrences(m, steering) + Occurrences(m, followUp) + Occurrences(m, pending')
          + Occurrences(m, transcript') + Cardinality(Holders(m))
          + InSet(m, withdrawn) + InSet(m, dropped) = InSet(m, Accepted)
    BY <2>0, <2>1, SMTT(60) DEF Sums
  <2>3. Holders(m)' = Holders(m) /\ Accepted' = Accepted BY <1>0 DEF Holders, Accepted
  <2> QED BY <1>0, <2>0, <2>2, <2>3 DEF Placed
<1>5. ASSUME NEW t \in Tasks PROVE OnePlaceForResult(t)'
  <2>1. OnePlaceForResult(t) BY DEF MessagesInv
  <2>2. /\ Occurrences(t, transcript) \in Nat /\ Occurrences(t, pending) \in Nat
        /\ Occurrences(t, results) \in Nat
    BY <1>0, Numbers
  <2> QED BY <1>0, <1>3, <2>1, <2>2 DEF OnePlaceForResult
<1> QED BY <1>1, <1>2, <1>4, <1>5 DEF MessagesInv

(* get_follow_up_messages: the queue's messages are pending.                 *)
LEMMA FollowUpPolls ==
  ASSUME MessagesInv, PollFollowUps \/ OuterFollowUps PROVE MessagesInv'
<1>0. /\ MessageTypes /\ pending = <<>> /\ (pending' # <<>> => run' = "turn") /\ TakeFollowUps
      /\ UNCHANGED <<accepted, steering, held, transcript, results, withdrawn, dropped, task, caller>>
  BY DEF PollFollowUps, OuterFollowUps, AfterPoll, Goto, MessagesInv, Phases
<1>1. /\ pending' \in Seq(MessageIds) /\ followUp' \in Seq(MessageIds)
      /\ \A x : Occurrences(x, followUp) = Occurrences(x, pending') + Occurrences(x, followUp')
  <2>1. followUp \in Seq(MessageIds) BY <1>0 DEF MessageTypes
  <2>2. pending' = Taken(followUp, FollowUpMode) /\ followUp' = Left(followUp, FollowUpMode)
    BY <1>0 DEF TakeFollowUps
  <2> QED BY <2>1, <2>2, OccursDrain
<1>2. pending' \in Seq(Items) BY <1>1 DEF Items
<1>3. MessageTypes' BY <1>0, <1>1, <1>2 DEF MessageTypes
<1>4. Phases' BY <1>0 DEF Phases, MessagesInv
<1>5. ASSUME NEW x
      PROVE  /\ Occurrences(x, pending) = 0 /\ Occurrences(x, pending') \in Nat
             /\ Occurrences(x, followUp') \in Nat
             /\ Occurrences(x, followUp) = Occurrences(x, pending') + Occurrences(x, followUp')
  BY <1>0, <1>1, OccursEmpty, OccursType
<1>6. ASSUME NEW m \in MessageIds PROVE Placed(m)'
  <2>0. Sums(m) /\ Placed(m) BY Counts DEF MessagesInv
  <2>1. /\ Occurrences(m, pending) = 0 /\ Occurrences(m, pending') \in Nat
        /\ Occurrences(m, followUp') \in Nat
        /\ Occurrences(m, followUp) = Occurrences(m, pending') + Occurrences(m, followUp')
    BY <1>5
  <2>2. Occurrences(m, steering) + Occurrences(m, followUp') + Occurrences(m, pending')
          + Occurrences(m, transcript) + Cardinality(Holders(m))
          + InSet(m, withdrawn) + InSet(m, dropped) = InSet(m, Accepted)
    BY <2>0, <2>1, SMTT(60) DEF Sums
  <2>3. Holders(m)' = Holders(m) /\ Accepted' = Accepted BY <1>0 DEF Holders, Accepted
  <2> QED BY <1>0, <2>0, <2>2, <2>3 DEF Placed
<1>7. ASSUME NEW t \in Tasks PROVE OnePlaceForResult(t)'
  <2>1. Occurrences(t, followUp) = 0 BY <1>0, Numbers
  <2>2. Occurrences(t, pending') = Occurrences(t, pending) BY <1>5, <2>1
  <2> QED BY <1>0, <2>2 DEF OnePlaceForResult, MessagesInv
<1> QED BY <1>3, <1>4, <1>6, <1>7 DEF MessagesInv

(* A settled result has a place from then on.                                *)
LEMMA PushResultPlaces ==
  ASSUME Inv, MessagesInv, NEW t \in Tasks, PushResult(t) PROVE MessagesInv'
<1>0. /\ MessageTypes /\ task[t] = "running" /\ task' = [task EXCEPT ![t] = "pushed"]
      /\ results' = Append(results, t)
      /\ UNCHANGED <<accepted, steering, followUp, held, pending, transcript, withdrawn, dropped,
                     run, caller>>
  BY DEF PushResult, Advance, MessagesInv
<1>1. MessageTypes' BY <1>0, AppendProperties DEF MessageTypes
<1>2. Phases' BY <1>0 DEF Phases, MessagesInv
<1>3. ASSUME NEW m \in MessageIds PROVE Placed(m)'
  <2>1. Holders(m)' = Holders(m) /\ Accepted' = Accepted BY <1>0 DEF Holders, Accepted
  <2> QED BY <1>0, <2>1 DEF Placed, MessagesInv
<1>4. ASSUME NEW u \in Tasks PROVE OnePlaceForResult(u)'
  <2>1. Occurrences(u, results') = Occurrences(u, results) + (IF u = t THEN 1 ELSE 0)
    BY <1>0, OccursAppend DEF MessageTypes
  <2>2. /\ Occurrences(u, transcript) \in Nat /\ Occurrences(u, pending) \in Nat
        /\ Occurrences(u, results) \in Nat
    BY <1>0, Numbers
  <2>3. OnePlaceForResult(u) BY DEF MessagesInv
  <2>4. task'[u] = IF u = t THEN "pushed" ELSE task[u] BY <1>0 DEF Inv, Types
  <2>5. CASE u = t BY <1>0, <2>1, <2>2, <2>3, <2>4, <2>5 DEF OnePlaceForResult
  <2>6. CASE u # t BY <1>0, <2>1, <2>2, <2>3, <2>4, <2>6 DEF OnePlaceForResult
  <2> QED BY <2>5, <2>6
<1> QED BY <1>1, <1>2, <1>3, <1>4 DEF MessagesInv

-----------------------------------------------------------------------------
(* Every step keeps the places.                                              *)
LEMMA StepMessages == ASSUME Inv, MessagesInv, [Next]_vars PROVE MessagesInv'
<1>1. CASE UserStep
  <2>1. ASSUME NEW q \in Seq(MessageIds), q # <<>> PROVE 1 \in 1..Len(q) /\ Len(q) \in 1..Len(q)
    BY <2>1, EmptySeq, LenProperties
  <2>2. steering \in Seq(MessageIds) /\ followUp \in Seq(MessageIds)
    BY DEF MessagesInv, MessageTypes
  <2>3. CASE WithdrawSteering(1) \/ WithdrawSteering(Len(steering))
    <3>1. steering # <<>> BY <2>3 DEF WithdrawSteering
    <3> QED BY <2>1, <2>2, <2>3, <3>1, WithdrawSteps
  <2>4. CASE WithdrawFollowUp(1) \/ WithdrawFollowUp(Len(followUp))
    <3>1. followUp # <<>> BY <2>4 DEF WithdrawFollowUp
    <3> QED BY <2>1, <2>2, <2>4, <3>1, WithdrawSteps
  <2>5. CASE Steer \/ FollowUp BY <2>5, QueueSteps
  <2>6. CASE Abort \/ DropFailedMessage BY <2>6, OtherMoves
  <2> QED BY <1>1, <2>3, <2>4, <2>5, <2>6 DEF UserStep
<1>2. CASE LoopStep
  BY <1>2, LoopMoves, CollectSteps, BeginTurnStep, FollowUpPolls DEF LoopStep
<1>3. ASSUME NEW m \in MessageIds, MessageQueued(m) PROVE MessagesInv' BY <1>3, OtherMoves
<1>4. ASSUME NEW c \in Callers, Prompt(c) \/ WantContinue(c) \/ CallerStep(c) PROVE MessagesInv'
  <2>1. CASE ContinueDrain(c)
    BY <2>1, CallerMoves, DrainSteps DEF ContinueDrain
  <2>2. CASE ~ContinueDrain(c)
    BY <1>4, <2>2, PromptBrings, StartRunBrings, BusyStep, CallerMoves DEF CallerStep
  <2> QED BY <2>1, <2>2
<1>5. ASSUME NEW t \in Tasks, Dispatch(t) \/ TaskStep(t) PROVE MessagesInv'
  BY <1>5, OtherMoves, PushResultPlaces DEF TaskStep
<1>6. CASE UNCHANGED vars BY <1>6, OtherMoves
<1> QED BY <1>1, <1>2, <1>3, <1>4, <1>5, <1>6 DEF Next

(* Whatever the user's threads, the callers, the loop and the background     *)
(* tasks do at the same time, a message handed to the agent is in exactly    *)
(* one place, and a settled background result in exactly one.                *)
THEOREM MessagesAccountedAlways == Spec => []MessagesAccounted
<1>1. MessagesInv => MessagesAccounted
  <2> SUFFICES ASSUME MessagesInv PROVE MessagesAccounted OBVIOUS
  <2>1. ASSUME NEW m \in Accepted PROVE OnePlaceForMessage(m)
    <3>1. m \in MessageIds
      <4>1. accepted \in 0..MaxMessages /\ MaxMessages \in Nat
        BY AgentLoopAssumption DEF MessagesInv, MessageTypes
      <4> QED BY <4>1 DEF Accepted, MessageIds
    <3>2. Placed(m) /\ MessageTypes BY <3>1 DEF MessagesInv
    <3>3. \A c \in Callers : Occurrences(m, held[c]) \in Nat BY <3>2, Numbers
    <3>4. \A c \in Holders(m) : Occurrences(m, held[c]) = 1 BY <3>2, <3>3 DEF Placed, Holders
    <3>5. InSet(m, Accepted) = 1 BY DEF InSet
    <3> QED BY <3>2, <3>4, <3>5 DEF Placed, OnePlaceForMessage, Holders
  <2> QED BY <2>1 DEF MessagesInv, MessagesAccounted
<1>2. Spec => []MessagesInv
  <2>1. Inv /\ MessagesInv /\ [Next]_vars => MessagesInv' BY StepMessages
  <2> QED BY InitMessages, Invariance, <2>1, PTL DEF Spec
<1> QED BY <1>1, <1>2, PTL
=============================================================================
