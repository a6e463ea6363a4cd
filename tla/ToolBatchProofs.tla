--------------------------- MODULE ToolBatchProofs ---------------------------
(***************************************************************************)
(* Proofs about ToolBatch for any number of calls, any parallel limit and  *)
(* any set of hanging tools: the types, and the safety properties that the *)
(* run tool_batch checks on four calls.                                    *)
(*                                                                         *)
(* The inductive invariant says where each call is (Places), how it was    *)
(* answered (Answers) and how the turnstile stands (Turns).                *)
(***************************************************************************)
EXTENDS ToolBatch, FiniteSetTheorems, TLAPS

Started(i) == tool[i] # "idle"

(* Where each call is: not yet prepared, waiting, running, or answered.      *)
Places ==
  /\ phase \in {"fill", "cut"} => mode = "parallel"
  /\ mode = "parallel" /\ phase # "prepare" => index = N + 1
  /\ mode = "sequential" => waiting = {}
  /\ mode = "sequential" /\ phase = "await" => index \in Calls /\ running = {index}
  /\ mode = "sequential" /\ phase # "await" => running = {}
  /\ phase \in {"prepare", "done"} => running = {}
  /\ mode = "parallel" /\ phase = "prepare" => \A i \in Calls : ~Started(i)
  /\ phase = "done" => index = N + 1
  /\ \A i \in Calls : i >= index => /\ outcome[i] = "none" /\ i \notin waiting
                                    /\ Started(i) => i \in running
  /\ \A i \in running : outcome[i] = "none" /\ Started(i) /\ i \notin waiting
  /\ phase # "done" => \A i \in waiting : outcome[i] = "none" /\ ~Started(i)
  /\ \A i \in Calls : i < index /\ outcome[i] = "none" =>
       phase # "done" /\ (i \in waiting \/ i \in running)
  /\ gated \subseteq running
  /\ mode = "sequential" => gated = {}
  (* Without an abort the batch never stops waiting with a call unanswered.  *)
  /\ phase = "await" /\ ~aborted /\ waiting # {} => running # {}
  /\ phase = "cut" /\ ~aborted => waiting = {} /\ running = {}

(* How the calls were answered.                                              *)
Answers ==
  /\ \A i \in Calls : ends[i] = IF outcome[i] = "none" THEN 0 ELSE 1
  /\ \A i \in Calls : outcome[i] = "not_run" => aborted /\ ~Started(i)
  /\ \A i \in Calls : outcome[i] = "unfinished" => aborted /\ Started(i)
  /\ \A i \in Calls : outcome[i] = "own" => tool[i] = "returned"
  /\ \A i \in Calls : outcome[i] = "immediate" => ~Started(i)
  /\ mode = "sequential" => messages = [k \in 1..(index - 1) |-> k]
  /\ phase = "done" => messages = [k \in Calls |-> k]

(* The turns are given out in call order, one after the other, and a turn    *)
(* is where its tool says it is.                                             *)
Turns ==
  /\ next <= starts
  /\ \A i \in Calls : InTurn(i) => /\ mode = "parallel" /\ i \in ordered /\ Started(i)
                                   /\ seq[i] < starts
  /\ \A i \in ordered : mode = "parallel" /\ Started(i) => InTurn(i)
  /\ \A k \in 0..(starts - 1) : \E i \in Calls : seq[i] = k
  /\ \A i, j \in Calls : InTurn(i) /\ InTurn(j) /\ i < j => seq[i] < seq[j]
  /\ \A i \in Calls, j \in waiting : InTurn(i) => i < j
  /\ \A i, j \in Calls : InTurn(i) /\ outcome[j] = "not_run" => i < j
  /\ phase = "fill" => \A j \in Calls : outcome[j] # "not_run"
  /\ \A i \in Calls : InTurn(i) =>
       /\ seq[i] = next => tool[i] \in {"spawned", "executing"}
       /\ seq[i] < next => tool[i] \in {"dispatched", "returned"}
       /\ seq[i] > next => tool[i] = "spawned"

IInv == TypeOK /\ Places /\ Answers /\ Turns

USE DEF Calls, plan, batch, pool, env

(* Result messages grow by one call at a time, in call order.                *)
LEMMA NextMessage ==
  ASSUME NEW n \in Calls, NEW s, s = [k \in 1..(n - 1) |-> k]
  PROVE  /\ s \in Seq(Calls)
         /\ Append(s, n) = [k \in 1..n |-> k]
         /\ Append(s, n) \in Seq(Calls)
<1>1. n \in Nat /\ n >= 1 BY ToolBatchAssumption
<1>2. s \in Seq(Calls) /\ Len(s) = n - 1 BY <1>1, ToolBatchAssumption
<1>3. Append(s, n) \in Seq(Calls) /\ Len(Append(s, n)) = n BY <1>1, <1>2
<1>4. \A k \in 1..n : Append(s, n)[k] = k BY <1>1, <1>2
<1>5. Append(s, n) = [k \in 1..n |-> k] BY <1>1, <1>3, <1>4
<1> QED BY <1>2, <1>3, <1>5

(* The first state satisfies the invariant.                                  *)
LEMMA InitIInv == Init => IInv
<1> SUFFICES ASSUME Init PROVE IInv OBVIOUS
<1> USE ToolBatchAssumption DEF Init
<1>1. TypeOK
  <2>1. aborted \in BOOLEAN /\ shedding \in BOOLEAN OBVIOUS
  <2>2. messages \in Seq(Calls) OBVIOUS
  <2>3. /\ seq \in [Calls -> Nat \cup {-1}] /\ tool \in [Calls -> ToolStates]
        /\ outcome \in [Calls -> Outcomes] /\ ends \in [Calls -> Nat]
    BY DEF ToolStates, Outcomes
  <2>4. /\ index \in 1..(N + 1) /\ starts \in Nat /\ next \in Nat
        /\ waiting \in SUBSET Calls /\ running \in SUBSET Calls /\ gated \in SUBSET Calls
    OBVIOUS
  <2> QED BY <2>1, <2>2, <2>3, <2>4 DEF TypeOK
<1>2. Places BY DEF Places, Started
<1>3. messages = [k \in 1..(index - 1) |-> k]
  <2>1. 1..(index - 1) = {} OBVIOUS
  <2> QED BY <2>1
<1>4. Answers BY <1>3 DEF Answers, Started
<1>5. Turns BY DEF Turns, Started, InTurn
<1> QED BY <1>1, <1>2, <1>4, <1>5 DEF IInv

(* Answering a call keeps the types, and counts one end for it.              *)
LEMMA AnswerTypes ==
  ASSUME TypeOK, NEW i \in Calls, NEW how \in Outcomes, Answer(i, how)
  PROVE  /\ outcome' \in [Calls -> Outcomes] /\ ends' \in [Calls -> Nat]
         /\ outcome'[i] = how /\ ends'[i] = ends[i] + 1
         /\ \A j \in Calls \ {i} : outcome'[j] = outcome[j] /\ ends'[j] = ends[j]
BY DEF TypeOK, Answer

(* Where a turn stands, from what its tool does.                             *)
LEMMA TurnOf ==
  ASSUME IInv, NEW i \in Calls, InTurn(i)
  PROVE  /\ seq[i] \in Nat /\ next \in Nat /\ seq[i] < starts
         /\ seq[i] = next => tool[i] \in {"spawned", "executing"}
         /\ seq[i] < next => tool[i] \in {"dispatched", "returned"}
         /\ seq[i] > next => tool[i] = "spawned"
BY DEF IInv, TypeOK, Turns, InTurn

(* A call that executes in its turn has the current one.                     *)
LEMMA ExecutingHasTurn ==
  ASSUME IInv, NEW i \in Calls, tool[i] = "executing", InTurn(i)
  PROVE  seq[i] = next /\ next < starts
BY DEF IInv, TypeOK, Turns, InTurn

(* Passing the turn on keeps the invariant, at the dispatch point or when    *)
(* the call returns.                                                         *)
LEMMA ReleaseIInv ==
  ASSUME IInv, NEW i \in Calls, tool[i] = "executing",
         NEW how \in {"dispatched", "returned"},
         tool' = [tool EXCEPT ![i] = how],
         Release(i), UNCHANGED <<seq, plan, batch, env>>
  PROVE  IInv'
<1> USE DEF IInv, TypeOK, InTurn
<1>1. next' \in Nat /\ next' <= starts
  <2>1. CASE InTurn(i) BY <2>1, ExecutingHasTurn DEF Release
  <2>2. CASE ~InTurn(i) BY <2>2 DEF Release, Turns
  <2> QED BY <2>1, <2>2
<1>2. TypeOK' BY <1>1 DEF ToolStates, Outcomes
<1>3. \A j \in Calls : Started(j)' <=> Started(j) BY DEF Started
<1>4. Places' BY <1>3 DEF Places
<1>5. Answers' BY <1>3 DEF Answers
<1>6. ASSUME NEW j \in Calls, InTurn(j)
      PROVE  /\ seq[j] = next' => tool'[j] \in {"spawned", "executing"}
             /\ seq[j] < next' => tool'[j] \in {"dispatched", "returned"}
             /\ seq[j] > next' => tool'[j] = "spawned"
  <2>1. CASE InTurn(i)
    <3>1. seq[i] = next /\ next' = next + 1 BY <2>1, ExecutingHasTurn DEF Release
    <3>2. CASE j = i BY <2>1, <3>1, <3>2
    <3>3. CASE j # i
      <4>1. seq[j] # seq[i] BY <1>6, <2>1, <3>3, SMTT(30) DEF Turns
      <4>2. tool'[j] = tool[j] BY <3>3
      <4>3. /\ seq[j] \in Nat /\ next \in Nat
            /\ seq[j] < next => tool[j] \in {"dispatched", "returned"}
            /\ seq[j] > next => tool[j] = "spawned"
        BY <1>6, SMTT(30) DEF Turns
      <4> QED BY <3>1, <4>1, <4>2, <4>3
    <3> QED BY <3>2, <3>3
  <2>2. CASE ~InTurn(i) BY <1>6, <2>2 DEF Release, Turns
  <2> QED BY <2>1, <2>2
<1>7. Turns' BY <1>1, <1>3, <1>6 DEF Turns
<1> QED BY <1>2, <1>4, <1>5, <1>7

(* Every step keeps it: one step per action, one fact per conjunct.          *)
LEMMA StepIInv == IInv /\ [Next]_vars => IInv'
<1> SUFFICES ASSUME IInv, [Next]_vars PROVE IInv' OBVIOUS
<1>1. ASSUME SkipCall PROVE IInv'
  <2> USE ToolBatchAssumption DEF IInv, TypeOK
  <2>1. PICK how \in {"not_run", "immediate"} :
          Answer(index, how) /\ (how = "not_run" <=> aborted)
    BY <1>1 DEF SkipCall, AnswerNotRun
  <2>2. how \in Outcomes /\ index \in Calls BY <1>1 DEF SkipCall, Outcomes
  <2>3. /\ outcome' \in [Calls -> Outcomes] /\ ends' \in [Calls -> Nat]
        /\ outcome'[index] = how /\ ends'[index] = ends[index] + 1
        /\ \A j \in Calls \ {index} : outcome'[j] = outcome[j] /\ ends'[j] = ends[j]
    BY <2>1, <2>2, AnswerTypes
  <2>4. index' = index + 1 /\ phase = "prepare" BY <1>1 DEF SkipCall, NextCall
  <2>5. UNCHANGED <<phase, waiting, running, gated, starts, pool, plan, env>>
    BY <1>1 DEF SkipCall
  <2>6. /\ messages' \in Seq(Calls)
        /\ mode = "sequential" => messages' = [k \in 1..index |-> k]
    <3>1. CASE mode = "sequential" BY <1>1, <2>2, <3>1, NextMessage DEF SkipCall, Answers
    <3>2. CASE mode = "parallel" BY <1>1, <3>2 DEF SkipCall
    <3> QED BY <3>1, <3>2
  <2>7. TypeOK'
    <3>1. aborted' \in BOOLEAN /\ shedding' \in BOOLEAN BY <2>5
    <3>2. index' \in 1..(N + 1) BY <2>2, <2>4
    <3> QED BY <2>3, <2>5, <2>6, <3>1, <3>2
  <2>8. Places'
    <3>1. /\ running = {} /\ index \notin waiting /\ ~Started(index)
          /\ \A i \in waiting : outcome[i] = "none" /\ ~Started(i)
      BY <2>2, <2>4 DEF Places, Started
    <3>2. \A i \in Calls : i >= index' => outcome'[i] = "none" /\ i \notin waiting /\ ~Started(i)
      BY <2>2, <2>3, <2>4 DEF Places, Started
    <3>3. \A i \in waiting : outcome'[i] = "none" BY <2>3, <3>1
    <3>4. \A i \in Calls : i < index' /\ outcome'[i] = "none" => i \in waiting
      <4>1. outcome'[index] # "none" BY <2>1, <2>3
      <4>2. \A i \in Calls : i < index' => i = index \/ i < index BY <2>2, <2>4
      <4> QED BY <2>3, <2>4, <3>1, <4>1, <4>2 DEF Places
    <3> QED BY <2>4, <2>5, <3>1, <3>2, <3>3, <3>4 DEF Places, Started
  <2>9. Answers'
    <3>1. \A i \in Calls : ends'[i] = IF outcome'[i] = "none" THEN 0 ELSE 1
      BY <2>2, <2>3, SMTT(30) DEF Answers, Places
    <3>2. ~Started(index)
      BY <2>2, <2>4 DEF Places, Started
    <3>3. \A i \in Calls :
            /\ outcome'[i] = "not_run" => aborted /\ ~Started(i)
            /\ outcome'[i] = "unfinished" => aborted /\ Started(i)
            /\ outcome'[i] = "own" => tool[i] = "returned"
            /\ outcome'[i] = "immediate" => ~Started(i)
      BY <2>1, <2>2, <2>3, <3>2 DEF Answers
    <3> QED BY <2>4, <2>5, <2>6, <3>1, <3>3 DEF Answers, Started
  <2>10. Turns'
    <3>1. \A i \in Calls : ~InTurn(i)
      BY <2>4 DEF Turns, Places, Started, InTurn
    <3> QED BY <2>4, <2>5, <3>1 DEF Turns, Started, InTurn
  <2> QED BY <2>7, <2>8, <2>9, <2>10
<1>2. ASSUME PrepareParallel PROVE IInv'
  <2>1. TypeOK'
    BY <1>2, ToolBatchAssumption DEF IInv, TypeOK, PrepareParallel, NextCall, ToolStates,
       Outcomes
  <2>2. Places'
    BY <1>2 DEF IInv, Places, Started, PrepareParallel, NextCall
  <2>3. Answers'
    BY <1>2 DEF IInv, Answers, Started, PrepareParallel, NextCall
  <2>4. Turns'
    BY <1>2 DEF IInv, Places, Turns, Started, InTurn, PrepareParallel, NextCall
  <2> QED BY <2>1, <2>2, <2>3, <2>4 DEF IInv
<1>3. ASSUME AllPrepared PROVE IInv'
  <2>1. TypeOK'
    BY <1>3 DEF IInv, TypeOK, AllPrepared
  <2>2. Places'
    BY <1>3 DEF IInv, Places, Started, AllPrepared
  <2>3. Answers'
    BY <1>3 DEF IInv, Answers, Started, AllPrepared
  <2>4. Turns'
    BY <1>3 DEF IInv, Answers, Turns, Started, InTurn, AllPrepared
  <2> QED BY <2>1, <2>2, <2>3, <2>4 DEF IInv
<1>4. ASSUME FillDone PROVE IInv'
  <2>1. TypeOK'
    BY <1>4 DEF IInv, TypeOK, FillDone
  <2>2. Places'
    <3>1. waiting # {} => running # {}
      <4>1. SUFFICES ASSUME ~CanAcquire, running = {} PROVE FALSE BY <1>4 DEF FillDone
      <4>2. gated = {} /\ Cardinality(running) = 0
        BY <4>1, FS_EmptySet DEF IInv, Places
      <4> QED BY <4>1, <4>2, ToolBatchAssumption DEF CanAcquire
    <3>2. phase = "fill" /\ phase' = "await" BY <1>4 DEF FillDone
    <3>3. UNCHANGED <<index, waiting, running, gated, starts, outcome, ends, messages, pool,
                      plan, env>>
      BY <1>4 DEF FillDone
    <3> QED BY <3>1, <3>2, <3>3 DEF IInv, Places, Started
  <2>3. Answers'
    BY <1>4 DEF IInv, Answers, Started, FillDone
  <2>4. Turns'
    BY <1>4 DEF IInv, Turns, Started, InTurn, FillDone
  <2> QED BY <2>1, <2>2, <2>3, <2>4 DEF IInv
<1>5. ASSUME StopWaiting PROVE IInv'
  <2>1. TypeOK'
    BY <1>5 DEF IInv, TypeOK, StopWaiting
  <2>2. Places'
    BY <1>5 DEF IInv, Places, Started, StopWaiting
  <2>3. Answers'
    BY <1>5 DEF IInv, Answers, Started, StopWaiting
  <2>4. Turns'
    BY <1>5 DEF IInv, Turns, Started, InTurn, StopWaiting
  <2> QED BY <2>1, <2>2, <2>3, <2>4 DEF IInv
<1>6. ASSUME Conclude PROVE IInv'
  <2>1. TypeOK'
    BY <1>6, ToolBatchAssumption DEF IInv, TypeOK, Conclude, ToolStates, Outcomes
  <2>2. Places'
    BY <1>6, ToolBatchAssumption DEF IInv, Places, Conclude
  <2>3. Answers'
    BY <1>6, ToolBatchAssumption DEF IInv, Places, Answers, Started, Conclude
  <2>4. Turns'
    BY <1>6 DEF IInv, Turns, Started, InTurn, Conclude
  <2> QED BY <2>1, <2>2, <2>3, <2>4 DEF IInv
<1>7. ASSUME RunSequential PROVE IInv'
  <2>1. TypeOK'
    BY <1>7 DEF IInv, TypeOK, RunSequential, ToolStates, Outcomes
  <2>2. Places'
    BY <1>7 DEF IInv, TypeOK, Places, Started, RunSequential
  <2>3. Answers'
    BY <1>7 DEF IInv, Places, Answers, Started, RunSequential
  <2>4. Turns'
    BY <1>7 DEF IInv, Turns, InTurn, RunSequential
  <2> QED BY <2>1, <2>2, <2>3, <2>4 DEF IInv
<1>8. ASSUME SettleSequential PROVE IInv'
  <2> USE ToolBatchAssumption DEF IInv, TypeOK
  <2>1. PICK how \in {"own", "unfinished"} :
          /\ Answer(index, how)
          /\ how = "own" => tool[index] = "returned"
          /\ how = "unfinished" => aborted
    BY <1>8 DEF SettleSequential
  <2>2. /\ how \in Outcomes /\ index \in Calls /\ running = {index} /\ outcome[index] = "none"
        /\ Started(index) /\ waiting = {} /\ mode = "sequential" /\ phase = "await"
    BY <1>8, <2>1 DEF SettleSequential, Outcomes, Places
  <2>3. /\ outcome' \in [Calls -> Outcomes] /\ ends' \in [Calls -> Nat]
        /\ outcome'[index] = how /\ ends'[index] = ends[index] + 1
        /\ \A j \in Calls \ {index} : outcome'[j] = outcome[j] /\ ends'[j] = ends[j]
    BY <2>1, <2>2, AnswerTypes
  <2>4. index' = index + 1 /\ phase' = "prepare" /\ running' = {}
    BY <1>8 DEF SettleSequential, NextCall
  <2>5. UNCHANGED <<waiting, gated, starts, pool, plan, env>> BY <1>8 DEF SettleSequential
  <2>6. messages' \in Seq(Calls) /\ messages' = [k \in 1..index |-> k]
    BY <1>8, <2>2, NextMessage DEF SettleSequential, Answers
  <2>7. TypeOK'
    <3>1. aborted' \in BOOLEAN /\ shedding' \in BOOLEAN BY <2>5
    <3>2. index' \in 1..(N + 1) BY <2>2, <2>4
    <3> QED BY <2>3, <2>4, <2>5, <2>6, <3>1, <3>2
  <2>8. Places'
    <3>1. \A i \in Calls : i >= index' => outcome'[i] = "none" /\ ~Started(i)
      BY <2>2, <2>3, <2>4 DEF Places, Started
    <3>2. \A i \in Calls : i < index' => outcome'[i] # "none"
      <4>1. outcome'[index] # "none" BY <2>1, <2>3
      <4>2. \A i \in Calls : i < index' => i = index \/ i < index BY <2>2, <2>4
      <4> QED BY <2>2, <2>3, <4>1, <4>2 DEF Places
    <3>3. gated' = {} BY <2>2, <2>5 DEF Places
    <3> QED BY <2>2, <2>4, <2>5, <3>1, <3>2, <3>3 DEF Places, Started
  <2>9. Answers'
    <3>1. \A i \in Calls : ends'[i] = IF outcome'[i] = "none" THEN 0 ELSE 1
      <4>1. ends'[index] = 1 /\ outcome'[index] # "none" BY <2>1, <2>2, <2>3 DEF Answers
      <4>2. \A i \in Calls \ {index} : ends'[i] = IF outcome'[i] = "none" THEN 0 ELSE 1
        BY <2>3 DEF Answers
      <4> QED BY <4>1, <4>2
    <3>2. \A i \in Calls :
            /\ outcome'[i] = "not_run" => aborted /\ ~Started(i)
            /\ outcome'[i] = "unfinished" => aborted /\ Started(i)
            /\ outcome'[i] = "own" => tool[i] = "returned"
            /\ outcome'[i] = "immediate" => ~Started(i)
      BY <2>1, <2>2, <2>3 DEF Answers
    <3> QED BY <2>2, <2>4, <2>5, <2>6, <3>1, <3>2 DEF Answers, Started
  <2>10. Turns'
    <3>1. \A i \in Calls : ~InTurn(i) BY <2>2 DEF Turns, InTurn
    <3> QED BY <2>2, <2>4, <2>5, <3>1 DEF Turns, Started, InTurn
  <2> QED BY <2>7, <2>8, <2>9, <2>10
<1>9. ASSUME SequentialDone PROVE IInv'
  <2>1. TypeOK'
    BY <1>9 DEF IInv, TypeOK, SequentialDone
  <2>2. Places'
    BY <1>9, ToolBatchAssumption DEF IInv, Places, SequentialDone
  <2>3. Answers'
    BY <1>9, ToolBatchAssumption DEF IInv, Answers, Started, SequentialDone
  <2>4. Turns'
    BY <1>9 DEF IInv, Turns, InTurn, SequentialDone
  <2> QED BY <2>1, <2>2, <2>3, <2>4 DEF IInv
<1>10. ASSUME NEW i \in Calls, Launch(i) PROVE IInv'
  <2>1. TypeOK'
    <3>1. aborted' \in BOOLEAN /\ shedding' \in BOOLEAN BY <1>10 DEF Launch, IInv, TypeOK
    <3>2. seq' \in [Calls -> Nat \cup {-1}] /\ starts' \in Nat
      BY <1>10 DEF Launch, IInv, TypeOK
    <3>3. tool' \in [Calls -> ToolStates] BY <1>10 DEF Launch, IInv, TypeOK, ToolStates
    <3> QED BY <1>10, <3>1, <3>2, <3>3 DEF Launch, IInv, TypeOK
  <2>2. Places'
    BY <1>10 DEF IInv, TypeOK, Places, Started, Launch, NextInLine, Earliest
  <2>3. Answers'
    BY <1>10 DEF IInv, Places, Answers, Started, Launch, NextInLine, Earliest
  <2>4. Turns'
    <3> USE DEF IInv, TypeOK
    <3>1. /\ i \in waiting /\ phase = "fill" /\ mode = "parallel" /\ ~Started(i)
          /\ tool' = [tool EXCEPT ![i] = "spawned"] /\ waiting' = waiting \ {i}
          /\ \A j \in waiting : i <= j
          /\ UNCHANGED <<mode, ordered, phase, index, outcome, next>>
      BY <1>10 DEF Launch, NextInLine, Earliest, Places
    <3>2. ~InTurn(i) BY <3>1 DEF Turns
    <3>3. \A j \in Calls : InTurn(j) => j < i BY <3>1 DEF Turns
    <3>4. CASE i \notin ordered
      <4>1. UNCHANGED <<seq, starts>> BY <1>10, <3>4 DEF Launch
      <4>2. \A j \in Calls : InTurn(j) => tool'[j] = tool[j] BY <3>1, <3>2
      <4> QED BY <3>1, <3>2, <3>4, <4>1, <4>2 DEF Turns, Started, InTurn
    <3>5. CASE i \in ordered
      <4>1. seq' = [seq EXCEPT ![i] = starts] /\ starts' = starts + 1
        BY <1>10, <3>5 DEF Launch
      <4>2. /\ seq'[i] = starts /\ tool'[i] = "spawned"
            /\ \A j \in Calls \ {i} : seq'[j] = seq[j] /\ tool'[j] = tool[j]
        BY <3>1, <4>1
      <4>3. next' <= starts' BY <3>1, <4>1 DEF Turns
      <4>4. \A j \in Calls : InTurn(j)' => /\ mode' = "parallel" /\ j \in ordered' /\ Started(j)'
                                          /\ seq'[j] < starts'
        BY <3>1, <3>5, <4>1, <4>2 DEF Turns, Started, InTurn
      <4>5. \A j \in ordered' : mode' = "parallel" /\ Started(j)' => InTurn(j)'
        BY <3>1, <4>1, <4>2 DEF Turns, Started, InTurn
      <4>6. \A k \in 0..(starts' - 1) : \E j \in Calls : seq'[j] = k
        <5>1. SUFFICES ASSUME NEW k \in 0..(starts' - 1) PROVE \E j \in Calls : seq'[j] = k
          OBVIOUS
        <5>2. CASE k = starts BY <4>2, <5>2
        <5>3. CASE k # starts
          <6>1. k \in 0..(starts - 1) BY <4>1, <5>3
          <6>2. PICK j \in Calls : seq[j] = k BY <6>1 DEF Turns
          <6>3. j # i BY <3>2, <6>1, <6>2 DEF InTurn
          <6> QED BY <4>2, <6>2, <6>3
        <5> QED BY <5>2, <5>3
      <4>7. \A j, k \in Calls : InTurn(j)' /\ InTurn(k)' /\ j < k => seq'[j] < seq'[k]
        BY <3>3, <4>1, <4>2 DEF Turns, InTurn
      <4>8. \A j \in Calls, k \in waiting' : InTurn(j)' => j < k
        BY <3>1, <3>3, <4>2 DEF InTurn
      <4>9. \A j \in Calls : outcome'[j] # "not_run" BY <3>1 DEF Turns
      <4>10. \A j \in Calls : InTurn(j)' =>
               /\ seq'[j] = next' => tool'[j] \in {"spawned", "executing"}
               /\ seq'[j] < next' => tool'[j] \in {"dispatched", "returned"}
               /\ seq'[j] > next' => tool'[j] = "spawned"
        BY <3>1, <4>2 DEF Turns, InTurn
      <4> QED BY <4>3, <4>4, <4>5, <4>6, <4>7, <4>8, <4>9, <4>10 DEF Turns
    <3> QED BY <3>4, <3>5
  <2> QED BY <2>1, <2>2, <2>3, <2>4 DEF IInv
<1>11. ASSUME NEW i \in Calls, Settle(i) PROVE IInv'
  <2>1. TypeOK'
    BY <1>11 DEF IInv, TypeOK, Answers, Settle, Answer, ToolStates, Outcomes
  <2>2. Places'
    BY <1>11, ToolBatchAssumption DEF IInv, TypeOK, Places, Started, Settle, Answer
  <2>3. Answers'
    BY <1>11 DEF IInv, TypeOK, Places, Answers, Started, Settle, Answer
  <2>4. Turns'
    BY <1>11 DEF IInv, Answers, Turns, Started, InTurn, Settle, Answer
  <2> QED BY <2>1, <2>2, <2>3, <2>4 DEF IInv
<1>12. ASSUME NEW i \in Calls, Begin(i) PROVE IInv'
  <2>1. TypeOK'
    BY <1>12 DEF IInv, TypeOK, Begin, ToolStates, Outcomes
  <2>2. Places'
    BY <1>12 DEF IInv, Places, Started, Begin
  <2>3. Answers'
    BY <1>12 DEF IInv, Answers, Started, Begin
  <2>4. Turns'
    BY <1>12 DEF IInv, Turns, Started, InTurn, Begin
  <2> QED BY <2>1, <2>2, <2>3, <2>4 DEF IInv
<1>13. ASSUME NEW i \in Calls, DispatchPoint(i) PROVE IInv'
  BY <1>13, ReleaseIInv DEF DispatchPoint
<1>14. ASSUME NEW i \in Calls, Return(i) PROVE IInv'
  <2>1. CASE tool[i] = "executing" /\ Release(i)
    BY <1>14, <2>1, ReleaseIInv DEF Return
  <2>2. CASE tool[i] = "dispatched" /\ UNCHANGED next
    <3> USE <1>14, <2>2 DEF Return, IInv, TypeOK
    <3>1. tool' = [tool EXCEPT ![i] = "returned"] /\ UNCHANGED <<next, seq, plan, batch, env>>
      OBVIOUS
    <3>2. \A j \in Calls : Started(j)' <=> Started(j) BY <3>1 DEF Started
    <3>3. TypeOK' BY <3>1 DEF ToolStates
    <3>4. Places' BY <3>1, <3>2 DEF Places
    <3>5. Answers' BY <3>1, <3>2 DEF Answers
    <3>6. Turns' BY <3>1, <3>2 DEF Turns, InTurn
    <3> QED BY <3>3, <3>4, <3>5, <3>6
  <2> QED BY <1>14, <2>1, <2>2 DEF Return
<1>15. ASSUME Abort PROVE IInv'
  <2>1. TypeOK'
    BY <1>15 DEF IInv, TypeOK, Abort
  <2>2. Places'
    BY <1>15 DEF IInv, Places, Started, Abort
  <2>3. Answers'
    BY <1>15 DEF IInv, Answers, Started, Abort
  <2>4. Turns'
    BY <1>15 DEF IInv, Turns, Started, InTurn, Abort
  <2> QED BY <2>1, <2>2, <2>3, <2>4 DEF IInv
<1>16. ASSUME SwitchShedding PROVE IInv'
  <2>1. TypeOK'
    BY <1>16 DEF IInv, TypeOK, SwitchShedding
  <2>2. Places'
    BY <1>16 DEF IInv, Places, Started, SwitchShedding
  <2>3. Answers'
    BY <1>16 DEF IInv, Answers, Started, SwitchShedding
  <2>4. Turns'
    BY <1>16 DEF IInv, Turns, Started, InTurn, SwitchShedding
  <2> QED BY <2>1, <2>2, <2>3, <2>4 DEF IInv
<1>17. ASSUME UNCHANGED vars PROVE IInv'
  <2>1. TypeOK'
    BY <1>17 DEF IInv, TypeOK, vars
  <2>2. Places'
    BY <1>17 DEF IInv, Places, Started, vars
  <2>3. Answers'
    BY <1>17 DEF IInv, Answers, Started, vars
  <2>4. Turns'
    BY <1>17 DEF IInv, Turns, Started, InTurn, vars
  <2> QED BY <2>1, <2>2, <2>3, <2>4 DEF IInv
<1> QED BY <1>1, <1>2, <1>3, <1>4, <1>5, <1>6, <1>7, <1>8, <1>9, <1>10, <1>11, <1>12, <1>13,
   <1>14, <1>15, <1>16, <1>17 DEF Next, BatchStep, ToolStep

(* The invariant holds in every reachable state.                             *)
THEOREM Invariance == Spec => []IInv
BY InitIInv, StepIInv, PTL DEF Spec

-----------------------------------------------------------------------------
(* Every variable keeps its type.                                            *)
THEOREM TypeCorrect == Spec => []TypeOK
<1>1. IInv => TypeOK BY DEF IInv
<1> QED BY Invariance, <1>1, PTL

(* Every call of the message is ended exactly once, and the result messages  *)
(* of a finished batch are one per call, in call order.                      *)
THEOREM AnsweredOnceAlways == Spec => []AnsweredOnce
<1>1. IInv => AnsweredOnce
  <2>1. SUFFICES ASSUME IInv PROVE AnsweredOnce OBVIOUS
  <2>2. ASSUME phase = "done", NEW i \in Calls PROVE outcome[i] # "none"
    <3>1. i < index BY <2>1, <2>2, ToolBatchAssumption DEF IInv, Places
    <3> QED BY <2>1, <2>2, <3>1 DEF IInv, Places
  <2> QED BY <2>1, <2>2 DEF IInv, Answers, AnsweredOnce
<1> QED BY Invariance, <1>1, PTL

(* What an abort's answers say of a call is true of it.                      *)
THEOREM CutShortTruthfullyAlways == Spec => []CutShortTruthfully
<1>1. IInv => CutShortTruthfully BY DEF IInv, Answers, CutShortTruthfully, Started
<1> QED BY Invariance, <1>1, PTL

(* Ordered calls pass their dispatch points in call order.                   *)
THEOREM OrderedStartsAlways == Spec => []OrderedStarts
<1>1. IInv => OrderedStarts
  <2>1. SUFFICES ASSUME IInv, mode = "parallel", NEW i \in ordered, NEW j \in ordered, i < j,
                        tool[j] \in {"executing", "dispatched", "returned"}
                 PROVE  tool[i] \in {"dispatched", "returned"} \/ outcome[i] = "immediate"
    BY DEF OrderedStarts
  <2> USE ToolBatchAssumption DEF IInv, TypeOK
  <2> i \in Calls /\ j \in Calls BY <2>1
  <2>2. InTurn(j) /\ seq[j] <= next
    <3>1. InTurn(j) BY <2>1 DEF Turns, Started
    <3>2. /\ seq[j] \in Nat /\ next \in Nat
          /\ seq[j] > next => tool[j] = "spawned"
      BY <2>1, <3>1, TurnOf
    <3> QED BY <2>1, <3>1, <3>2
  <2>3. CASE Started(i)
    <3>1. InTurn(i) BY <2>1, <2>3 DEF Turns
    <3>2. seq[i] < seq[j] BY <2>1, <2>2, <3>1 DEF Turns, InTurn
    <3>3. /\ seq[i] \in Nat /\ seq[j] \in Nat /\ next \in Nat
          /\ seq[i] < next => tool[i] \in {"dispatched", "returned"}
      BY <2>1, <2>2, <3>1, TurnOf
    <3> QED BY <2>2, <3>2, <3>3
  <2>4. CASE ~Started(i)
    <3>1. index = N + 1 /\ i \in Calls /\ i < index BY <2>1, <2>2 DEF Places, Turns
    <3>2. i \notin waiting BY <2>1, <2>2 DEF Turns, InTurn
    <3>3. i \notin running BY <2>1, <2>4 DEF Places
    <3>4. outcome[i] # "none" BY <2>1, <3>1, <3>2, <3>3 DEF Places
    <3>5. outcome[i] # "not_run" BY <2>1, <2>2 DEF Turns
    <3>6. outcome[i] # "unfinished" BY <2>1, <2>4 DEF Answers
    <3>7. outcome[i] # "own" BY <2>1, <2>4 DEF Answers, Started
    <3> QED BY <2>1, <3>4, <3>5, <3>6, <3>7 DEF Outcomes
  <2> QED BY <2>3, <2>4
<1> QED BY Invariance, <1>1, PTL

(* The turn a call waits for is held by a call that has started and has not  *)
(* passed it on: nobody waits for a call that is not running.                *)
THEOREM TurnIsHeldAlways == Spec => []TurnIsHeld
<1>1. IInv => TurnIsHeld
  <2>1. SUFFICES ASSUME IInv, NEW i \in Calls, tool[i] = "spawned", InTurn(i)
                 PROVE  \E j \in Calls : /\ seq[j] = next /\ seq[j] <= seq[i]
                                         /\ tool[j] \in {"spawned", "executing"}
    BY DEF TurnIsHeld
  <2> USE DEF IInv, TypeOK
  <2>2. next <= seq[i] /\ seq[i] < starts
    BY <2>1, TurnOf, SMTT(30) DEF InTurn
  <2>3. PICK j \in Calls : seq[j] = next
    <3>1. next \in 0..(starts - 1) BY <2>1, <2>2 DEF InTurn
    <3> QED BY <3>1, <2>1 DEF Turns
  <2>4. InTurn(j) BY <2>1, <2>3 DEF InTurn
  <2>5. tool[j] \in {"spawned", "executing"} BY <2>1, <2>3, <2>4 DEF Turns
  <2> QED BY <2>2, <2>3, <2>5
<1> QED BY Invariance, <1>1, PTL
=============================================================================
