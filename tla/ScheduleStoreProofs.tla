------------------------- MODULE ScheduleStoreProofs -------------------------
(***************************************************************************)
(* Proofs about ScheduleStore for any tasks, minutes, failed writes and    *)
(* deaths, when two processes share the store, which is what store.rs      *)
(* speaks of (store.rs:6-8): the store keeps the promise of Schedule, so a *)
(* due minute of a task is fired once, and a task does not change hands    *)
(* while its owner lives.  Any number of processes may share it while none *)
(* dies.  With a death and a third process (Few does not hold), two that   *)
(* outlive the holder of a lock may both find it old: one removes it and   *)
(* locks anew, the other then removes the new lock, and both work on the   *)
(* file at once.                                                           *)
(***************************************************************************)
EXTENDS ScheduleStore, WellFoundedInduction, FiniteSetTheorems, TLAPS

(* Two processes at most, or none dies: whoever meets the lock of a dead     *)
(* process is alone.                                                         *)
Few ==
  /\ IsFiniteSet(Procs)
  /\ (\A p, q, r \in Procs : p = q \/ q = r \/ p = r) \/ MaxCrashes = 0

Alone(p) == \A q \in Procs \ {p} : ~Alive(q)
Working(p) == pc[p] \in {"read", "write", "return"}

(* Who works on the file has the lock or nobody to fear.                     *)
Exclusive ==
  /\ \A p \in Procs : Working(p) => IF held[p] THEN lock = p ELSE Alone(p)
  /\ \A p \in Procs : pc[p] = "unlink" => Alone(p)
  /\ stale => ~Alive(lock)
  /\ MaxCrashes = 0 => \A p \in Procs : Alive(p)

(* The ids of tasks that are being created.                                  *)
Creating(p) == op[p].kind = "create" /\ pc[p] # "return"

Created ==
  /\ \A p \in Procs : Creating(p) => op[p].task \in minted \ DOMAIN store
  /\ \A p, q \in Procs : Creating(p) /\ Creating(q) /\ op[p].task = op[q].task => p = q

(* What a process is about to write was made from what the file holds.      *)
Current == \A p \in Procs : pc[p] = "write" => snap[p] = store

(* A process that is in an operation knows which; a claim has the lock.      *)
InCall ==
  \A p \in Procs : /\ pc[p] \in {"idle", "dead"} <=> op[p] = Idle
                   /\ pc[p] = "write" /\ op[p].kind = "tick" => held[p]

IInv == TypeOK /\ Exclusive /\ Created /\ Current /\ InCall

-----------------------------------------------------------------------------
(* Sets of minutes, files and operations.                                    *)

(* The larger of two numbers.                                                *)
LEMMA LargerOfTwo ==
  ASSUME NEW a \in Int, NEW b \in Int
  PROVE  Max({a, b}) \in Int /\ Max({a, b}) >= a /\ Max({a, b}) >= b
<1>1. \E x \in {a, b} : \A y \in {a, b} : x >= y
  <2>1. CASE a >= b BY <2>1
  <2>2. CASE b >= a BY <2>2
  <2> QED BY <2>1, <2>2
<1>2. Max({a, b}) \in {a, b} /\ \A y \in {a, b} : Max({a, b}) >= y BY <1>1 DEF Max
<1> QED BY <1>2

(* A set of minutes that ends has a last one.                                *)
LEMMA LastOne ==
  ASSUME NEW at \in Int, NEW S \in SUBSET Int, S # {}, \A m \in S : m <= at
  PROVE  Max(S) \in S /\ \A m \in S : Max(S) >= m
<1> DEFINE T == {at - m : m \in S}
<1>1. T \subseteq Nat /\ T # {} OBVIOUS
<1>2. PICK x \in T : \A y \in T : ~(<<y, x>> \in OpToRel(<, Nat))
  <2> HIDE DEF T
  <2> QED BY <1>1, WFMin, NatLessThanWellFounded
<1>3. \A y \in T : ~(y < x)
  <2>1. \A y \in T : <<y, x>> \in OpToRel(<, Nat) <=> y < x BY <1>1 DEF OpToRel
  <2> QED BY <1>2, <2>1
<1>4. PICK m \in S : x = at - m OBVIOUS
<1>5. \A n \in S : m >= n
  <2> TAKE n \in S
  <2>1. at - n \in T /\ ~(at - n < at - m) BY <1>3, <1>4
  <2> QED BY <2>1
<1>6. \E k \in S : \A n \in S : k >= n BY <1>5
<1> QED BY <1>6 DEF Max

(* A list of tasks.                                                          *)
LEMMA FileIs ==
  ASSUME NEW f PROVE f \in Files <=> f \in [DOMAIN f -> Task] /\ DOMAIN f \subseteq Tasks
BY DEF Files

(* The due minutes of a task are later than the last one it was claimed for, *)
(* and one of them is the last.                                              *)
LEMMA DueIsLater ==
  ASSUME NEW task \in Task, NEW at \in Minutes
  PROVE  /\ DueMinutes(task, at) \subseteq Minutes
         /\ \A m \in DueMinutes(task, at) : m > task.last
         /\ DueMinutes(task, at) # {} =>
              /\ Max(DueMinutes(task, at)) \in Minutes
              /\ Max(DueMinutes(task, at)) > task.last
<1>1. /\ task.created \in Int /\ 0 <= task.created /\ task.last \in Int /\ at \in Int
      /\ at <= MaxMinute /\ Lookback \in Int /\ DueAt \subseteq Nat /\ MaxMinute \in Nat
  BY ScheduleStoreAssumption DEF Task, Minutes, NotRun
<1>2. Floor(task) \in Int /\ Floor(task) > task.last
  <2>1. CASE task.last = NotRun BY <1>1, <2>1 DEF Floor, NotRun
  <2>2. CASE task.last # NotRun
    <3> DEFINE a == task.last + 1
    <3>1. a \in Int /\ a > task.last BY <1>1
    <3>2. Floor(task) = Max({a, task.created}) BY <2>2 DEF Floor
    <3> HIDE DEF a
    <3>3. task.created \in Int BY <1>1
    <3>4. Floor(task) \in Int /\ Floor(task) >= a BY <3>1, <3>2, <3>3, LargerOfTwo
    <3> QED BY <1>1, <3>1, <3>4
  <2> QED BY <2>1, <2>2
<1> DEFINE back == at - Lookback
           from == Max({Floor(task), back})
           S == DueMinutes(task, at)
<1>3. from \in Int /\ from >= Floor(task)
  <2>1. back \in Int BY <1>1
  <2> HIDE DEF back
  <2> QED BY <1>2, <2>1, LargerOfTwo
<1>4. S = {m \in DueAt : m >= from /\ m <= at} BY DEF DueMinutes
<1> HIDE DEF from, S
<1>5. \A m \in S : m \in Nat /\ m <= at /\ m > task.last BY <1>1, <1>2, <1>3, <1>4
<1>6. S \subseteq Minutes BY <1>1, <1>5 DEF Minutes
<1>7. S # {} => Max(S) \in S BY <1>1, <1>5, LastOne
<1> QED BY <1>5, <1>6, <1>7 DEF S

(* The operations a process may be in.                                       *)
LEMMA OpFields ==
  ASSUME NEW o \in Ops \cup {Idle}
  PROVE  /\ o.kind \in {"create", "delete", "tick", "none"}
         /\ o.kind = "create" => o.task \in Tasks /\ o.at \in Minutes
         /\ o.kind = "delete" => o.task \in Tasks
         /\ o.kind = "tick" => o.at \in Minutes
         /\ o.kind = "none" <=> o = Idle
BY DEF Ops, Idle

(* What a claim claims, and the list it leaves.                              *)
LEMMA ClaimIs ==
  ASSUME NEW p \in Procs, snap[p] \in Files, NEW at \in Minutes
  PROVE  /\ Claims(p, at) \subseteq DOMAIN snap[p]
         /\ \A t \in Claims(p, at) :
              /\ Max(DueMinutes(snap[p][t], at)) \in Minutes
              /\ Max(DueMinutes(snap[p][t], at)) > snap[p][t].last
              /\ MayClaim(p, snap[p][t])
         /\ Claimed(p, at) \in Files /\ DOMAIN Claimed(p, at) \subseteq DOMAIN snap[p]
<1>1. snap[p] \in [DOMAIN snap[p] -> Task] /\ DOMAIN snap[p] \subseteq Tasks BY FileIs
<1>2. Claims(p, at) \subseteq DOMAIN snap[p] BY DEF Claims
<1>3. ASSUME NEW t \in Claims(p, at)
      PROVE  /\ Max(DueMinutes(snap[p][t], at)) \in Minutes
             /\ Max(DueMinutes(snap[p][t], at)) > snap[p][t].last
             /\ MayClaim(p, snap[p][t])
  <2>1. snap[p][t] \in Task BY <1>1, <1>2
  <2> QED BY <2>1, DueIsLater DEF Claims
<1>4. ASSUME NEW t \in DOMAIN Claimed(p, at) PROVE Claimed(p, at)[t] \in Task
  <2>1. t \in DOMAIN snap[p] /\ snap[p][t] \in Task BY <1>1 DEF Claimed
  <2>2. CASE t \in Claims(p, at)
    <3> DEFINE due == Max(DueMinutes(snap[p][t], at))
    <3>1. Claimed(p, at)[t] = [snap[p][t] EXCEPT !.owner = p, !.last = due]
      BY <1>4, <2>2 DEF Claimed
    <3>2. due \in Minutes BY <1>3, <2>2
    <3> HIDE DEF due
    <3> QED BY <2>1, <3>1, <3>2 DEF Task
  <2>3. CASE t \notin Claims(p, at) BY <1>4, <2>1, <2>3 DEF Claimed
  <2> QED BY <2>2, <2>3
<1>5. DOMAIN Claimed(p, at) \subseteq DOMAIN snap[p] BY DEF Claimed
<1>6. Claimed(p, at) \in [DOMAIN Claimed(p, at) -> Task] BY <1>4 DEF Claimed
<1>7. Claimed(p, at) \in Files BY <1>1, <1>5, <1>6, FileIs
<1> QED BY <1>2, <1>3, <1>5, <1>7

(* The list an operation leaves.                                             *)
LEMMA NewListIs ==
  ASSUME TypeOK, Created, Current, InCall, NEW p \in Procs, pc[p] = "write"
  PROVE  /\ NewList(p) \in Files /\ DOMAIN NewList(p) \subseteq minted
         /\ snap[p] = store /\ op[p].kind \in {"create", "delete", "tick"}
<1>1. /\ snap[p] = store /\ store \in Files /\ DOMAIN store \subseteq minted
      /\ op[p] \in Ops \cup {Idle} /\ op[p] # Idle
  BY DEF TypeOK, Current, InCall
<1>2. op[p].kind \in {"create", "delete", "tick"} BY <1>1, OpFields
<1>3. CASE op[p].kind = "create"
  <2>1. op[p].task \in minted \cap Tasks /\ op[p].at \in Minutes
    BY <1>1, <1>3, OpFields DEF Created, Creating
  <2>2. store \in [DOMAIN store -> Task] /\ DOMAIN store \subseteq Tasks BY <1>1, FileIs
  <2>3. [owner |-> p, created |-> op[p].at, last |-> NotRun] \in Task BY <2>1 DEF Task
  <2>4. NewList(p) = [t \in DOMAIN store \cup {op[p].task} |->
                        IF t = op[p].task THEN [owner |-> p, created |-> op[p].at, last |-> NotRun]
                                          ELSE store[t]]
    BY <1>1, <1>3 DEF NewList
  <2> QED BY <1>1, <1>2, <2>1, <2>2, <2>3, <2>4, FileIs
<1>4. CASE op[p].kind = "delete"
  <2>1. NewList(p) = [t \in DOMAIN store \ {op[p].task} |-> store[t]]
    BY <1>1, <1>4 DEF NewList
  <2>2. store \in [DOMAIN store -> Task] /\ DOMAIN store \subseteq Tasks BY <1>1, FileIs
  <2> QED BY <1>1, <1>2, <2>1, <2>2, FileIs
<1>5. CASE op[p].kind = "tick"
  <2>1. op[p].at \in Minutes BY <1>1, <1>5, OpFields
  <2>2. NewList(p) = Claimed(p, op[p].at) BY <1>5 DEF NewList
  <2> QED BY <1>1, <1>2, <2>1, <2>2, ClaimIs
<1> QED BY <1>2, <1>3, <1>4, <1>5

-----------------------------------------------------------------------------
(* Types.                                                                    *)

(* Every step keeps the types.                                               *)
LEMMA TypeStep == IInv /\ [Next]_vars => TypeOK'
<1> SUFFICES ASSUME IInv, [Next]_vars PROVE TypeOK' OBVIOUS
<1> USE DEF TypeOK
<1>a. TypeOK BY DEF IInv
<1>b. Empty \in Files BY DEF Empty, Files
<1>1. ASSUME NEW p \in Procs, NEW t \in Tasks, StartCreate(p, t) \/ StartDelete(p, t)
      PROVE  TypeOK'
  BY <1>a, <1>1 DEF StartCreate, StartDelete, Call, Ops, Steps
<1>2. ASSUME NEW p \in Procs, StartTick(p) PROVE TypeOK'
  BY <1>a, <1>2 DEF StartTick, Call, Ops, Steps
<1>3. ASSUME NEW p \in Procs, AcquireLock(p) PROVE TypeOK'
  BY <1>a, <1>3 DEF AcquireLock, CreateLock, Steps
<1>4. ASSUME NEW p \in Procs, FindStale(p) PROVE TypeOK' BY <1>a, <1>4 DEF FindStale, Steps
<1>5. ASSUME NEW p \in Procs, RemoveStale(p) PROVE TypeOK' BY <1>a, <1>5 DEF RemoveStale, Steps
<1>6. ASSUME NEW p \in Procs, GiveUp(p) PROVE TypeOK' BY <1>a, <1>6 DEF GiveUp, Steps
<1>7. ASSUME NEW p \in Procs, Read(p) PROVE TypeOK' BY <1>a, <1>b, <1>7 DEF Read, Steps
<1>8. ASSUME NEW p \in Procs, Write(p) PROVE TypeOK'
  <2>1. /\ NewList(p) \in Files /\ DOMAIN NewList(p) \subseteq minted /\ snap[p] = store
    BY <1>8, NewListIs DEF Write, IInv
  <2>2. Fires(p) \subseteq Tasks \X Minutes /\ (Fires(p) # {} => op[p].kind = "tick")
    <3>1. CASE op[p].kind # "tick" BY <3>1 DEF Fires
    <3>2. CASE op[p].kind = "tick"
      <4>1. op[p].at \in Minutes BY <1>a, <3>2, OpFields
      <4>2. /\ Claims(p, op[p].at) \subseteq DOMAIN snap[p]
            /\ \A t \in Claims(p, op[p].at) : Max(DueMinutes(snap[p][t], op[p].at)) \in Minutes
        BY <1>a, <4>1, ClaimIs
      <4>3. DOMAIN snap[p] \subseteq Tasks BY <1>a, FileIs
      <4> QED BY <3>2, <4>2, <4>3 DEF Fires
    <3> QED BY <3>1, <3>2
  <2>3. op[p].kind = "tick" => held[p] BY <1>8 DEF Write, IInv, InCall
  <2> HIDE DEF TypeOK
  <2>4. /\ store' \in Files /\ DOMAIN store' \subseteq minted'
    BY <1>a, <1>8, <2>1 DEF Write, TypeOK
  <2>5. out' \in [Procs -> SUBSET (Tasks \X Minutes)] BY <1>a, <1>8, <2>2 DEF Write, TypeOK
  <2>6. \A q \in Procs : out'[q] # {} => pc'[q] = "return" /\ held'[q]
    BY <1>a, <1>8, <2>2, <2>3 DEF Write, TypeOK
  <2> QED BY <1>a, <1>b, <1>8, <2>4, <2>5, <2>6 DEF Write, TypeOK, Steps
<1>9. ASSUME NEW p \in Procs, WriteFails(p) PROVE TypeOK'
  BY <1>a, <1>b, <1>9, ScheduleStoreAssumption DEF WriteFails, Steps
<1>10. ASSUME NEW p \in Procs, Return(p) PROVE TypeOK' BY <1>a, <1>10 DEF Return, Steps
<1>11. ASSUME NEW p \in Procs, Crash(p) PROVE TypeOK' BY <1>a, <1>b, <1>11 DEF Crash, Steps
<1>12. ASSUME LockAges \/ MinutePasses \/ UNCHANGED vars PROVE TypeOK'
  <2>1. now' \in Minutes
    BY <1>a, <1>12, ScheduleStoreAssumption DEF LockAges, MinutePasses, Minutes, vars
  <2> QED BY <1>a, <1>12, <2>1 DEF LockAges, MinutePasses, vars, procVars
<1> QED
  BY <1>1, <1>2, <1>3, <1>4, <1>5, <1>6, <1>7, <1>8, <1>9, <1>10, <1>11, <1>12 DEF Next, Acquire

-----------------------------------------------------------------------------
(* Who may work on the file.                                                 *)

(* Two processes never work on the file at once.                             *)
LEMMA OneWorks ==
  ASSUME Exclusive, NEW p \in Procs, NEW q \in Procs, Working(p), Working(q)
  PROVE  p = q
<1>1. Alive(p) /\ Alive(q) BY DEF Working, Alive
<1> QED BY <1>1 DEF Exclusive, Alone

(* Who meets the lock of a dead process is alone.                            *)
LEMMA DeadHolder ==
  ASSUME Few, TypeOK, Exclusive, lock # NoProc, ~Alive(lock), NEW p \in Procs, Alive(p)
  PROVE  Alone(p)
<1>1. lock \in Procs /\ lock # p BY DEF TypeOK
<1>2. \A a, b, c \in Procs : a = b \/ b = c \/ a = c BY <1>1 DEF Few, Exclusive
<1> QED BY <1>1, <1>2 DEF Alone

(* A step other than a death leaves the living and the dead as they are.     *)
LEMMA SameAlive ==
  ASSUME pc \in [Procs -> Steps], NEW p \in Procs, pc[p] # "dead",
         NEW step, step # "dead", pc' = [pc EXCEPT ![p] = step]
  PROVE  \A q : Alive(q)' <=> Alive(q)
BY DEF Alive

(* Every step keeps the file for one process.                                *)
LEMMA ExclusiveStep == Few /\ IInv /\ [Next]_vars => Exclusive'
<1> SUFFICES ASSUME Few, IInv, [Next]_vars PROVE Exclusive' OBVIOUS
<1>a. TypeOK /\ Exclusive BY DEF IInv
<1>b. pc \in [Procs -> Steps] /\ held \in [Procs -> BOOLEAN] /\ lock \in Procs \cup {NoProc}
      /\ NoProc \notin Procs
  BY <1>a, ScheduleStoreAssumption DEF TypeOK
<1>1. ASSUME NEW p \in Procs, NEW o, Call(p, o) PROVE Exclusive'
  <2>1. \A q : Alive(q)' <=> Alive(q) BY <1>b, <1>1, SameAlive DEF Call
  <2>2. \A q \in Procs : Working(q)' <=> Working(q) BY <1>b, <1>1 DEF Call, Working
  <2> QED BY <1>a, <1>b, <1>1, <2>1, <2>2 DEF Call, Exclusive, Alone
<1>2. ASSUME NEW p \in Procs, AcquireLock(p) PROVE Exclusive'
  <2>1. \A q : Alive(q)' <=> Alive(q) BY <1>b, <1>2, SameAlive DEF AcquireLock
  <2>2. Alive(p) /\ lock = NoProc BY <1>2 DEF AcquireLock, CreateLock, Alive
  <2>3. \A q \in Procs \ {p} : ~Working(q) /\ pc[q] # "unlink"
    BY <1>a, <1>b, <2>2 DEF Exclusive, Alone
  <2>4. \A q \in Procs \ {p} : ~Working(q)' /\ pc'[q] # "unlink"
    BY <1>b, <1>2, <2>3 DEF AcquireLock, Working
  <2>5. pc'[p] = "read" /\ held'[p] /\ lock' = p /\ ~stale'
    BY <1>b, <1>2 DEF AcquireLock, CreateLock
  <2> QED BY <1>a, <1>b, <2>1, <2>4, <2>5 DEF Exclusive
<1>3. ASSUME NEW p \in Procs, FindStale(p) PROVE Exclusive'
  <2>1. \A q : Alive(q)' <=> Alive(q) BY <1>b, <1>3, SameAlive DEF FindStale
  <2>2. Alone(p)
    BY <1>a, <1>3, DeadHolder DEF FindStale, SeesStale, Exclusive, Alive
  <2> QED BY <1>a, <1>b, <1>3, <2>1, <2>2 DEF FindStale, Exclusive, Working, Alone
<1>4. ASSUME NEW p \in Procs, RemoveStale(p) PROVE Exclusive'
  <2>1. \A q : Alive(q)' <=> Alive(q) BY <1>b, <1>4, SameAlive DEF RemoveStale
  <2>2. Alone(p) BY <1>a, <1>4 DEF RemoveStale, Exclusive
  <2>3. \A q \in Procs : ~Working(q)' /\ pc'[q] # "unlink"
    BY <1>b, <1>4, <2>2 DEF RemoveStale, Working, Alone, Alive
  <2> QED BY <1>a, <1>4, <2>1, <2>3 DEF RemoveStale, Exclusive
<1>5. ASSUME NEW p \in Procs, GiveUp(p) PROVE Exclusive'
  <2>1. \A q : Alive(q)' <=> Alive(q) BY <1>b, <1>5, SameAlive DEF GiveUp
  <2>2. Alone(p) BY <1>a, <1>5, DeadHolder DEF GiveUp, Alive
  <2> QED BY <1>a, <1>b, <1>5, <2>1, <2>2 DEF GiveUp, Exclusive, Working, Alone
<1>6. ASSUME NEW p \in Procs, Read(p) \/ Write(p) \/ WriteFails(p) PROVE Exclusive'
  <2>1. PICK step \in {"write", "return"} : pc' = [pc EXCEPT ![p] = step]
    BY <1>6 DEF Read, Write, WriteFails
  <2>2. pc[p] \in {"read", "write"} /\ UNCHANGED <<lock, stale, held>>
    BY <1>6 DEF Read, Write, WriteFails
  <2>3. \A q : Alive(q)' <=> Alive(q) BY <1>b, <2>1, <2>2, SameAlive
  <2> QED BY <1>a, <1>b, <2>1, <2>2, <2>3 DEF Exclusive, Working, Alone
<1>7. ASSUME NEW p \in Procs, Return(p) PROVE Exclusive'
  <2>1. \A q : Alive(q)' <=> Alive(q) BY <1>b, <1>7, SameAlive DEF Return
  <2>2. \A q \in Procs \ {p} : ~Working(q)
    BY <1>a, <1>7, OneWorks DEF Return, Working
  <2>3. \A q \in Procs : ~Working(q)' BY <1>b, <1>7, <2>2 DEF Return, Working
  <2>4. \A q \in Procs : pc'[q] = "unlink" => pc[q] = "unlink" BY <1>b, <1>7 DEF Return
  <2>5. stale' => stale /\ lock' = lock BY <1>7 DEF Return
  <2> QED BY <1>a, <2>1, <2>3, <2>4, <2>5 DEF Exclusive, Alone
<1>8. ASSUME NEW p \in Procs, Crash(p) PROVE Exclusive'
  <2>1. \A q : Alive(q)' => Alive(q) BY <1>b, <1>8 DEF Crash, Alive
  <2>2. \A q \in Procs : Working(q)' => Working(q) /\ held'[q] = held[q]
    BY <1>b, <1>8 DEF Crash, Working
  <2>3. \A q \in Procs : pc'[q] = "unlink" => pc[q] = "unlink" BY <1>b, <1>8 DEF Crash
  <2>4. MaxCrashes # 0
    <3>1. Cardinality({q \in Procs : ~Alive(q)}) \in Nat
      BY FS_Subset, FS_CardinalityType DEF Few
    <3> QED BY <1>8, <3>1 DEF Crash
  <2> QED BY <1>a, <1>8, <2>1, <2>2, <2>3, <2>4 DEF Crash, Exclusive, Alone
<1>9. ASSUME LockAges \/ MinutePasses \/ UNCHANGED vars PROVE Exclusive'
  BY <1>a, <1>9 DEF LockAges, MinutePasses, vars, procVars, Exclusive, Working, Alone, Alive
<1> QED
  BY <1>1, <1>2, <1>3, <1>4, <1>5, <1>6, <1>7, <1>8, <1>9
  DEF Next, Acquire, StartCreate, StartDelete, StartTick

(* Every step keeps the processes to their operations.                       *)
LEMMA InCallStep == IInv /\ [Next]_vars => InCall'
<1> SUFFICES ASSUME IInv, [Next]_vars PROVE InCall' OBVIOUS
<1>a. InCall /\ Idle.kind = "none" BY DEF IInv, Idle
<1>b. /\ pc \in [Procs -> Steps] /\ op \in [Procs -> Ops \cup {Idle}]
      /\ held \in [Procs -> BOOLEAN]
  BY DEF IInv, TypeOK
<1>1. ASSUME NEW p \in Procs, NEW o, o.kind # "none", Call(p, o) PROVE InCall'
  BY <1>a, <1>b, <1>1 DEF Call, InCall
<1>2. ASSUME NEW p \in Procs, NEW t, StartCreate(p, t) \/ StartDelete(p, t) PROVE InCall'
  BY <1>1, <1>2 DEF StartCreate, StartDelete
<1>3. ASSUME NEW p \in Procs, StartTick(p) PROVE InCall' BY <1>1, <1>3 DEF StartTick
<1>4. ASSUME NEW p \in Procs, Acquire(p) PROVE InCall'
  BY <1>a, <1>b, <1>4 DEF Acquire, AcquireLock, FindStale, RemoveStale, GiveUp, InCall
<1>5. ASSUME NEW p \in Procs, Read(p) PROVE InCall'
  BY <1>a, <1>b, <1>5 DEF Read, MayProceed, InCall
<1>6. ASSUME NEW p \in Procs, Write(p) \/ WriteFails(p) PROVE InCall'
  BY <1>a, <1>b, <1>6 DEF Write, WriteFails, InCall
<1>7. ASSUME NEW p \in Procs, Return(p) \/ Crash(p) PROVE InCall'
  BY <1>a, <1>b, <1>7 DEF Return, Crash, InCall
<1>8. ASSUME LockAges \/ MinutePasses \/ UNCHANGED vars PROVE InCall'
  BY <1>a, <1>8 DEF LockAges, MinutePasses, vars, procVars, InCall
<1> QED BY <1>2, <1>3, <1>4, <1>5, <1>6, <1>7, <1>8 DEF Next

(* The tasks in the list after a write.                                      *)
LEMMA WrittenIds ==
  ASSUME IInv, NEW p \in Procs, Write(p)
  PROVE  /\ store' = NewList(p)
         /\ op[p].kind = "create" => DOMAIN store' = DOMAIN store \cup {op[p].task}
         /\ op[p].kind # "create" => DOMAIN store' \subseteq DOMAIN store
<1>1. pc[p] = "write" /\ snap[p] = store /\ op[p].kind \in {"create", "delete", "tick"}
  BY NewListIs DEF Write, IInv
<1>2. store' = NewList(p) BY <1>1 DEF Write
<1>3. op[p].kind = "tick" => DOMAIN Claimed(p, op[p].at) \subseteq DOMAIN store
  BY <1>1 DEF Claimed
<1> QED BY <1>1, <1>2, <1>3 DEF NewList

(* Every step keeps the ids of new tasks apart.                              *)
LEMMA CreatedStep == IInv /\ [Next]_vars => Created'
<1> SUFFICES ASSUME IInv, [Next]_vars PROVE Created' OBVIOUS
<1>a. Created /\ Idle.kind = "none" BY DEF IInv, Idle
<1>b. /\ pc \in [Procs -> Steps] /\ op \in [Procs -> Ops \cup {Idle}]
      /\ minted \subseteq Tasks /\ DOMAIN store \subseteq minted
      /\ \A q \in Procs : pc[q] \in {"idle", "dead"} => op[q] = Idle
  BY DEF IInv, TypeOK, InCall
<1>1. ASSUME NEW p \in Procs, NEW t, StartCreate(p, t) PROVE Created'
  <2>1. t \notin minted /\ minted' = minted \cup {t} /\ store' = store
    BY <1>1 DEF StartCreate, Call
  <2>2. op'[p].task = t BY <1>b, <1>1 DEF StartCreate, Call
  <2>3. \A q \in Procs \ {p} : op'[q] = op[q] /\ (Creating(q)' <=> Creating(q))
    BY <1>b, <1>1 DEF StartCreate, Call, Creating
  <2>4. \A q \in Procs \ {p} : Creating(q)' => op'[q].task \in minted \ DOMAIN store
    BY <1>a, <2>3 DEF Created
  <2>5. \A q, r \in Procs \ {p} :
          Creating(q)' /\ Creating(r)' /\ op'[q].task = op'[r].task => q = r
    BY <1>a, <2>3 DEF Created
  <2> QED BY <1>b, <2>1, <2>2, <2>4, <2>5 DEF Created
<1>2. ASSUME minted' = minted, DOMAIN store' \subseteq DOMAIN store,
             \A q \in Procs : Creating(q)' => Creating(q) /\ op'[q] = op[q]
      PROVE  Created'
  BY <1>a, <1>2 DEF Created
<1>3. ASSUME NEW p \in Procs, NEW t, StartDelete(p, t) \/ StartTick(p) PROVE Created'
  <2>1. \A q \in Procs : Creating(q)' => Creating(q) /\ op'[q] = op[q]
    BY <1>b, <1>3 DEF StartDelete, StartTick, Call, Creating
  <2> QED BY <1>2, <1>3, <2>1 DEF StartDelete, StartTick, Call
<1>4. ASSUME NEW p \in Procs, Acquire(p) \/ Read(p) \/ WriteFails(p) PROVE Created'
  <2>1. op' = op /\ minted' = minted /\ store' = store
    BY <1>4 DEF Acquire, AcquireLock, FindStale, RemoveStale, GiveUp, Read, WriteFails
  <2>2. pc[p] # "return" /\ \A q \in Procs \ {p} : pc'[q] = pc[q]
    BY <1>b, <1>4 DEF Acquire, AcquireLock, FindStale, RemoveStale, GiveUp, Read, WriteFails
  <2>3. \A q \in Procs : Creating(q)' => Creating(q) BY <2>1, <2>2 DEF Creating
  <2> QED BY <1>2, <2>1, <2>3
<1>5. ASSUME NEW p \in Procs, Write(p) PROVE Created'
  <2>1. op' = op /\ minted' = minted /\ pc' = [pc EXCEPT ![p] = "return"] /\ pc[p] = "write"
    BY <1>5 DEF Write
  <2>2. ~Creating(p)' /\ \A q \in Procs \ {p} : Creating(q)' => Creating(q)
    BY <1>b, <2>1 DEF Creating
  <2>3. CASE op[p].kind # "create" BY <1>2, <1>5, <2>1, <2>2, <2>3, WrittenIds
  <2>4. CASE op[p].kind = "create"
    <3>1. DOMAIN store' = DOMAIN store \cup {op[p].task} BY <1>5, <2>4, WrittenIds
    <3>2. \A q \in Procs \ {p} : Creating(q) => op[q].task # op[p].task
      BY <1>a, <2>1, <2>4 DEF Created, Creating
    <3> QED BY <1>a, <2>1, <2>2, <3>1, <3>2 DEF Created
  <2> QED BY <2>3, <2>4
<1>6. ASSUME NEW p \in Procs, Return(p) \/ Crash(p) PROVE Created'
  <2>1. \A q \in Procs : Creating(q)' => Creating(q) /\ op'[q] = op[q]
    BY <1>a, <1>b, <1>6 DEF Return, Crash, Creating
  <2> QED BY <1>2, <1>6, <2>1 DEF Return, Crash
<1>7. ASSUME LockAges \/ MinutePasses \/ UNCHANGED vars PROVE Created'
  BY <1>2, <1>7 DEF LockAges, MinutePasses, vars, procVars, Creating
<1> QED BY <1>1, <1>3, <1>4, <1>5, <1>6, <1>7 DEF Next

(* Every step keeps what is about to be written up to date.                  *)
LEMMA CurrentStep == IInv /\ [Next]_vars => Current'
<1> SUFFICES ASSUME IInv, [Next]_vars PROVE Current' OBVIOUS
<1>a. Current BY DEF IInv
<1>b. pc \in [Procs -> Steps] /\ snap \in [Procs -> Files] BY DEF IInv, TypeOK
<1>1. ASSUME store' = store,
             \A q \in Procs : pc'[q] = "write" => pc[q] = "write" /\ snap'[q] = snap[q]
      PROVE  Current'
  BY <1>a, <1>1 DEF Current
<1>2. ASSUME NEW p \in Procs, NEW o, Call(p, o) PROVE Current'
  BY <1>1, <1>2, <1>b DEF Call
<1>3. ASSUME NEW p \in Procs, Acquire(p) PROVE Current'
  BY <1>1, <1>3, <1>b DEF Acquire, AcquireLock, FindStale, RemoveStale, GiveUp
<1>4. ASSUME NEW p \in Procs, Read(p) PROVE Current'
  <2>1. \A q \in Procs \ {p} : pc'[q] = pc[q] /\ snap'[q] = snap[q] BY <1>b, <1>4 DEF Read
  <2>2. pc'[p] = "write" => snap'[p] = store BY <1>b, <1>4 DEF Read
  <2> QED BY <1>a, <1>4, <2>1, <2>2 DEF Read, Current
<1>5. ASSUME NEW p \in Procs, Write(p) PROVE Current'
  <2>1. \A q \in Procs \ {p} : pc[q] # "write"
    BY <1>5, OneWorks DEF IInv, Write, Working
  <2> QED BY <1>b, <1>5, <2>1 DEF Write, Current
<1>6. ASSUME NEW p \in Procs, WriteFails(p) \/ Return(p) \/ Crash(p) PROVE Current'
  BY <1>1, <1>6, <1>b DEF WriteFails, Return, Crash
<1>7. ASSUME LockAges \/ MinutePasses \/ UNCHANGED vars PROVE Current'
  BY <1>1, <1>7 DEF LockAges, MinutePasses, vars, procVars
<1> QED
  BY <1>2, <1>3, <1>4, <1>5, <1>6, <1>7 DEF Next, StartCreate, StartDelete, StartTick

(* The invariant holds at the start.                                         *)
LEMMA InitIInv == Init => IInv
<1> SUFFICES ASSUME Init PROVE IInv OBVIOUS
<1>1. 0 \in Minutes /\ 0 \in 0..MaxErrors BY ScheduleStoreAssumption DEF Minutes
<1>2. store \in Files
  <2>1. [owner |-> Ghost, created |-> 0, last |-> NotRun] \in Task BY <1>1 DEF Task
  <2> QED BY <2>1, FileIs DEF Init
<1>3. Empty \in Files BY DEF Empty, Files
<1>4. TypeOK BY <1>1, <1>2, <1>3 DEF Init, TypeOK, Steps
<1>5. Exclusive BY DEF Init, Exclusive, Working, Alive
<1>6. Created /\ Current /\ InCall BY DEF Init, Created, Creating, Current, InCall, Idle
<1> QED BY <1>4, <1>5, <1>6 DEF IInv

(* The store's types, one process at a time at the file, ids of new tasks    *)
(* that nobody else has, and lists that are current when they are written.   *)
THEOREM Invariance ==
  ASSUME Few
  PROVE  Spec => []IInv
<1>1. IInv /\ [Next]_vars => IInv'
  BY TypeStep, ExclusiveStep, CreatedStep, CurrentStep, InCallStep DEF IInv
<1> QED BY <1>1, InitIInv, PTL DEF Spec

(* The types, and that only a process with the lock has fires to return.     *)
THEOREM TypeCorrect ==
  ASSUME Few
  PROVE  Spec => []TypeOK
<1>1. IInv => TypeOK BY DEF IInv
<1> QED BY <1>1, Invariance, PTL

-----------------------------------------------------------------------------
(* The store implements Schedule.                                            *)

(* The ids given out whose task is not in the file yet, and the fires that   *)
(* are claimed and not yet sent.                                             *)
Waiting == {t \in Tasks : \E p \in Procs : Creating(p) /\ op[p].task = t}
Pids == Procs \cup {Ghost}
Hand == [p \in Pids |-> IF p \in Procs THEN out[p] ELSE {}]

(* What a step of Schedule leaves alone.                                     *)
Still == UNCHANGED <<store, minted, Waiting, Hand, fired>>

(* The actions of Schedule, in terms of the store.                           *)

Mints(t) ==
  /\ t \notin minted /\ minted' = minted \cup {t} /\ Waiting' = Waiting \cup {t}
  /\ UNCHANGED <<store, Hand, fired>>

Creates(t, task) ==
  /\ t \in Waiting /\ Waiting' = Waiting \ {t}
  /\ store' = [u \in DOMAIN store \cup {t} |-> IF u = t THEN task ELSE store[u]]
  /\ UNCHANGED <<minted, Hand, fired>>

Forgets(t) == Waiting' = Waiting \ {t} /\ UNCHANGED <<store, minted, Hand, fired>>

Deletes(t) ==
  /\ store' = [u \in DOMAIN store \ {t} |-> store[u]]
  /\ UNCHANGED <<minted, Waiting, Hand, fired>>

Hands(p, due, late) ==
  /\ Hand[p] = {} /\ DOMAIN due \subseteq DOMAIN store
  /\ \A t \in DOMAIN due : due[t] > store[t].last
  /\ store' = [u \in DOMAIN store \ (DOMAIN due \ Recurring) |->
                 IF u \in DOMAIN due THEN Sched!Handled(store[u], p, due[u]) ELSE store[u]]
  /\ Hand' = [Hand EXCEPT ![p] = {<<t, due[t]>> : t \in DOMAIN due \ late}]
  /\ UNCHANGED <<minted, Waiting, fired>>

Empties(p) ==
  /\ fired' = fired \cup Hand[p] \/ fired' = fired
  /\ Hand' = [Hand EXCEPT ![p] = {}] /\ UNCHANGED <<store, minted, Waiting>>

Mapped ==
  \/ \E t \in Tasks : Mints(t) \/ Forgets(t)
  \/ \E t \in Tasks, task \in Task : Creates(t, task)
  \/ \E t \in DOMAIN store : Deletes(t)
  \/ \E p \in Pids : Empties(p)
  \/ \E p \in Pids, S \in SUBSET DOMAIN store :
       \E due \in [S -> Minutes], late \in SUBSET S : Hands(p, due, late)

(* They are what the mapping makes of those actions.                         *)
LEMMA MappedIs == Sched!Next <=> Mapped
<1> USE DEF Waiting, Hand, Creating, Pids
<1>1. \A t : Sched!Mint(t) <=> Mints(t) BY DEF Sched!Mint, Mints
<1>2. \A t, task : Sched!Create(t, task) <=> Creates(t, task) BY DEF Sched!Create, Creates
<1>3. \A t : Sched!Forget(t) <=> Forgets(t) BY DEF Sched!Forget, Forgets
<1>4. \A t : Sched!Delete(t) <=> Deletes(t) BY DEF Sched!Delete, Deletes
<1>5. \A p, due, late : Sched!Claim(p, due, late) <=> Hands(p, due, late)
  BY DEF Sched!Claim, Hands
<1>6. \A p : Sched!Run(p) \/ Sched!Lose(p) <=> Empties(p)
  BY DEF Sched!Run, Sched!Lose, Empties
<1>7. Sched!Task = Task BY DEF Sched!Task, Task, Sched!NotRun, NotRun
<1> HIDE DEF Waiting, Hand, Creating
<1> QED BY <1>1, <1>2, <1>3, <1>4, <1>5, <1>6, <1>7 DEF Sched!Next, Mapped

(* What Schedule sees stays as it is.                                        *)
LEMMA StillIs ==
  ASSUME Still PROVE UNCHANGED Sched!vars
BY DEF Still, Sched!vars, Waiting, Hand, Pids, Creating

(* The waiting ids follow the processes that are creating.                   *)
LEMMA SameWaiting ==
  ASSUME \A q \in Procs : /\ Creating(q)' <=> Creating(q)
                          /\ Creating(q) => op'[q].task = op[q].task
  PROVE  Waiting' = Waiting
BY DEF Waiting

(* The id of a creation that ends is no longer waited for: nobody else has   *)
(* it.                                                                       *)
LEMMA OneLessWaiting ==
  ASSUME Created, NEW p \in Procs, Creating(p), ~Creating(p)', op[p].task \in Tasks,
         \A q \in Procs \ {p} : (Creating(q)' <=> Creating(q)) /\ op'[q] = op[q]
  PROVE  Waiting' = Waiting \ {op[p].task} /\ op[p].task \in Waiting
<1>1. \A q \in Procs \ {p} : Creating(q) => op[q].task # op[p].task BY DEF Created
<1>2. \A t \in Tasks : (\E q \in Procs : Creating(q)' /\ op'[q].task = t)
                       <=> (\E q \in Procs \ {p} : Creating(q) /\ op[q].task = t)
  OBVIOUS
<1>3. \A t \in Tasks : (\E q \in Procs \ {p} : Creating(q) /\ op[q].task = t)
                       <=> t # op[p].task /\ \E q \in Procs : Creating(q) /\ op[q].task = t
  BY <1>1
<1> QED BY <1>2, <1>3 DEF Waiting

(* Fires a process holds are its only ones.                                  *)
LEMMA HandOf ==
  ASSUME out \in [Procs -> SUBSET (Tasks \X Minutes)], NEW p \in Procs
  PROVE  /\ Hand[p] = out[p]
         /\ \A fires : out' = [out EXCEPT ![p] = fires] => Hand' = [Hand EXCEPT ![p] = fires]
BY ScheduleStoreAssumption DEF Hand, Pids

(* A write is the creation, the deletion or the claim it was asked for, or   *)
(* changes nothing.                                                          *)
LEMMA WriteSched ==
  ASSUME IInv, NEW p \in Procs, Write(p)
  PROVE  Mapped \/ Still
<1>a. /\ Created /\ TypeOK
      /\ pc \in [Procs -> Steps] /\ out \in [Procs -> SUBSET (Tasks \X Minutes)]
  BY DEF IInv, TypeOK
<1>1. /\ pc[p] = "write" /\ pc' = [pc EXCEPT ![p] = "return"]
      /\ out' = [out EXCEPT ![p] = Fires(p)] /\ UNCHANGED <<minted, op, fired>>
  BY DEF Write
<1>2. /\ snap[p] = store /\ store' = NewList(p)
      /\ op[p].kind \in {"create", "delete", "tick"}
  BY <1>1, NewListIs, WrittenIds DEF IInv
<1>3. /\ ~Creating(p)'
      /\ \A q \in Procs \ {p} : (Creating(q)' <=> Creating(q)) /\ op'[q] = op[q]
  BY <1>a, <1>1 DEF Creating
<1>4. /\ Hand[p] = out[p] /\ Hand' = [Hand EXCEPT ![p] = Fires(p)]
      /\ out[p] = {}
  BY <1>a, <1>1, HandOf DEF TypeOK
<1>5. Fires(p) = {} => Hand' = Hand BY <1>a, <1>1, <1>4 DEF Hand
<1>6. ~Creating(p) => Waiting' = Waiting BY <1>1, <1>3, SameWaiting
<1>7. CASE op[p].kind = "create"
  <2>1. op[p].task \in Tasks /\ op[p].at \in Minutes BY <1>a, <1>7, OpFields DEF TypeOK
  <2>2. Waiting' = Waiting \ {op[p].task} /\ op[p].task \in Waiting
    BY <1>a, <1>1, <1>3, <1>7, <2>1, OneLessWaiting DEF Creating
  <2> DEFINE t == op[p].task
             task == [owner |-> p, created |-> op[p].at, last |-> NotRun]
  <2>3. task \in Task BY <2>1 DEF Task
  <2>4. store' = [u \in DOMAIN store \cup {t} |-> IF u = t THEN task ELSE store[u]]
    BY <1>2, <1>7 DEF NewList
  <2>5. Hand' = Hand BY <1>5, <1>7 DEF Fires
  <2> HIDE DEF t, task
  <2>6. Waiting' = Waiting \ {t} /\ t \in Waiting BY <2>2 DEF t
  <2>7. t \in Tasks BY <2>1 DEF t
  <2> QED BY <1>1, <2>3, <2>4, <2>5, <2>6, <2>7 DEF Creates, Mapped
<1>8. CASE op[p].kind = "delete"
  <2>1. Waiting' = Waiting BY <1>6, <1>8 DEF Creating
  <2>2. Hand' = Hand BY <1>5, <1>8 DEF Fires
  <2>3. store' = [u \in DOMAIN store \ {op[p].task} |-> store[u]] BY <1>2, <1>8 DEF NewList
  <2>4. CASE op[p].task \in DOMAIN store BY <1>1, <2>1, <2>2, <2>3, <2>4 DEF Deletes, Mapped
  <2>5. CASE op[p].task \notin DOMAIN store
    <3>1. store \in [DOMAIN store -> Task] BY <1>a, FileIs DEF TypeOK
    <3>2. store' = store BY <2>3, <2>5, <3>1
    <3> QED BY <1>1, <2>1, <2>2, <3>2 DEF Still
  <2> QED BY <2>4, <2>5
<1>9. CASE op[p].kind = "tick"
  <2>1. Waiting' = Waiting BY <1>6, <1>9 DEF Creating
  <2> DEFINE at == op[p].at
             S == Claims(p, at)
             due == [t \in S |-> Max(DueMinutes(store[t], at))]
             late == {t \in S : ~(at - due[t] <= Late)}
  <2>2. at \in Minutes BY <1>a, <1>9, OpFields DEF TypeOK
  <2>3. /\ S \subseteq DOMAIN store /\ snap[p] \in Files
        /\ \A t \in S : due[t] \in Minutes /\ due[t] > store[t].last
    BY <1>a, <1>2, <2>2, ClaimIs DEF TypeOK
  <2>4. due \in [S -> Minutes] BY <2>3
  <2>5. store' = [u \in DOMAIN store \ (S \ Recurring) |->
                    IF u \in S THEN Sched!Handled(store[u], p, due[u]) ELSE store[u]]
    BY <1>2, <1>9 DEF NewList, Claimed, Sched!Handled
  <2>6. Fires(p) = {<<t, due[t]>> : t \in S \ late} BY <1>2, <1>9 DEF Fires
  <2> HIDE DEF due, late, S
  <2>7. late \subseteq S BY DEF late
  <2>8. DOMAIN due = S BY <2>4
  <2>9. Hands(p, due, late) BY <1>1, <1>4, <2>1, <2>3, <2>4, <2>5, <2>6, <2>8 DEF Hands
  <2> QED BY <2>3, <2>4, <2>7, <2>9 DEF Mapped, Pids
<1> QED BY <1>2, <1>7, <1>8, <1>9

(* Every step of the store is a step of Schedule, or leaves it as it is.     *)
LEMMA StepSched == IInv /\ [Next]_vars => [Sched!Next]_(Sched!vars)
<1> SUFFICES ASSUME IInv, [Next]_vars PROVE Mapped \/ Still
  BY StillIs, MappedIs
<1>a. Created /\ Idle.kind = "none" BY DEF IInv, Idle
<1>b. /\ pc \in [Procs -> Steps] /\ op \in [Procs -> Ops \cup {Idle}]
      /\ minted \subseteq Tasks /\ DOMAIN store \subseteq minted
      /\ \A q \in Procs : pc[q] \in {"idle", "dead"} => op[q] = Idle
      /\ out \in [Procs -> SUBSET (Tasks \X Minutes)]
      /\ \A q \in Procs : out[q] # {} => pc[q] = "return"
  BY DEF IInv, TypeOK, InCall
<1>c. Hand' = Hand \/ out' # out BY DEF Hand
<1>1. ASSUME NEW p \in Procs, NEW t \in Tasks, StartCreate(p, t) PROVE Mapped
  <2>1. /\ t \notin minted /\ minted' = minted \cup {t}
        /\ UNCHANGED <<store, fired, out>>
    BY <1>1 DEF StartCreate, Call
  <2>2. op'[p].task = t /\ Creating(p)' /\ ~Creating(p)
    BY <1>a, <1>b, <1>1 DEF StartCreate, Call, Creating
  <2>3. \A q \in Procs \ {p} : op'[q] = op[q] /\ (Creating(q)' <=> Creating(q))
    BY <1>b, <1>1 DEF StartCreate, Call, Creating
  <2>4. Waiting' = Waiting \cup {t}
    <3>1. \A u \in Tasks : (\E q \in Procs : Creating(q)' /\ op'[q].task = u)
                           <=> u = t \/ \E q \in Procs : Creating(q) /\ op[q].task = u
      BY <2>2, <2>3
    <3> QED BY <3>1 DEF Waiting
  <2> QED BY <1>c, <2>1, <2>4 DEF Mints, Mapped
<1>2. ASSUME NEW p \in Procs, NEW t, StartDelete(p, t) \/ StartTick(p) PROVE Still
  <2>1. \A q \in Procs : (Creating(q)' <=> Creating(q)) /\ (Creating(q) => op'[q] = op[q])
    BY <1>a, <1>b, <1>2 DEF StartDelete, StartTick, Call, Creating
  <2>2. Waiting' = Waiting BY <2>1, SameWaiting
  <2> QED BY <1>c, <1>2, <2>2 DEF StartDelete, StartTick, Call, Still
<1>3. ASSUME NEW p \in Procs, Acquire(p) \/ Read(p) PROVE Still
  <2>1. op' = op BY <1>3 DEF Acquire, AcquireLock, FindStale, RemoveStale, GiveUp, Read
  <2>2. \A q \in Procs : Creating(q)' <=> Creating(q)
    BY <1>b, <1>3, <2>1
    DEF Acquire, AcquireLock, FindStale, RemoveStale, GiveUp, Read, MayProceed, Creating
  <2>3. Waiting' = Waiting BY <2>1, <2>2, SameWaiting
  <2> QED
    BY <1>c, <1>3, <2>3 DEF Acquire, AcquireLock, FindStale, RemoveStale, GiveUp, Read, Still
<1>4. ASSUME NEW p \in Procs, Write(p) PROVE Mapped \/ Still BY <1>4, WriteSched
<1>5. ASSUME NEW p \in Procs, WriteFails(p) PROVE Mapped \/ Still
  <2>1. op' = op /\ pc[p] = "write" /\ pc' = [pc EXCEPT ![p] = "return"]
        /\ UNCHANGED <<store, minted, out, fired>>
    BY <1>5 DEF WriteFails
  <2>2. ~Creating(p)' /\ \A q \in Procs \ {p} : Creating(q)' <=> Creating(q)
    BY <1>b, <2>1 DEF Creating
  <2>3. CASE Creating(p)
    <3>1. op[p].task \in Tasks BY <1>a, <1>b, <2>3 DEF Created
    <3>2. Waiting' = Waiting \ {op[p].task} BY <1>a, <2>1, <2>2, <2>3, <3>1, OneLessWaiting
    <3> QED BY <1>c, <2>1, <3>1, <3>2 DEF Forgets, Mapped
  <2>4. CASE ~Creating(p)
    <3>1. Waiting' = Waiting BY <2>1, <2>2, <2>4, SameWaiting
    <3> QED BY <1>c, <2>1, <3>1 DEF Still
  <2> QED BY <2>3, <2>4
<1>6. ASSUME NEW p \in Procs, Return(p) PROVE Mapped
  <2>1. \A q \in Procs : (Creating(q)' <=> Creating(q)) /\ (Creating(q) => op'[q] = op[q])
    BY <1>a, <1>b, <1>6 DEF Return, Creating
  <2>2. Waiting' = Waiting BY <2>1, SameWaiting
  <2>3. Hand[p] = out[p] /\ Hand' = [Hand EXCEPT ![p] = {}]
    BY <1>b, <1>6, HandOf DEF Return
  <2>4. fired' = fired \cup Hand[p] /\ UNCHANGED <<store, minted>> BY <1>6, <2>3 DEF Return
  <2> QED BY <2>2, <2>3, <2>4 DEF Empties, Mapped, Pids
<1>7. ASSUME NEW p \in Procs, Crash(p) PROVE Mapped
  <2>1. /\ op' = [op EXCEPT ![p] = Idle] /\ pc' = [pc EXCEPT ![p] = "dead"]
        /\ out' = [out EXCEPT ![p] = {}] /\ UNCHANGED <<store, minted, fired>>
    BY <1>7 DEF Crash
  <2>2. ~Creating(p)'
        /\ \A q \in Procs \ {p} : (Creating(q)' <=> Creating(q)) /\ op'[q] = op[q]
    BY <1>a, <1>b, <2>1 DEF Creating
  <2>3. CASE Creating(p)
    <3>1. op[p].task \in Tasks BY <1>a, <1>b, <2>3 DEF Created
    <3>2. Waiting' = Waiting \ {op[p].task} BY <1>a, <2>2, <2>3, <3>1, OneLessWaiting
    <3>3. out' = out BY <1>b, <2>1, <2>3 DEF Creating
    <3> QED BY <1>c, <2>1, <3>1, <3>2, <3>3 DEF Forgets, Mapped
  <2>4. CASE ~Creating(p)
    <3>1. Waiting' = Waiting BY <2>2, <2>4, SameWaiting
    <3>2. Hand' = [Hand EXCEPT ![p] = {}] BY <1>b, <2>1, HandOf
    <3> QED BY <2>1, <3>1, <3>2 DEF Empties, Mapped, Pids
  <2> QED BY <2>3, <2>4
<1>8. ASSUME LockAges \/ MinutePasses \/ UNCHANGED vars PROVE Still
  <2>1. UNCHANGED <<store, minted, op, pc, out, fired>>
    BY <1>8 DEF LockAges, MinutePasses, vars, procVars
  <2>2. Waiting' = Waiting BY <2>1, SameWaiting DEF Creating
  <2> QED BY <1>c, <2>1, <2>2 DEF Still
<1> QED BY <1>1, <1>2, <1>3, <1>4, <1>5, <1>6, <1>7, <1>8 DEF Next

(* The store starts as a list that Schedule may start with.                  *)
LEMMA InitSched == Init => Sched!Init
<1> SUFFICES ASSUME Init PROVE Sched!Init OBVIOUS
<1>1. IInv BY InitIInv
<1>2. DOMAIN store = minted /\ store \in [DOMAIN store -> Task]
  BY <1>1, FileIs DEF Init, IInv, TypeOK
<1>3. store \in [minted -> Sched!Task]
  BY <1>2 DEF Sched!Task, Task, Sched!NotRun, NotRun
<1>4. \A p \in Procs : ~(op[p].kind = "create") BY DEF Init, Idle
<1> QED BY <1>3, <1>4 DEF Init, Sched!Init

(* The store keeps the promise of Schedule: creations, deletions and claims  *)
(* of processes that re-read and rename one file, some of them without the   *)
(* lock, never undo one another.                                             *)
THEOREM ImplementsScheduleAlways ==
  ASSUME Few
  PROVE  Spec => ImplementsSchedule
<1>1. IInv /\ [Next]_vars => [Sched!Next]_(Sched!vars) BY StepSched
<1>2. Spec => []IInv BY Invariance
<1> QED BY <1>1, <1>2, InitSched, PTL DEF Spec, ImplementsSchedule, Sched!Spec

-----------------------------------------------------------------------------
(* What the promise of Schedule comes to.                                    *)

(* A task is in the list only once its id was given out, and not while it is *)
(* being created.                                                            *)
Ids ==
  /\ DOMAIN store \subseteq minted /\ Waiting \subseteq minted
  /\ Waiting \cap DOMAIN store = {}

(* A fire that was claimed or run is of a task that was in the list; while   *)
(* the task still is, the minute is not later than its last one.             *)
Past(f) ==
  /\ f[1] \in minted \ Waiting
  /\ f[1] \in DOMAIN store => f[2] <= store[f[1]].last

Listed ==
  /\ store \in [DOMAIN store -> Task] /\ Hand \in [Pids -> SUBSET (Tasks \X Minutes)]
  /\ fired \subseteq Tasks \X Minutes /\ minted \subseteq Tasks

Once ==
  /\ \A p, q \in Pids : p # q => Hand[p] \cap Hand[q] = {}
  /\ \A p \in Pids : Hand[p] \cap fired = {}

HandInv ==
  /\ Listed /\ Ids /\ Once
  /\ \A p \in Pids : \A f \in Hand[p] : Past(f)
  /\ \A f \in fired : Past(f)

(* An empty store, and nothing handed out.                                  *)
LEMMA InitHand == Sched!Init => HandInv
<1> SUFFICES ASSUME Sched!Init PROVE HandInv OBVIOUS
<1>1. Sched!Task = Task BY DEF Sched!Task, Task, Sched!NotRun, NotRun
<1>2. /\ minted \in SUBSET Tasks /\ store \in [minted -> Task] /\ fired = {}
      /\ Waiting = {} /\ Hand = [p \in Pids |-> {}]
  BY <1>1 DEF Sched!Init, Waiting, Hand, Pids, Creating
<1> QED BY <1>2 DEF HandInv, Listed, Ids, Once

(* An id is given out, becomes a task or is forgotten, a task is deleted.    *)
LEMMA ListStep ==
  ASSUME HandInv,
         \/ \E t \in Tasks : Mints(t) \/ Forgets(t)
         \/ \E t \in Tasks, task \in Task : Creates(t, task)
         \/ \E t \in DOMAIN store : Deletes(t)
  PROVE  HandInv'
<1> USE DEF HandInv
<1>0. UNCHANGED <<Hand, fired>> BY DEF Mints, Forgets, Creates, Deletes
<1>1. Listed' /\ Ids'
  <2>1. ASSUME NEW t \in Tasks, Mints(t) \/ Forgets(t) PROVE Listed' /\ Ids'
    BY <2>1 DEF Mints, Forgets, Listed, Ids
  <2>2. ASSUME NEW t \in Tasks, NEW task \in Task, Creates(t, task) PROVE Listed' /\ Ids'
    BY <2>2 DEF Creates, Listed, Ids
  <2>3. ASSUME NEW t \in DOMAIN store, Deletes(t) PROVE Listed' /\ Ids'
    BY <2>3 DEF Deletes, Listed, Ids
  <2> QED BY <2>1, <2>2, <2>3
<1>2. Once' BY <1>0 DEF Once
<1>3. ASSUME NEW f, Past(f) PROVE Past(f)'
  <2>1. ASSUME NEW t \in Tasks, Mints(t) \/ Forgets(t) PROVE Past(f)'
    BY <1>3, <2>1 DEF Mints, Forgets, Past, Ids
  <2>2. ASSUME NEW t \in Tasks, NEW task \in Task, Creates(t, task) PROVE Past(f)'
    BY <1>3, <2>2 DEF Creates, Past, Ids
  <2>3. ASSUME NEW t \in DOMAIN store, Deletes(t) PROVE Past(f)'
    BY <1>3, <2>3 DEF Deletes, Past, Ids
  <2> QED BY <2>1, <2>2, <2>3
<1> QED BY <1>0, <1>1, <1>2, <1>3

(* Due minutes are claimed: they are later than any that was.                *)
LEMMA HandsStep ==
  ASSUME HandInv, NEW p \in Pids, NEW S \in SUBSET DOMAIN store,
         NEW due \in [S -> Minutes], NEW late \in SUBSET S, Hands(p, due, late)
  PROVE  HandInv'
<1> USE DEF HandInv
<1>0. UNCHANGED <<minted, Waiting, fired>> /\ DOMAIN due = S BY DEF Hands
<1>1. DOMAIN store' \subseteq DOMAIN store BY DEF Hands
<1>2. \A t \in DOMAIN store' : /\ t \in S => store'[t].last = due[t]
                               /\ t \notin S => store'[t] = store[t]
                               /\ store'[t] \in Task
  <2>1. \A task \in Task, m \in Minutes :
          Sched!Handled(task, p, m) \in Task /\ Sched!Handled(task, p, m).last = m
    BY DEF Sched!Handled, Task, Pids
  <2>2. \A t \in DOMAIN store : store[t] \in Task BY DEF Listed
  <2>3. \A t \in DOMAIN store' :
          /\ t \in DOMAIN store
          /\ store'[t] = IF t \in S THEN Sched!Handled(store[t], p, due[t]) ELSE store[t]
    BY <1>0 DEF Hands
  <2> QED BY <2>1, <2>2, <2>3
<1>3. \A t \in S : due[t] \in Minutes /\ due[t] > store[t].last /\ store[t] \in Task
  BY <1>0 DEF Hands, Listed
<1>4. \A t \in S : due[t] \in Int /\ store[t].last \in Int
  BY <1>3, ScheduleStoreAssumption DEF Task, Minutes, NotRun
<1>5. Listed' /\ Ids'
  <2>1. store' \in [DOMAIN store' -> Task] BY <1>2 DEF Hands
  <2>2. {<<t, due[t]>> : t \in S \ late} \subseteq Tasks \X Minutes BY DEF Listed, Ids
  <2>3. Hand' \in [Pids -> SUBSET (Tasks \X Minutes)] BY <1>0, <2>2 DEF Hands, Listed
  <2> QED BY <1>0, <1>1, <2>1, <2>3 DEF Listed, Ids
<1>6. ASSUME NEW f, Past(f), f \in Tasks \X Minutes PROVE Past(f)'
  <2>1. CASE f[1] \in S /\ f[1] \in DOMAIN store'
    <3>1. f[2] <= store[f[1]].last /\ store[f[1]].last < due[f[1]]
      BY <1>3, <1>6, <2>1 DEF Past
    <3>2. f[2] \in Int /\ store[f[1]].last \in Int /\ due[f[1]] \in Int
      BY <1>6, <2>1, <1>4 DEF Minutes
    <3>3. f[2] <= due[f[1]] BY <3>1, <3>2
    <3> QED BY <1>0, <1>2, <1>6, <2>1, <3>3 DEF Past
  <2>2. CASE ~(f[1] \in S /\ f[1] \in DOMAIN store')
    BY <1>0, <1>1, <1>2, <1>6, <2>2 DEF Past
  <2> QED BY <2>1, <2>2
<1>7. \A f \in {<<t, due[t]>> : t \in S \ late} : Past(f)' /\ ~Past(f)
  <2> SUFFICES ASSUME NEW t \in S PROVE Past(<<t, due[t]>>)' /\ ~Past(<<t, due[t]>>)
    OBVIOUS
  <2>1. t \in minted \ Waiting /\ due[t] \in Int /\ store[t].last \in Int
    BY <1>4 DEF Ids
  <2>2. ~(due[t] <= store[t].last) BY <1>3, <2>1
  <2> QED BY <1>0, <1>2, <2>1, <2>2 DEF Past
<1>8. Hand' = [Hand EXCEPT ![p] = {<<t, due[t]>> : t \in S \ late}] BY <1>0 DEF Hands
<1>9. \A q \in Pids : \A f \in Hand'[q] : Past(f)' BY <1>6, <1>7, <1>8 DEF Listed
<1>10. \A f \in fired' : Past(f)' BY <1>0, <1>6 DEF Listed
<1>11. Once'
  <2>1. \A q \in Pids \ {p} : Hand'[q] = Hand[q] BY <1>8 DEF Listed
  <2>2. \A q \in Pids \ {p} : Hand'[p] \cap Hand'[q] = {} BY <1>7, <1>8, <2>1 DEF Listed
  <2>3. Hand'[p] \cap fired' = {} BY <1>0, <1>7, <1>8 DEF Listed
  <2> QED BY <1>0, <2>1, <2>2, <2>3 DEF Once
<1> QED BY <1>5, <1>9, <1>10, <1>11

(* What was claimed is run, or lost.                                         *)
LEMMA EmptiesStep ==
  ASSUME HandInv, NEW p \in Pids, Empties(p) PROVE HandInv'
<1> USE DEF HandInv
<1>1. /\ UNCHANGED <<store, minted, Waiting>> /\ fired \subseteq fired'
      /\ fired' \subseteq fired \cup Hand[p]
      /\ Hand' = [Hand EXCEPT ![p] = {}]
  BY DEF Empties
<1>2. Listed' /\ Ids' BY <1>1 DEF Listed, Ids
<1>3. Once' BY <1>1 DEF Once, Listed
<1>4. \A f : Past(f) => Past(f)' BY <1>1 DEF Past
<1> QED BY <1>1, <1>2, <1>3, <1>4 DEF Listed

(* A due minute of a task is handed to one process, once: two never hold the *)
(* same fire and none holds one that was run, though tasks are created,      *)
(* deleted, adopted and claimed in any order.                                *)
THEOREM HandedOnceAlways == Sched!Spec => []Sched!HandedOnce
<1>1. HandInv /\ [Sched!Next]_(Sched!vars) => HandInv'
  <2>1. UNCHANGED Sched!vars => Still
    BY DEF Still, Sched!vars, Waiting, Hand, Pids, Creating
  <2>2. Still /\ HandInv => HandInv' BY DEF Still, HandInv, Listed, Ids, Once, Past
  <2> QED BY <2>1, <2>2, MappedIs, ListStep, HandsStep, EmptiesStep DEF Mapped
<1>2. HandInv => Sched!HandedOnce BY DEF HandInv, Once, Sched!HandedOnce, Hand, Pids
<1> QED BY InitHand, <1>1, <1>2, PTL DEF Sched!Spec

(* Two processes that share a store fire a due minute of a task once: no     *)
(* claim hands out what another claim hands out too or what was sent before. *)
THEOREM FiredOnceAlways ==
  ASSUME Few
  PROVE  Spec => []FiredOnce
<1>1. Sched!HandedOnce => FiredOnce
  BY ScheduleStoreAssumption DEF Sched!HandedOnce, FiredOnce
<1> QED BY <1>1, HandedOnceAlways, ImplementsScheduleAlways, PTL DEF ImplementsSchedule

-----------------------------------------------------------------------------
(* Owners.                                                                   *)

(* A task in the list before and after a write keeps a living owner.         *)
LEMMA OwnerStep ==
  ASSUME IInv, NEW p \in Procs, Write(p),
         NEW t \in DOMAIN store \cap DOMAIN store', Alive(store[t].owner)
  PROVE  store'[t].owner = store[t].owner
<1>1. /\ snap[p] = store /\ store' = NewList(p) /\ op[p].kind \in {"create", "delete", "tick"}
      /\ store \in Files
  BY NewListIs, WrittenIds DEF IInv, TypeOK, Write
<1>2. CASE op[p].kind = "create"
  <2>1. t # op[p].task BY <1>2 DEF IInv, Created, Creating, Write
  <2> QED BY <1>1, <1>2, <2>1 DEF NewList
<1>3. CASE op[p].kind = "delete" BY <1>1, <1>3 DEF NewList
<1>4. CASE op[p].kind = "tick"
  <2>1. store' = Claimed(p, op[p].at) BY <1>1, <1>4 DEF NewList
  <2>2. CASE t \in Claims(p, op[p].at)
    <3>1. store[t].owner = p BY <1>1, <2>2 DEF Claims, MayClaim
    <3> DEFINE due == Max(DueMinutes(snap[p][t], op[p].at))
    <3>2. store'[t] = [snap[p][t] EXCEPT !.owner = p, !.last = due]
      BY <1>1, <2>1, <2>2 DEF Claimed
    <3> HIDE DEF due
    <3>3. snap[p][t] \in Task BY <1>1, FileIs
    <3> QED BY <3>1, <3>2, <3>3 DEF Task
  <2>3. CASE t \notin Claims(p, op[p].at) BY <1>1, <2>1, <2>3 DEF Claimed
  <2> QED BY <2>2, <2>3
<1> QED BY <1>1, <1>2, <1>3, <1>4

(* A task never changes hands while its owner lives, whoever claims it and   *)
(* whichever list is written over which.                                     *)
THEOREM OwnerKeptAlways ==
  ASSUME Few
  PROVE  Spec => OwnerKept
<1>1. ASSUME IInv, [Next]_vars
      PROVE  [\A t \in DOMAIN store \cap DOMAIN store' :
                Alive(store[t].owner) => store'[t].owner = store[t].owner]_vars
  <2>1. CASE \E p \in Procs : Write(p) BY <1>1, <2>1, OwnerStep
  <2>2. CASE ~ \E p \in Procs : Write(p)
    <3>1. store' = store
      BY <1>1, <2>2
      DEF Next, Acquire, StartCreate, StartDelete, StartTick, Call, AcquireLock, FindStale,
          RemoveStale, GiveUp, Read, WriteFails, Return, Crash, LockAges, MinutePasses, vars
    <3> QED BY <3>1
  <2> QED BY <2>1, <2>2
<1>2. Spec => []IInv BY Invariance
<1> QED BY <1>1, <1>2, PTL DEF Spec, OwnerKept

===============================================================================
