-------------------------- MODULE SubagentPoolProofs --------------------------
(***************************************************************************)
(* Proofs about SubagentPool for any set of tasks and any limits: the      *)
(* types, and the safety properties that the run subagent_pool checks with *)
(* two tasks and one child at a time.                                      *)
(*                                                                         *)
(* The inductive invariant says which tasks hold a place of the pool       *)
(* (PlacesHeld), at which stages a child may be alive (Children), what the *)
(* queue holds (InLine) and when a task has been settled (Settlements).    *)
(***************************************************************************)
EXTENDS SubagentPool, FiniteSetTheorems, TLAPS

PreSlot == {"start", "spawn", "check", "enter", "cancelled", "spawnFailed", "release"}
InSlot == {"monitor", "wait", "exited"}
At(S) == {t \in Tasks : stage[t] \in S}
Holding == At(PreSlot \cup InSlot)

(* Until the pool is disposed, starting and slots are exactly the tasks     *)
(* between pull() and the end of their child; after that they are fewer.    *)
PlacesHeld ==
  /\ starting \subseteq At(PreSlot) /\ slots \subseteq At(InSlot)
  /\ ~disposed => At(PreSlot) \subseteq starting /\ At(InSlot) \subseteq slots
  /\ Cardinality(Holding) <= MaxConcurrency

(* A live child belongs to a task that holds a place.                       *)
Children ==
  \A t \in Tasks : child[t] = "alive" => stage[t] \in {"check", "enter", "monitor", "wait"}

Members(q) == {q[i] : i \in DOMAIN q}
NoneTwice(q) == \A i, j \in DOMAIN q : q[i] = q[j] => i = j

(* The queue holds each task once, and no thread handles a queued task.     *)
InLine ==
  /\ NoneTwice(queue)
  /\ \A t \in Members(queue) : t \in accepted /\ stage[t] = "none" /\ settled[t] = 0

(* A task is settled after all else that happens to it.                     *)
Settlements ==
  \A t \in Tasks :
    /\ stage[t] # "none" => t \in accepted
    /\ t \notin accepted => settled[t] = 0
    /\ settled[t] <= 1
    /\ Handled(t) => settled[t] = 0
    /\ stage[t] = "release" => settled[t] = 1
    /\ t \in accepted /\ settled[t] = 0 /\ ~disposed => t \in Members(queue) \/ Handled(t)

IInv == TypeOK /\ PlacesHeld /\ Children /\ InLine /\ Settlements

-----------------------------------------------------------------------------
(* The queue. *)

(* A task put into a queue at some place.                                   *)
LEMMA Inserted ==
  ASSUME NEW q \in Seq(Tasks), NEW t \in Tasks, NEW i \in 1..(Len(q) + 1)
  PROVE  /\ InsertAt(q, i, t) \in Seq(Tasks)
         /\ Len(InsertAt(q, i, t)) = Len(q) + 1
         /\ \A k \in 1..(Len(q) + 1) :
              InsertAt(q, i, t)[k] = IF k < i THEN q[k] ELSE IF k = i THEN t ELSE q[k - 1]
<1> DEFINE a == SubSeq(q, 1, i - 1)
           b == SubSeq(q, i, Len(q))
           c == a \o <<t>>
<1>1. Len(q) \in Nat /\ i \in Nat /\ 1 <= i /\ i <= Len(q) + 1 OBVIOUS
<1>2. a \in Seq(Tasks) /\ Len(a) = i - 1 /\ \A k \in 1..(i - 1) : a[k] = q[k]
  BY <1>1
<1>3. /\ b \in Seq(Tasks) /\ Len(b) = Len(q) - i + 1
      /\ \A k \in 1..(Len(q) - i + 1) : b[k] = q[i + k - 1]
  BY <1>1
<1> HIDE DEF a, b
<1>4. c \in Seq(Tasks) /\ Len(c) = i /\ \A k \in 1..i : c[k] = IF k < i THEN q[k] ELSE t
  BY <1>1, <1>2
<1>5. InsertAt(q, i, t) = c \o b BY DEF InsertAt, a, b
<1> HIDE DEF c
<1>6. c \o b \in Seq(Tasks) /\ Len(c \o b) = Len(q) + 1
  <2>1. c \in Seq(Tasks) /\ b \in Seq(Tasks) BY <1>3, <1>4
  <2>2. c \o b \in Seq(Tasks) /\ Len(c \o b) = Len(c) + Len(b) BY <2>1
  <2> QED BY <1>1, <1>3, <1>4, <2>2
<1>7. ASSUME NEW k \in 1..(Len(q) + 1)
      PROVE  (c \o b)[k] = IF k < i THEN q[k] ELSE IF k = i THEN t ELSE q[k - 1]
  <2>0. k \in Nat BY <1>1
  <2>1. CASE k <= i BY <1>1, <1>3, <1>4, <2>1
  <2>2. CASE k > i
    <3>1. (c \o b)[k] = b[k - i] BY <1>1, <1>3, <1>4, <2>0, <2>2
    <3>2. b[k - i] = q[i + (k - i) - 1] BY <1>1, <1>3, <2>0, <2>2
    <3>3. i + (k - i) - 1 = k - 1 BY <1>1, <2>0
    <3> QED BY <1>1, <2>0, <2>2, <3>1, <3>2, <3>3
  <2>3. k <= i \/ k > i BY <1>1, <2>0
  <2> QED BY <2>1, <2>2, <2>3
<1> QED BY <1>5, <1>6, <1>7

(* A task taken out of a queue.                                             *)
LEMMA Removed ==
  ASSUME NEW q \in Seq(Tasks), NEW i \in DOMAIN q
  PROVE  LET r == RemoveAt(q, i) IN
         /\ r \in Seq(Tasks) /\ Len(r) = Len(q) - 1
         /\ \A k \in 1..(Len(q) - 1) : r[k] = IF k < i THEN q[k] ELSE q[k + 1]
<1> DEFINE a == SubSeq(q, 1, i - 1)
           b == SubSeq(q, i + 1, Len(q))
<1>1. Len(q) \in Nat /\ i \in Nat /\ 1 <= i /\ i <= Len(q) OBVIOUS
<1>2. a \in Seq(Tasks) /\ Len(a) = i - 1 /\ \A k \in 1..(i - 1) : a[k] = q[k]
  BY <1>1
<1>3. /\ b \in Seq(Tasks) /\ Len(b) = Len(q) - i
      /\ \A k \in 1..(Len(q) - i) : b[k] = q[i + k]
  BY <1>1
<1>4. RemoveAt(q, i) = a \o b BY DEF RemoveAt
<1> HIDE DEF a, b
<1>5. a \o b \in Seq(Tasks) /\ Len(a \o b) = Len(q) - 1 BY <1>1, <1>2, <1>3
<1>6. ASSUME NEW k \in 1..(Len(q) - 1)
      PROVE  (a \o b)[k] = IF k < i THEN q[k] ELSE q[k + 1]
  <2>0. k \in Nat BY <1>1
  <2>1. CASE k < i BY <1>1, <1>2, <1>3, <2>1
  <2>2. CASE k >= i
    <3>1. Len(a) + 1 <= k /\ k <= Len(a) + Len(b) BY <1>1, <1>2, <1>3, <2>0, <2>2
    <3>2. a \in Seq(Tasks) /\ b \in Seq(Tasks) BY <1>2, <1>3
    <3>3. (a \o b)[k] = b[k - (i - 1)] BY <1>2, <2>0, <3>1, <3>2, SMTT(30)
    <3>4. b[k - (i - 1)] = q[i + (k - (i - 1))] BY <1>1, <1>3, <2>0, <2>2
    <3>5. i + (k - (i - 1)) = k + 1 BY <1>1, <2>0
    <3> QED BY <1>1, <2>0, <2>2, <3>3, <3>4, <3>5
  <2>3. k < i \/ k >= i BY <1>1, <2>0
  <2> QED BY <2>1, <2>2, <2>3
<1> QED BY <1>4, <1>5, <1>6

(* What the four changes of the queue do to its members.                    *)
LEMMA InsertedTask ==
  ASSUME NEW q \in Seq(Tasks), NEW t \in Tasks, NEW i \in 1..(Len(q) + 1),
         NoneTwice(q), t \notin Members(q)
  PROVE  /\ InsertAt(q, i, t) \in Seq(Tasks)
         /\ Members(InsertAt(q, i, t)) = Members(q) \cup {t}
         /\ NoneTwice(InsertAt(q, i, t))
<1> DEFINE r == InsertAt(q, i, t)
           n == Len(q)
<1>1. /\ r \in Seq(Tasks) /\ Len(r) = n + 1
      /\ \A k \in 1..(n + 1) : r[k] = IF k < i THEN q[k] ELSE IF k = i THEN t ELSE q[k - 1]
  BY Inserted, ZenonT(30)
<1>2. n \in Nat /\ i \in 1..(n + 1) /\ DOMAIN q = 1..n /\ DOMAIN r = 1..(n + 1) BY <1>1
<1> HIDE DEF r, n
<1> DEFINE from(k) == IF k < i THEN k ELSE k - 1
<1>3. ASSUME NEW k \in 1..(n + 1), k # i PROVE from(k) \in 1..n /\ r[k] = q[from(k)]
  <2>1. CASE k < i BY <1>1, <1>2, <2>1
  <2>2. CASE k > i
    <3>1. k - 1 \in 1..n /\ from(k) = k - 1 BY <1>2, <2>2
    <3>2. r[k] = q[k - 1] BY <1>1, <1>2, <2>2
    <3> QED BY <3>1, <3>2
  <2> QED BY <1>2, <1>3, <2>1, <2>2
<1>4. ASSUME NEW k \in 1..(n + 1), NEW l \in 1..(n + 1), k # i, l # i, from(k) = from(l)
      PROVE  k = l
  BY <1>2, <1>4
<1> HIDE DEF from
<1>5. r[i] = t BY <1>1, <1>2
<1>6. Members(r) \subseteq Members(q) \cup {t} BY <1>2, <1>3, <1>5 DEF Members
<1>7. t \in Members(r) BY <1>1, <1>2, SMTT(30) DEF Members
<1>8. ASSUME NEW j \in 1..n PROVE q[j] \in Members(r)
  <2>1. CASE j < i
    <3>1. j \in 1..(n + 1) /\ r[j] = q[j] BY <1>1, <1>2, <2>1
    <3> QED BY <1>2, <3>1 DEF Members
  <2>2. CASE j >= i
    <3>1. j + 1 \in 1..(n + 1) /\ j + 1 > i /\ (j + 1) - 1 = j BY <1>2, <2>2
    <3>2. r[j + 1] = q[j] BY <1>1, <1>2, <3>1
    <3> QED BY <1>2, <3>1, <3>2 DEF Members
  <2> QED BY <1>2, <2>1, <2>2
<1>9. Members(r) = Members(q) \cup {t} BY <1>2, <1>6, <1>7, <1>8 DEF Members
<1>10. NoneTwice(r)
  <2>1. ASSUME NEW k \in 1..(n + 1), NEW l \in 1..(n + 1), r[k] = r[l] PROVE k = l
    <3>1. CASE k # i /\ l # i
      <4>1. q[from(k)] = q[from(l)] BY <1>3, <2>1, <3>1
      <4>2. from(k) = from(l) BY <1>2, <1>3, <3>1, <4>1 DEF NoneTwice
      <4> QED BY <1>4, <3>1, <4>2
    <3>2. CASE k = i \/ l = i
      <4>1. ASSUME NEW m \in 1..(n + 1), m # i PROVE r[m] # t
        BY <1>2, <1>3, <4>1 DEF Members
      <4> QED BY <1>5, <2>1, <3>2, <4>1
    <3> QED BY <3>1, <3>2
  <2> QED BY <1>2, <2>1 DEF NoneTwice
<1> QED BY <1>1, <1>9, <1>10 DEF r

(* Taking a task out.                                                       *)
LEMMA RemovedTask ==
  ASSUME NEW q \in Seq(Tasks), NEW i \in DOMAIN q, NoneTwice(q)
  PROVE  /\ RemoveAt(q, i) \in Seq(Tasks)
         /\ Members(RemoveAt(q, i)) = Members(q) \ {q[i]}
         /\ NoneTwice(RemoveAt(q, i))
<1> DEFINE r == RemoveAt(q, i)
           n == Len(q)
<1>1. /\ r \in Seq(Tasks) /\ Len(r) = n - 1
      /\ \A k \in 1..(n - 1) : r[k] = IF k < i THEN q[k] ELSE q[k + 1]
  BY Removed
<1>2. n \in Nat /\ i \in 1..n /\ DOMAIN q = 1..n /\ DOMAIN r = 1..(n - 1) BY <1>1
<1> HIDE DEF r, n
<1>3. ASSUME NEW k \in 1..(n - 1) PROVE r[k] \in Members(q) \ {q[i]}
  <2>1. \E j \in 1..n : j # i /\ r[k] = q[j]
    <3>1. CASE k < i BY <1>1, <1>2, <3>1
    <3>2. CASE k >= i BY <1>1, <1>2, <3>2
    <3> QED BY <1>2, <3>1, <3>2
  <2> QED BY <1>2, <2>1 DEF Members, NoneTwice
<1>4. ASSUME NEW j \in 1..n, j # i PROVE q[j] \in Members(r)
  <2>1. CASE j < i BY <1>1, <1>2, <2>1 DEF Members
  <2>2. CASE j > i
    <3>1. j - 1 \in 1..(n - 1) /\ j - 1 >= i /\ (j - 1) + 1 = j BY <1>2, <2>2
    <3>2. r[j - 1] = q[j] BY <1>1, <1>2, <3>1
    <3> QED BY <1>2, <3>1, <3>2 DEF Members
  <2> QED BY <1>2, <1>4, <2>1, <2>2
<1>5. Members(r) = Members(q) \ {q[i]} BY <1>2, <1>3, <1>4 DEF Members
<1>6. NoneTwice(r)
  <2> DEFINE from(k) == IF k < i THEN k ELSE k + 1
  <2>1. ASSUME NEW k \in 1..(n - 1) PROVE from(k) \in 1..n /\ r[k] = q[from(k)]
    BY <1>1, <1>2
  <2>2. ASSUME NEW k \in 1..(n - 1), NEW l \in 1..(n - 1), from(k) = from(l) PROVE k = l
    BY <1>2, <2>2
  <2> HIDE DEF from
  <2>3. ASSUME NEW k \in 1..(n - 1), NEW l \in 1..(n - 1), r[k] = r[l] PROVE k = l
    BY <1>2, <2>1, <2>2, <2>3 DEF NoneTwice
  <2> QED BY <1>2, <2>3 DEF NoneTwice
<1> QED BY <1>1, <1>5, <1>6 DEF r

(* Taking the first task.                                                   *)
LEMMA FirstTask ==
  ASSUME NEW q \in Seq(Tasks), q # <<>>, NoneTwice(q)
  PROVE  /\ Head(q) \in Tasks /\ Head(q) \in Members(q)
         /\ Tail(q) \in Seq(Tasks)
         /\ Members(Tail(q)) = Members(q) \ {Head(q)}
         /\ NoneTwice(Tail(q))
<1> DEFINE r == Tail(q)
           n == Len(q)
<1>1. n \in Nat /\ n >= 1 /\ DOMAIN q = 1..n /\ Head(q) = q[1] BY DEF n
<1>2. /\ r \in Seq(Tasks) /\ DOMAIN r = 1..(n - 1)
      /\ \A k \in 1..(n - 1) : r[k] = q[k + 1]
  BY <1>1
<1> HIDE DEF r, n
<1>3. Head(q) \in Tasks /\ Head(q) \in Members(q) BY <1>1 DEF Members
<1>4. ASSUME NEW k \in 1..(n - 1) PROVE r[k] \in Members(q) \ {Head(q)}
  <2>1. k + 1 \in 1..n /\ k + 1 # 1 /\ 1 \in 1..n BY <1>1
  <2>2. q[k + 1] # q[1] BY <1>1, <2>1 DEF NoneTwice
  <2> QED BY <1>1, <1>2, <2>1, <2>2 DEF Members
<1>5. ASSUME NEW j \in 1..n, j # 1 PROVE q[j] \in Members(r)
  <2>1. j - 1 \in 1..(n - 1) /\ (j - 1) + 1 = j BY <1>1, <1>5
  <2> QED BY <1>2, <2>1 DEF Members
<1>6. Members(r) = Members(q) \ {Head(q)} BY <1>1, <1>2, <1>4, <1>5, SMTT(30) DEF Members
<1>7. NoneTwice(r)
  <2>1. ASSUME NEW k \in 1..(n - 1), NEW l \in 1..(n - 1), r[k] = r[l] PROVE k = l
    <3>1. k + 1 \in 1..n /\ l + 1 \in 1..n BY <1>1
    <3>2. q[k + 1] = q[l + 1] BY <1>2, <2>1
    <3>3. k + 1 = l + 1 BY <1>1, <3>1, <3>2 DEF NoneTwice
    <3> QED BY <1>1, <3>3
  <2> QED BY <1>2, <2>1 DEF NoneTwice
<1> QED BY <1>2, <1>3, <1>6, <1>7 DEF r

(* Putting a task in front.                                                 *)
LEMMA FrontTask ==
  ASSUME NEW q \in Seq(Tasks), NEW t \in Tasks, NoneTwice(q), t \notin Members(q)
  PROVE  /\ <<t>> \o q \in Seq(Tasks)
         /\ Members(<<t>> \o q) = Members(q) \cup {t}
         /\ NoneTwice(<<t>> \o q)
<1> DEFINE r == <<t>> \o q
           n == Len(q)
<1>1. n \in Nat /\ DOMAIN q = 1..n OBVIOUS
<1>2. /\ r \in Seq(Tasks) /\ DOMAIN r = 1..(n + 1) /\ r[1] = t
      /\ \A k \in 1..n : r[k + 1] = q[k]
  BY <1>1
<1> HIDE DEF r, n
<1>3. ASSUME NEW k \in 1..(n + 1) PROVE r[k] = t \/ \E j \in 1..n : k = j + 1 /\ r[k] = q[j]
  <2>1. k = 1 \/ (k - 1 \in 1..n /\ k = (k - 1) + 1) BY <1>1
  <2> QED BY <1>2, <2>1
<1>4. Members(r) = Members(q) \cup {t}
  <2>1. Members(r) \subseteq Members(q) \cup {t} BY <1>1, <1>2, <1>3 DEF Members
  <2>2. t \in Members(r) BY <1>1, <1>2 DEF Members
  <2>3. ASSUME NEW j \in 1..n PROVE q[j] \in Members(r) BY <1>1, <1>2 DEF Members
  <2> QED BY <1>1, <2>1, <2>2, <2>3 DEF Members
<1>5. NoneTwice(r)
  <2>1. ASSUME NEW k \in 1..(n + 1), k # 1 PROVE r[k] # t /\ k - 1 \in 1..n /\ r[k] = q[k - 1]
    <3>1. k - 1 \in 1..n /\ k = (k - 1) + 1 BY <1>1, <2>1
    <3>2. r[k] = q[k - 1] BY <1>2, <3>1
    <3> QED BY <1>1, <3>1, <3>2 DEF Members
  <2>2. ASSUME NEW k \in 1..(n + 1), NEW l \in 1..(n + 1), r[k] = r[l] PROVE k = l
    <3>1. CASE k # 1 /\ l # 1
      <4>1. q[k - 1] = q[l - 1] BY <2>1, <2>2, <3>1
      <4>2. k - 1 = l - 1 BY <1>1, <2>1, <3>1, <4>1 DEF NoneTwice
      <4> QED BY <1>1, <4>2
    <3>2. CASE k = 1 \/ l = 1 BY <1>2, <2>1, <2>2, <3>2
    <3> QED BY <3>1, <3>2
  <2> QED BY <1>2, <2>2 DEF NoneTwice
<1> QED BY <1>2, <1>4, <1>5 DEF r

-----------------------------------------------------------------------------
(* The steps.  What the actions leave alone is the same in all of them.     *)

USE DEF lockVars, runVars, guardVars, settleVars, KeepRun, KeepHistory, KeepSettled,
        KeepGuard, KeepOthers, GoTo, Forget, Clear, PullNext

(* No more tasks hold a place than before.                                  *)
LEMMA FewerHold ==
  ASSUME IInv, Holding' \subseteq Holding
  PROVE  Cardinality(Holding') <= MaxConcurrency
<1>1. IsFiniteSet(Holding)
  BY SubagentPoolAssumption, FS_Subset DEF Holding, At
<1>2. Cardinality(Holding) \in Nat /\ Cardinality(Holding) <= MaxConcurrency
  BY <1>1, FS_CardinalityType DEF IInv, PlacesHeld
<1>3. Cardinality(Holding') <= Cardinality(Holding) /\ Cardinality(Holding') \in Nat
  BY <1>1, FS_Subset, FS_CardinalityType
<1> QED BY <1>2, <1>3, SubagentPoolAssumption

(* A step that moves no task from one place to another.                     *)
LEMMA NothingMoves ==
  ASSUME IInv, TypeOK', Children',
         UNCHANGED <<queue, starting, slots, disposed, stage, accepted, settled>>
  PROVE  IInv'
<1>1. PlacesHeld' BY DEF IInv, PlacesHeld, Holding, At
<1>2. InLine' BY DEF IInv, InLine, NoneTwice, Members
<1>3. Settlements' BY DEF IInv, Settlements, Handled, Members
<1> QED BY <1>1, <1>2, <1>3 DEF IInv

(* wait_for touches the stored results and its waiter only. *)
LEMMA WaitForStep ==
  ASSUME IInv, NEW t \in Tasks, WaitFor(t)
  PROVE  IInv'
<1> USE DEF IInv, TypeOK, WaitFor
<1>1. TypeOK' BY DEF Reasons
<1>2. Children' BY DEF Children
<1> QED BY <1>1, <1>2, NothingMoves

(* A cancel of a starting task only leaves its flag. *)
LEMMA CancelStartingStep ==
  ASSUME IInv, NEW t \in Tasks, CancelStarting(t)
  PROVE  IInv'
<1> USE DEF IInv, TypeOK, CancelStarting
<1>1. TypeOK' BY DEF Reasons
<1>2. Children' BY DEF Children
<1> QED BY <1>1, <1>2, NothingMoves

(* A cancel of a running task leaves a flag and a kill to send. *)
LEMMA CancelRunningStep ==
  ASSUME IInv, NEW t \in Tasks, CancelRunning(t)
  PROVE  IInv'
<1> USE DEF IInv, TypeOK, CancelRunning
<1>1. TypeOK' BY DEF Reasons
<1>2. Children' BY DEF Children
<1> QED BY <1>1, <1>2, NothingMoves

(* The lifeguard's report only sets the kill reason. *)
LEMMA ReportStep ==
  ASSUME IInv, NEW t \in Tasks, Report(t)
  PROVE  IInv'
<1> USE DEF IInv, TypeOK, Report
<1>1. TypeOK' BY DEF Reasons
<1>2. Children' BY DEF Children
<1> QED BY <1>1, <1>2, NothingMoves

(* A kill never makes a child alive. *)
LEMMA KillStep ==
  ASSUME IInv, NEW t \in Tasks, Kill(t)
  PROVE  IInv'
<1> USE DEF IInv, TypeOK, Kill, Killed
<1>1. TypeOK' BY DEF Reasons
<1>2. Children' BY DEF Children
<1> QED BY <1>1, <1>2, NothingMoves

(* The lifeguard signals a child and moves no task. *)
LEMMA ReapStep ==
  ASSUME IInv, NEW t \in Tasks, Reap(t)
  PROVE  IInv'
<1> USE DEF IInv, TypeOK, Reap, Killed
<1>1. TypeOK' BY DEF Reasons
<1>2. Children' BY DEF Children
<1> QED BY <1>1, <1>2, NothingMoves

(* A child that leaves is not alive. *)
LEMMA ChildExitsStep ==
  ASSUME IInv, NEW t \in Tasks, ChildExits(t)
  PROVE  IInv'
<1> USE DEF IInv, TypeOK, ChildExits, Exits
<1>1. TypeOK' BY DEF Reasons
<1>2. Children' BY DEF Children
<1> QED BY <1>1, <1>2, NothingMoves

(* A killed child leaves, and its task stays where it is. *)
LEMMA ChildDiesStep ==
  ASSUME IInv, NEW t \in Tasks, ChildDies(t)
  PROVE  IInv'
<1> USE DEF IInv, TypeOK, ChildDies, Exits
<1>1. TypeOK' BY DEF Reasons
<1>2. Children' BY DEF Children
<1> QED BY <1>1, <1>2, NothingMoves

(* pull() returns and has changed nothing. *)
LEMMA PullReturnsStep ==
  ASSUME IInv, PullReturns
  PROVE  IInv'
<1> USE DEF IInv, TypeOK, PullReturns
<1>1. TypeOK' BY DEF Reasons
<1>2. Children' BY DEF Children
<1> QED BY <1>1, <1>2, NothingMoves

(* Disposing the lifeguard moves no task. *)
LEMMA DisposeGuardStep ==
  ASSUME IInv, DisposeGuard
  PROVE  IInv'
<1> USE DEF IInv, TypeOK, DisposeGuard
<1>1. TypeOK' BY DEF Reasons
<1>2. Children' BY DEF Children
<1> QED BY <1>1, <1>2, NothingMoves

(* start_task goes on to the spawn, or to the settlement of a cancel. *)
LEMMA StartTaskStep ==
  ASSUME IInv, NEW t \in Tasks, StartTask(t)
  PROVE  IInv'
<1> USE DEF IInv, TypeOK, StartTask
<1>1. TypeOK' BY DEF Stages, Reasons
<1>2. PlacesHeld'
  <2>1. Holding' \subseteq Holding BY DEF Holding, At, PreSlot, InSlot
  <2>2. Cardinality(Holding') <= MaxConcurrency BY <2>1, FewerHold
  <2>3. /\ starting' \subseteq At(PreSlot)' /\ slots' \subseteq At(InSlot)'
        /\ ~disposed' => At(PreSlot)' \subseteq starting' /\ At(InSlot)' \subseteq slots'
    BY ZenonT(30) DEF PlacesHeld, At, PreSlot, InSlot
  <2> QED BY <2>2, <2>3 DEF PlacesHeld
<1>3. Children' BY DEF Children
<1>4. InLine' BY DEF InLine, Members, NoneTwice
<1>5. Settlements' BY DEF Settlements, Handled, Members
<1> QED BY <1>1, <1>2, <1>3, <1>4, <1>5

(* A child becomes alive for a task that holds a place. *)
LEMMA SpawnChildStep ==
  ASSUME IInv, NEW t \in Tasks, SpawnChild(t)
  PROVE  IInv'
<1> USE DEF IInv, TypeOK, SpawnChild
<1>1. TypeOK' BY DEF Stages, Reasons
<1>2. PlacesHeld'
  <2>1. Holding' \subseteq Holding BY DEF Holding, At, PreSlot, InSlot
  <2>2. Cardinality(Holding') <= MaxConcurrency BY <2>1, FewerHold
  <2>3. /\ starting' \subseteq At(PreSlot)' /\ slots' \subseteq At(InSlot)'
        /\ ~disposed' => At(PreSlot)' \subseteq starting' /\ At(InSlot)' \subseteq slots'
    BY DEF PlacesHeld, At, PreSlot, InSlot
  <2> QED BY <2>2, <2>3 DEF PlacesHeld
<1>3. Children' BY DEF Children
<1>4. InLine' BY DEF InLine, Members, NoneTwice
<1>5. Settlements' BY DEF Settlements, Handled, Members
<1> QED BY <1>1, <1>2, <1>3, <1>4, <1>5

(* A failed spawn keeps the place. *)
LEMMA SpawnFailsStep ==
  ASSUME IInv, NEW t \in Tasks, SpawnFails(t)
  PROVE  IInv'
<1> USE DEF IInv, TypeOK, SpawnFails
<1>1. TypeOK' BY DEF Stages, Reasons
<1>2. PlacesHeld'
  <2>1. Holding' \subseteq Holding BY DEF Holding, At, PreSlot, InSlot
  <2>2. Cardinality(Holding') <= MaxConcurrency BY <2>1, FewerHold
  <2>3. /\ starting' \subseteq At(PreSlot)' /\ slots' \subseteq At(InSlot)'
        /\ ~disposed' => At(PreSlot)' \subseteq starting' /\ At(InSlot)' \subseteq slots'
    BY ZenonT(30) DEF PlacesHeld, At, PreSlot, InSlot
  <2> QED BY <2>2, <2>3 DEF PlacesHeld
<1>3. Children' BY DEF Children
<1>4. InLine' BY DEF InLine, Members, NoneTwice
<1>5. Settlements' BY DEF Settlements, Handled, Members
<1> QED BY <1>1, <1>2, <1>3, <1>4, <1>5

(* Starting becomes running in one step. *)
LEMMA EnterSlotStep ==
  ASSUME IInv, NEW t \in Tasks, EnterSlot(t)
  PROVE  IInv'
<1> USE DEF IInv, TypeOK, EnterSlot
<1>1. TypeOK' BY DEF Stages, Reasons
<1>2. PlacesHeld'
  <2>1. Holding' \subseteq Holding BY DEF Holding, At, PreSlot, InSlot
  <2>2. Cardinality(Holding') <= MaxConcurrency BY <2>1, FewerHold
  <2>3. /\ starting' \subseteq At(PreSlot)' /\ slots' \subseteq At(InSlot)'
        /\ ~disposed' => At(PreSlot)' \subseteq starting' /\ At(InSlot)' \subseteq slots'
    BY DEF PlacesHeld, At, PreSlot, InSlot
  <2> QED BY <2>2, <2>3 DEF PlacesHeld
<1>3. Children' BY DEF Children
<1>4. InLine' BY DEF InLine, Members, NoneTwice
<1>5. Settlements' BY DEF Settlements, Handled, Members
<1> QED BY <1>1, <1>2, <1>3, <1>4, <1>5

(* The task stays in its slot while its child is watched. *)
LEMMA MonitorStep ==
  ASSUME IInv, NEW t \in Tasks, Monitor(t)
  PROVE  IInv'
<1> USE DEF IInv, TypeOK, Monitor
<1>1. TypeOK' BY DEF Stages, Reasons
<1>2. PlacesHeld'
  <2>1. Holding' \subseteq Holding BY DEF Holding, At, PreSlot, InSlot
  <2>2. Cardinality(Holding') <= MaxConcurrency BY <2>1, FewerHold
  <2>3. /\ starting' \subseteq At(PreSlot)' /\ slots' \subseteq At(InSlot)'
        /\ ~disposed' => At(PreSlot)' \subseteq starting' /\ At(InSlot)' \subseteq slots'
    BY DEF PlacesHeld, At, PreSlot, InSlot
  <2> QED BY <2>2, <2>3 DEF PlacesHeld
<1>3. Children' BY DEF Children
<1>4. InLine' BY DEF InLine, Members, NoneTwice
<1>5. Settlements' BY DEF Settlements, Handled, Members
<1> QED BY <1>1, <1>2, <1>3, <1>4, <1>5

(* The place of a task that never ran is given back. *)
LEMMA ReleaseStep ==
  ASSUME IInv, NEW t \in Tasks, Release(t)
  PROVE  IInv'
<1> USE DEF IInv, TypeOK, Release
<1>1. TypeOK' BY DEF Stages, Reasons
<1>2. PlacesHeld'
  <2>1. Holding' \subseteq Holding BY DEF Holding, At, PreSlot, InSlot
  <2>2. Cardinality(Holding') <= MaxConcurrency BY <2>1, FewerHold
  <2>3. /\ starting' \subseteq At(PreSlot)' /\ slots' \subseteq At(InSlot)'
        /\ ~disposed' => At(PreSlot)' \subseteq starting' /\ At(InSlot)' \subseteq slots'
    BY DEF PlacesHeld, At, PreSlot, InSlot
  <2> QED BY <2>2, <2>3 DEF PlacesHeld
<1>3. Children' BY DEF Children
<1>4. InLine' BY DEF InLine, Members, NoneTwice
<1>5. Settlements' BY DEF Settlements, Handled, Members
<1> QED BY <1>1, <1>2, <1>3, <1>4, <1>5

(* The child has left; its task still has the slot. *)
LEMMA ChildLeftStep ==
  ASSUME IInv, NEW t \in Tasks, ChildLeft(t)
  PROVE  IInv'
<1> USE DEF IInv, TypeOK, ChildLeft
<1>1. TypeOK' BY DEF Stages, Reasons
<1>2. PlacesHeld'
  <2>1. Holding' \subseteq Holding BY DEF Holding, At, PreSlot, InSlot
  <2>2. Cardinality(Holding') <= MaxConcurrency BY <2>1, FewerHold
  <2>3. /\ starting' \subseteq At(PreSlot)' /\ slots' \subseteq At(InSlot)'
        /\ ~disposed' => At(PreSlot)' \subseteq starting' /\ At(InSlot)' \subseteq slots'
    BY DEF PlacesHeld, At, PreSlot, InSlot
  <2> QED BY <2>2, <2>3 DEF PlacesHeld
<1>3. Children' BY DEF Children
<1>4. InLine' BY DEF InLine, Members, NoneTwice
<1>5. Settlements' BY DEF Settlements, Handled, Members
<1> QED BY <1>1, <1>2, <1>3, <1>4, <1>5

(* settle gives the slot back. *)
LEMMA LeaveSlotStep ==
  ASSUME IInv, NEW t \in Tasks, LeaveSlot(t)
  PROVE  IInv'
<1> USE DEF IInv, TypeOK, LeaveSlot
<1>1. TypeOK' BY DEF Stages, Reasons
<1>2. PlacesHeld'
  <2>1. Holding' \subseteq Holding BY DEF Holding, At, PreSlot, InSlot
  <2>2. Cardinality(Holding') <= MaxConcurrency BY <2>1, FewerHold
  <2>3. /\ starting' \subseteq At(PreSlot)' /\ slots' \subseteq At(InSlot)'
        /\ ~disposed' => At(PreSlot)' \subseteq starting' /\ At(InSlot)' \subseteq slots'
    BY DEF PlacesHeld, At, PreSlot, InSlot
  <2> QED BY <2>2, <2>3 DEF PlacesHeld
<1>3. Children' BY DEF Children
<1>4. InLine' BY DEF InLine, Members, NoneTwice
<1>5. Settlements' BY DEF Settlements, Handled, Members
<1> QED BY <1>1, <1>2, <1>3, <1>4, <1>5

(* settle decides on a retry, without a place. *)
LEMMA SettleStep ==
  ASSUME IInv, NEW t \in Tasks, Settle(t)
  PROVE  IInv'
<1> USE DEF IInv, TypeOK, Settle
<1>1. TypeOK' BY DEF Stages, Reasons
<1>2. PlacesHeld'
  <2>1. Holding' \subseteq Holding BY DEF Holding, At, PreSlot, InSlot
  <2>2. Cardinality(Holding') <= MaxConcurrency BY <2>1, FewerHold
  <2>3. /\ starting' \subseteq At(PreSlot)' /\ slots' \subseteq At(InSlot)'
        /\ ~disposed' => At(PreSlot)' \subseteq starting' /\ At(InSlot)' \subseteq slots'
    BY ZenonT(30) DEF PlacesHeld, At, PreSlot, InSlot
  <2> QED BY <2>2, <2>3 DEF PlacesHeld
<1>3. Children' BY DEF Children
<1>4. InLine' BY DEF InLine, Members, NoneTwice
<1>5. Settlements' BY DEF Settlements, Handled, Members
<1> QED BY <1>1, <1>2, <1>3, <1>4, <1>5

(* A cancelled child is killed before its task is settled. *)
LEMMA LookAgainStep ==
  ASSUME IInv, NEW t \in Tasks, LookAgain(t)
  PROVE  IInv'
<1> USE DEF IInv, TypeOK, LookAgain, Killed
<1>1. TypeOK' BY DEF Stages, Reasons
<1>2. PlacesHeld'
  <2>1. Holding' \subseteq Holding BY DEF Holding, At, PreSlot, InSlot
  <2>2. Cardinality(Holding') <= MaxConcurrency BY <2>1, FewerHold
  <2>3. /\ starting' \subseteq At(PreSlot)' /\ slots' \subseteq At(InSlot)'
        /\ ~disposed' => At(PreSlot)' \subseteq starting' /\ At(InSlot)' \subseteq slots'
    BY ZenonT(30) DEF PlacesHeld, At, PreSlot, InSlot
  <2> QED BY <2>2, <2>3 DEF PlacesHeld
<1>3. Children' BY DEF Children
<1>4. InLine' BY DEF InLine, Members, NoneTwice
<1>5. Settlements' BY DEF Settlements, Handled, Members
<1> QED BY <1>1, <1>2, <1>3, <1>4, <1>5

(* dispose() clears what the pool holds. *)
LEMMA DisposeStep ==
  ASSUME IInv, Dispose
  PROVE  IInv'
<1> USE DEF IInv, TypeOK, Dispose
<1>1. TypeOK' 
  <2>1. /\ queue' \in Seq(Tasks) /\ order' \in Seq(Tasks) /\ Len(order') <= MaxCompleted
        /\ disposed' \in BOOLEAN
    BY SubagentPoolAssumption
  <2>2. answer' \in [Tasks -> {"none", "waiting", "result", "error"}] OBVIOUS
  <2>3. reasons' \in [Tasks -> Reasons] BY DEF Reasons
  <2> QED BY <2>1, <2>2, <2>3
<1>2. PlacesHeld'
  <2>1. Holding' \subseteq Holding BY DEF Holding, At, PreSlot, InSlot
  <2>2. Cardinality(Holding') <= MaxConcurrency BY <2>1, FewerHold
  <2>3. /\ starting' \subseteq At(PreSlot)' /\ slots' \subseteq At(InSlot)'
        /\ ~disposed' => At(PreSlot)' \subseteq starting' /\ At(InSlot)' \subseteq slots'
    BY DEF PlacesHeld, At, PreSlot, InSlot
  <2> QED BY <2>2, <2>3 DEF PlacesHeld
<1>3. Children' BY DEF Children
<1>4. InLine' BY DEF InLine, Members, NoneTwice
<1>5. Settlements' BY DEF Settlements, Handled, Members
<1> QED BY <1>1, <1>2, <1>3, <1>4, <1>5

(* spawn() queues a task it has never seen. *)
LEMMA SpawnStep ==
  ASSUME IInv, NEW t \in Tasks, Spawn(t)
  PROVE  IInv'
<1> USE DEF IInv, TypeOK, Spawn
<1>1. t \notin Members(queue) /\ NoneTwice(queue) BY DEF InLine
<1>2. PICK i \in Places(t) : queue' = InsertAt(queue, i, t) OBVIOUS
<1>3. i \in 1..(Len(queue) + 1) BY DEF Places
<1>4. /\ queue' \in Seq(Tasks) /\ Members(queue') = Members(queue) \cup {t}
      /\ NoneTwice(queue')
  BY <1>1, <1>2, <1>3, InsertedTask
<1>5. TypeOK' BY <1>4
<1>6. PlacesHeld' BY FewerHold DEF PlacesHeld, Holding, At
<1>7. Children' BY DEF Children
<1>8. stage[t] = "none" /\ settled[t] = 0 BY DEF Settlements
<1>9. InLine' BY <1>4, <1>8 DEF InLine
<1>10. Settlements' BY <1>4, <1>8 DEF Settlements, Handled
<1> QED BY <1>5, <1>6, <1>7, <1>9, <1>10

(* A cancelled task leaves the queue with the thread that cancels it. *)
LEMMA CancelQueuedStep ==
  ASSUME IInv, NEW t \in Tasks, CancelQueued(t)
  PROVE  IInv'
<1> USE DEF IInv, TypeOK, CancelQueued
<1>1. PICK i \in DOMAIN queue : queue[i] = t /\ queue' = RemoveAt(queue, i) OBVIOUS
<1>2. /\ queue' \in Seq(Tasks) /\ Members(queue') = Members(queue) \ {t}
      /\ NoneTwice(queue')
  BY <1>1, RemovedTask DEF InLine
<1>3. stage[t] = "none" /\ t \in accepted /\ settled[t] = 0
  BY <1>1 DEF InLine, Members
<1>4. TypeOK' BY <1>2 DEF Stages
<1>5. PlacesHeld'
  <2>1. Holding' \subseteq Holding BY <1>3 DEF Holding, At, PreSlot, InSlot
  <2>2. Cardinality(Holding') <= MaxConcurrency BY <2>1, FewerHold
  <2>3. /\ starting' \subseteq At(PreSlot)' /\ slots' \subseteq At(InSlot)'
        /\ ~disposed' => At(PreSlot)' \subseteq starting' /\ At(InSlot)' \subseteq slots'
    BY <1>3 DEF PlacesHeld, At, PreSlot, InSlot
  <2> QED BY <2>2, <2>3 DEF PlacesHeld
<1>6. Children' BY <1>3 DEF Children
<1>7. InLine' BY <1>2 DEF InLine
<1>8. Settlements' BY <1>2, <1>3 DEF Settlements, Handled
<1> QED BY <1>4, <1>5, <1>6, <1>7, <1>8

(* A failed wait takes the place over, or gives it back. *)
LEMMA WaitFailsStep ==
  ASSUME IInv, NEW t \in Tasks, WaitFails(t)
  PROVE  IInv'
<1> USE DEF IInv, TypeOK, WaitFails
<1>1. TypeOK' 
  <2>1. stage' \in [Tasks -> Stages] BY DEF Stages
  <2>2. starting' \subseteq Tasks /\ slots' \subseteq Tasks OBVIOUS
  <2> QED BY <2>1, <2>2
<1>2. PlacesHeld'
  <2>1. Holding' \subseteq Holding BY DEF Holding, At, PreSlot, InSlot
  <2>2. Cardinality(Holding') <= MaxConcurrency BY <2>1, FewerHold
  <2>3. CASE retry[t] BY <2>2, <2>3, ZenonT(30) DEF PlacesHeld, At, PreSlot, InSlot
  <2>4. CASE ~retry[t] BY <2>2, <2>4 DEF PlacesHeld, At, PreSlot, InSlot
  <2> QED BY <2>3, <2>4
<1>3. Children' BY DEF Children
<1>4. InLine' BY DEF InLine, Members, NoneTwice
<1>5. Settlements' BY DEF Settlements, Handled, Members
<1> QED BY <1>1, <1>2, <1>3, <1>4, <1>5

(* A retry goes back to the front of the queue. *)
LEMMA RequeueStep ==
  ASSUME IInv, NEW t \in Tasks, Requeue(t)
  PROVE  IInv'
<1> USE DEF IInv, TypeOK, Requeue
<1>1. t \notin Members(queue) /\ NoneTwice(queue) BY DEF InLine
<1>2. /\ queue' \in Seq(Tasks) /\ Members(queue') = Members(queue) \cup {t}
      /\ NoneTwice(queue')
  BY <1>1, FrontTask
<1>3. t \in accepted /\ settled[t] = 0 BY DEF Settlements, Handled
<1>4. TypeOK' BY <1>2 DEF Stages, Reasons
<1>5. PlacesHeld'
  <2>1. Holding' \subseteq Holding BY DEF Holding, At, PreSlot, InSlot
  <2>2. Cardinality(Holding') <= MaxConcurrency BY <2>1, FewerHold
  <2>3. /\ starting' \subseteq At(PreSlot)' /\ slots' \subseteq At(InSlot)'
        /\ ~disposed' => At(PreSlot)' \subseteq starting' /\ At(InSlot)' \subseteq slots'
    BY DEF PlacesHeld, At, PreSlot, InSlot
  <2> QED BY <2>2, <2>3 DEF PlacesHeld
<1>6. Children' BY DEF Children
<1>7. InLine' BY <1>2, <1>3 DEF InLine
<1>8. Settlements' BY <1>2, <1>3 DEF Settlements, Handled
<1> QED BY <1>4, <1>5, <1>6, <1>7, <1>8

(* A task is settled once, and the stored results stay within their bound.  *)
LEMMA ResolveTypes ==
  ASSUME TypeOK, NEW t \in Tasks, Resolve(t)
  PROVE  /\ completed' \subseteq Tasks /\ evicted' \subseteq Tasks
         /\ order' \in Seq(Tasks) /\ Len(order') <= MaxCompleted
         /\ answer' \in [Tasks -> {"none", "waiting", "result", "error"}]
         /\ settled' \in [Tasks -> Nat] /\ settled' = [settled EXCEPT ![t] = @ + 1]
<1> DEFINE aged == Append(order, t)
<1> USE DEF TypeOK, Resolve
<1>1. settled' \in [Tasks -> Nat] /\ settled' = [settled EXCEPT ![t] = @ + 1] OBVIOUS
<1>2. answer' \in [Tasks -> {"none", "waiting", "result", "error"}] OBVIOUS
<1>3. /\ aged \in Seq(Tasks) /\ Len(aged) = Len(order) + 1 /\ Len(aged) \in Nat /\ aged # <<>>
  <2>1. order \in Seq(Tasks) /\ Len(order) \in Nat OBVIOUS
  <2>2. aged \in Seq(Tasks) /\ Len(aged) = Len(order) + 1 BY <2>1
  <2>3. Len(aged) # 0 BY <2>1, <2>2
  <2>4. ASSUME aged = <<>> PROVE FALSE
    <3>1. Len(aged) = Len(<<>>) BY <2>4
    <3> QED BY <2>3, <3>1
  <2> QED BY <2>1, <2>2, <2>4
<1>4. answer[t] # "waiting" => order' = IF Overfull(aged) THEN Tail(aged) ELSE aged OBVIOUS
<1> HIDE DEF aged
<1>5. Head(aged) \in Tasks /\ Tail(aged) \in Seq(Tasks) /\ Len(Tail(aged)) = Len(order)
  BY <1>3
<1> USE DEF aged
<1>6. completed' \subseteq Tasks /\ evicted' \subseteq Tasks BY <1>5
<1>7. order' \in Seq(Tasks) /\ Len(order') <= MaxCompleted
  <2>1. CASE answer[t] = "waiting" BY <2>1
  <2>2. CASE answer[t] # "waiting" /\ Overfull(aged) BY <1>4, <1>5, <2>2
  <2>3. CASE answer[t] # "waiting" /\ ~Overfull(aged)
    <3>1. ~(Len(aged) > MaxCompleted) /\ order' = aged BY <1>4, <2>3 DEF Overfull
    <3> QED BY <1>3, <3>1, SubagentPoolAssumption
  <2> QED BY <2>1, <2>2, <2>3
<1> QED BY <1>1, <1>2, <1>6, <1>7

(* A task that never ran is settled while it still holds its place. *)
LEMMA ResolveUnstartedStep ==
  ASSUME IInv, NEW t \in Tasks, ResolveUnstarted(t)
  PROVE  IInv'
<1> USE DEF IInv, TypeOK, ResolveUnstarted
<1>1. t \in accepted /\ t \notin Members(queue) /\ settled[t] = 0
  BY DEF InLine, Settlements, Handled
<1>2. settled' = [settled EXCEPT ![t] = 1] BY <1>1, ResolveTypes
<1>3. TypeOK' BY ResolveTypes DEF Stages, Reasons
<1>4. PlacesHeld'
  <2>1. Holding' \subseteq Holding BY DEF Holding, At, PreSlot, InSlot
  <2>2. Cardinality(Holding') <= MaxConcurrency BY <2>1, FewerHold
  <2>3. /\ starting' \subseteq At(PreSlot)' /\ slots' \subseteq At(InSlot)'
        /\ ~disposed' => At(PreSlot)' \subseteq starting' /\ At(InSlot)' \subseteq slots'
    BY DEF PlacesHeld, At, PreSlot, InSlot
  <2> QED BY <2>2, <2>3 DEF PlacesHeld
<1>5. Children' BY DEF Children
<1>6. InLine' BY <1>1, <1>2 DEF InLine, Members, NoneTwice
<1>7. Settlements' BY <1>1, <1>2 DEF Settlements, Handled, Members
<1> QED BY <1>3, <1>4, <1>5, <1>6, <1>7

(* A finished task is settled after its slot is free. *)
LEMMA ResolveSettledStep ==
  ASSUME IInv, NEW t \in Tasks, ResolveSettled(t)
  PROVE  IInv'
<1> USE DEF IInv, TypeOK, ResolveSettled
<1>1. t \in accepted /\ t \notin Members(queue) /\ settled[t] = 0
  BY DEF InLine, Settlements, Handled
<1>2. settled' = [settled EXCEPT ![t] = 1] BY <1>1, ResolveTypes
<1>3. TypeOK' BY ResolveTypes, SMTT(30) DEF Stages, Reasons
<1>4. PlacesHeld'
  <2>1. Holding' \subseteq Holding BY DEF Holding, At, PreSlot, InSlot
  <2>2. Cardinality(Holding') <= MaxConcurrency BY <2>1, FewerHold
  <2>3. /\ starting' \subseteq At(PreSlot)' /\ slots' \subseteq At(InSlot)'
        /\ ~disposed' => At(PreSlot)' \subseteq starting' /\ At(InSlot)' \subseteq slots'
    BY DEF PlacesHeld, At, PreSlot, InSlot
  <2> QED BY <2>2, <2>3 DEF PlacesHeld
<1>5. Children' BY DEF Children
<1>6. InLine' BY <1>1, <1>2 DEF InLine, Members, NoneTwice
<1>7. Settlements' BY <1>1, <1>2 DEF Settlements, Handled, Members
<1> QED BY <1>3, <1>4, <1>5, <1>6, <1>7

(* A task cancelled in the queue is settled. *)
LEMMA ResolveQueuedStep ==
  ASSUME IInv, NEW t \in Tasks, ResolveQueued(t)
  PROVE  IInv'
<1> USE DEF IInv, TypeOK, ResolveQueued
<1>1. t \in accepted /\ t \notin Members(queue) /\ settled[t] = 0
  BY DEF InLine, Settlements, Handled
<1>2. settled' = [settled EXCEPT ![t] = 1] BY <1>1, ResolveTypes
<1>3. TypeOK' BY ResolveTypes DEF Stages, Reasons
<1>4. PlacesHeld'
  <2>1. Holding' \subseteq Holding BY DEF Holding, At, PreSlot, InSlot
  <2>2. Cardinality(Holding') <= MaxConcurrency BY <2>1, FewerHold
  <2>3. /\ starting' \subseteq At(PreSlot)' /\ slots' \subseteq At(InSlot)'
        /\ ~disposed' => At(PreSlot)' \subseteq starting' /\ At(InSlot)' \subseteq slots'
    BY DEF PlacesHeld, At, PreSlot, InSlot
  <2> QED BY <2>2, <2>3 DEF PlacesHeld
<1>5. Children' BY DEF Children
<1>6. InLine' BY <1>1, <1>2 DEF InLine, Members, NoneTwice
<1>7. Settlements' BY <1>1, <1>2 DEF Settlements, Handled, Members
<1> QED BY <1>3, <1>4, <1>5, <1>6, <1>7

(* pull() takes the first task and its place in one step, below the limit. *)
LEMMA PullStartsStep ==
  ASSUME IInv, PullStarts
  PROVE  IInv'
<1> USE DEF IInv, TypeOK, PullStarts
<1> DEFINE t == Head(queue)
<1>1. /\ t \in Tasks /\ t \in Members(queue) /\ queue' \in Seq(Tasks)
      /\ Members(queue') = Members(queue) \ {t} /\ NoneTwice(queue')
  BY FirstTask DEF InLine
<1>2. stage[t] = "none" /\ t \in accepted /\ settled[t] = 0 BY <1>1 DEF InLine
<1> HIDE DEF t
<1>3. /\ starting' = starting \cup {t} /\ stage' = [stage EXCEPT ![t] = "start"]
      /\ retry' = [retry EXCEPT ![t] = FALSE]
  BY DEF t
<1>4. TypeOK' BY <1>1, <1>3 DEF Stages
<1>5. PlacesHeld'
  <2>1. /\ starting' \subseteq At(PreSlot)' /\ slots' \subseteq At(InSlot)'
        /\ ~disposed' => At(PreSlot)' \subseteq starting' /\ At(InSlot)' \subseteq slots'
    BY <1>1, <1>2, <1>3 DEF PlacesHeld, At, PreSlot, InSlot
  <2>2. Holding' = Holding \cup {t} /\ t \notin Holding
    BY <1>1, <1>2, <1>3 DEF Holding, At, PreSlot, InSlot
  <2>3. Holding = slots \cup starting /\ slots \cap starting = {}
    BY DEF PlacesHeld, Holding, At, PreSlot, InSlot
  <2>4. IsFiniteSet(slots) /\ IsFiniteSet(starting)
    BY SubagentPoolAssumption, FS_Subset
  <2>5. Cardinality(Holding) = Cardinality(slots) + Cardinality(starting)
    <3>1. Cardinality(slots \cup starting)
            = Cardinality(slots) + Cardinality(starting) - Cardinality(slots \cap starting)
      BY <2>4, FS_Union
    <3>2. Cardinality(slots \cap starting) = 0 BY <2>3, FS_EmptySet
    <3> QED BY <2>3, <2>4, <3>1, <3>2, FS_CardinalityType
  <2>6. Cardinality(Holding') = Cardinality(Holding) + 1
    BY <2>2, <2>3, <2>4, FS_AddElement, FS_Union
  <2>7. Cardinality(slots) + Cardinality(starting) < MaxConcurrency
    BY <2>4, FS_CardinalityType, SubagentPoolAssumption DEF Full
  <2>8. Cardinality(Holding') <= MaxConcurrency
    BY <2>4, <2>5, <2>6, <2>7, FS_CardinalityType, SubagentPoolAssumption
  <2> QED BY <2>1, <2>8 DEF PlacesHeld
<1>6. Children' BY <1>1, <1>2, <1>3 DEF Children
<1>7. InLine' BY <1>1, <1>2, <1>3 DEF InLine
<1>8. Settlements' BY <1>1, <1>2, <1>3 DEF Settlements, Handled
<1> QED BY <1>4, <1>5, <1>6, <1>7, <1>8

(* The first state satisfies the invariant.                                 *)
LEMMA InitIInv == Init => IInv
<1> SUFFICES ASSUME Init PROVE IInv OBVIOUS
<1> USE SubagentPoolAssumption DEF Init
<1>1. TypeOK
  <2>1. queue \in Seq(Tasks) /\ order \in Seq(Tasks) /\ Len(order) <= MaxCompleted OBVIOUS
  <2>2. disposed \in BOOLEAN /\ guardGone \in BOOLEAN OBVIOUS
  <2>3. /\ reasons \in [Tasks -> Reasons] /\ taken \in [Tasks -> Reasons]
        /\ stage \in [Tasks -> Stages]
    BY DEF Reasons, Stages
  <2> QED BY <2>1, <2>2, <2>3 DEF TypeOK
<1>2. Holding = {} /\ PlacesHeld
  <2>1. Holding = {} /\ At(PreSlot) = {} /\ At(InSlot) = {}
    BY DEF Holding, At, PreSlot, InSlot
  <2> QED BY <2>1, FS_EmptySet DEF PlacesHeld
<1>3. Children BY DEF Children
<1>4. InLine BY DEF InLine, NoneTwice, Members
<1>5. Settlements BY DEF Settlements, Handled
<1> QED BY <1>1, <1>2, <1>3, <1>4, <1>5 DEF IInv

(* Every step preserves it. *)
LEMMA StepIInv == IInv /\ [Next]_vars => IInv'
<1> SUFFICES ASSUME IInv, [Next]_vars PROVE IInv' OBVIOUS
<1>1. CASE Pull BY <1>1, PullStartsStep, PullReturnsStep DEF Pull
<1>2. CASE Dispose BY <1>2, DisposeStep
<1>3. CASE DisposeGuard BY <1>3, DisposeGuardStep
<1>4. ASSUME NEW t \in Tasks, Calls(t) PROVE IInv'
  BY <1>4, SpawnStep, WaitForStep, CancelQueuedStep, CancelStartingStep, CancelRunningStep,
     KillStep DEF Calls, Cancels
<1>5. ASSUME NEW t \in Tasks, Starts(t) PROVE IInv'
  BY <1>5, StartTaskStep, SpawnChildStep, SpawnFailsStep, LookAgainStep, EnterSlotStep,
     MonitorStep, ResolveUnstartedStep, ReleaseStep DEF Starts
<1>6. ASSUME NEW t \in Tasks, Ends(t) PROVE IInv'
  BY <1>6, ChildLeftStep, LeaveSlotStep, WaitFailsStep, SettleStep, RequeueStep,
     ResolveSettledStep DEF Ends
<1>7. ASSUME NEW t \in Tasks, Stopped(t) PROVE IInv'
  BY <1>7, ReapStep, ChildDiesStep DEF Stopped
<1>8. ASSUME NEW t \in Tasks, TaskStep(t) PROVE IInv'
  BY <1>4, <1>5, <1>6, <1>7, <1>8, ResolveQueuedStep, ReportStep, ChildExitsStep
  DEF TaskStep, Handles
<1>9. CASE UNCHANGED vars
  <2> USE <1>9 DEF vars
  <2>1. TypeOK' BY DEF IInv, TypeOK
  <2>2. Children' BY DEF IInv, Children
  <2> QED BY <2>1, <2>2, NothingMoves
<1> QED BY <1>1, <1>2, <1>3, <1>8, <1>9 DEF Next

-----------------------------------------------------------------------------
(* What a reader should know of.                                            *)

(* The inductive invariant holds in every reachable state.                  *)
THEOREM Invariance == Spec => []IInv
BY InitIInv, StepIInv, PTL DEF Spec

(* Type correctness, and with it the bound on the results held in memory    *)
(* (resolve_waiter).                                                        *)
THEOREM TypeCorrect == Spec => []TypeOK
<1>1. IInv => TypeOK BY DEF IInv
<1> QED BY <1>1, Invariance, PTL

(* pull() never lets more children run than the limit, through every retry, *)
(* cancel and failed spawn, whatever the limit.                             *)
THEOREM ConcurrencyBoundedAlways == Spec => []ConcurrencyBounded
<1>1. ASSUME IInv PROVE ConcurrencyBounded
  <2> USE <1>1 DEF IInv
  <2>1. Holding \subseteq Tasks /\ IsFiniteSet(Holding)
    BY SubagentPoolAssumption, FS_Subset DEF Holding, At
  <2>2. slots \cup starting \subseteq Holding /\ slots \cap starting = {}
    BY DEF PlacesHeld, Holding, At, PreSlot, InSlot
  <2>3. IsFiniteSet(slots) /\ IsFiniteSet(starting) BY <2>1, <2>2, FS_Subset
  <2>4. Cardinality(slots \cup starting) = Cardinality(slots) + Cardinality(starting)
    <3>1. Cardinality(slots \cup starting)
            = Cardinality(slots) + Cardinality(starting) - Cardinality(slots \cap starting)
      BY <2>3, FS_Union
    <3>2. Cardinality(slots \cap starting) = 0 BY <2>2, FS_EmptySet
    <3> QED BY <2>3, <3>1, <3>2, FS_CardinalityType
  <2>5. Alive \subseteq Holding
    BY DEF Alive, Children, Holding, At, PreSlot, InSlot
  <2>6. Cardinality(Holding) \in Nat /\ Cardinality(Holding) <= MaxConcurrency
    BY <2>1, FS_CardinalityType DEF PlacesHeld
  <2>7. /\ Cardinality(slots \cup starting) <= Cardinality(Holding)
        /\ Cardinality(Alive) <= Cardinality(Holding)
        /\ Cardinality(Alive) \in Nat /\ Cardinality(slots \cup starting) \in Nat
    BY <2>1, <2>2, <2>5, FS_Subset, FS_CardinalityType
  <2> QED BY <2>4, <2>6, <2>7, SubagentPoolAssumption DEF ConcurrencyBounded
<1> QED BY <1>1, Invariance, PTL

(* A task is settled once (resolve_waiter), and is in one place until then. *)
THEOREM SettledOnceAlways == Spec => []SettledOnce
<1>1. ASSUME IInv PROVE SettledOnce
  <2> USE <1>1 DEF IInv
  <2>1. ASSUME NEW t \in Tasks PROVE InQueue(t) <=> t \in Members(queue)
    BY DEF InQueue, Members
  <2> SUFFICES ASSUME NEW t \in accepted
               PROVE  /\ settled[t] <= 1
                      /\ settled[t] = 1 => ~InQueue(t) /\ ~Handled(t) /\ child[t] # "alive"
                      /\ settled[t] = 0 /\ ~disposed => (InQueue(t) <=> ~Handled(t))
    BY DEF SettledOnce
  <2>2. t \in Tasks /\ settled[t] \in Nat BY DEF TypeOK
  <2>3. settled[t] <= 1 BY <2>2 DEF Settlements
  <2>4. settled[t] = 1 => ~InQueue(t) /\ ~Handled(t) /\ child[t] # "alive"
    BY <2>1, <2>2 DEF Settlements, InLine, Children, Handled
  <2>5. settled[t] = 0 /\ ~disposed => (InQueue(t) <=> ~Handled(t))
    BY <2>1, <2>2 DEF Settlements, InLine, Handled
  <2> QED BY <2>3, <2>4, <2>5
<1> QED BY <1>1, Invariance, PTL

(* A queued task that could start has a thread that will pull it (pull() is *)
(* called again wherever a place or a task becomes free).                   *)
Puller == pulls > 0 \/ \E t \in Tasks : stage[t] \notin {"none", "dequeued"}

(* Every step keeps a thread for the queue.                                 *)
LEMMA PullerStep ==
  ASSUME IInv, QueueHasPuller, [Next]_vars
  PROVE  QueueHasPuller'
<1> USE DEF IInv, TypeOK
<1>1. ASSUME UNCHANGED <<queue, starting, slots, disposed, pulls, stage>>
      PROVE  QueueHasPuller'
  BY <1>1 DEF QueueHasPuller, Full
<1>2. ASSUME Puller' PROVE QueueHasPuller'
  BY <1>2 DEF QueueHasPuller, Puller
<1>3. CASE PullStarts
  <2>1. Head(queue) \in Tasks /\ stage'[Head(queue)] = "start"
    BY <1>3, FirstTask DEF PullStarts, InLine
  <2> QED BY <1>2, <2>1 DEF Puller
<1>4. CASE PullReturns BY <1>4 DEF PullReturns, QueueHasPuller, Full
<1>5. CASE Dispose BY <1>5 DEF Dispose, QueueHasPuller
<1>6. CASE DisposeGuard BY <1>1, <1>6 DEF DisposeGuard
<1>7. ASSUME NEW t \in Tasks, Calls(t) PROVE QueueHasPuller'
  <2>1. CASE Spawn(t) BY <1>2, <2>1 DEF Spawn, Puller
  <2>2. CASE WaitFor(t) BY <1>1, <2>2 DEF WaitFor
  <2>3. CASE CancelQueued(t)
    <3>1. stage[t] = "none" /\ queue # <<>>
      BY <2>3 DEF CancelQueued, InLine, Members
    <3>2. Puller => Puller' BY <2>3, <3>1 DEF CancelQueued, Puller
    <3> QED BY <1>2, <2>3, <3>1, <3>2 DEF CancelQueued, QueueHasPuller, Full, Puller
  <2>4. CASE CancelStarting(t) BY <1>1, <2>4 DEF CancelStarting
  <2>5. CASE CancelRunning(t) BY <1>1, <2>5 DEF CancelRunning
  <2>6. CASE Kill(t) BY <1>1, <2>6 DEF Kill
  <2> QED BY <1>7, <2>1, <2>2, <2>3, <2>4, <2>5, <2>6 DEF Calls, Cancels
<1>8. ASSUME NEW t \in Tasks, Starts(t) PROVE Puller'
  BY <1>8 DEF Starts, StartTask, SpawnChild, SpawnFails, LookAgain, EnterSlot, Monitor,
              ResolveUnstarted, Release, Puller
<1>9. ASSUME NEW t \in Tasks, Ends(t) PROVE Puller'
  BY <1>9 DEF Ends, ChildLeft, LeaveSlot, WaitFails, Settle, Requeue, ResolveSettled, Puller
<1>10. ASSUME NEW t \in Tasks, ResolveQueued(t) PROVE QueueHasPuller'
  <2>1. Puller => Puller' BY <1>10 DEF ResolveQueued, Puller
  <2> QED BY <1>2, <1>10, <2>1 DEF ResolveQueued, QueueHasPuller, Full, Puller
<1>11. ASSUME NEW t \in Tasks, Stopped(t) \/ Report(t) \/ ChildExits(t)
       PROVE  QueueHasPuller'
  BY <1>1, <1>11 DEF Stopped, Reap, ChildDies, Report, ChildExits, Exits
<1>12. ASSUME NEW t \in Tasks, TaskStep(t) PROVE QueueHasPuller'
  BY <1>2, <1>7, <1>8, <1>9, <1>10, <1>11, <1>12 DEF TaskStep, Handles
<1>13. CASE UNCHANGED vars BY <1>1, <1>13 DEF vars
<1> QED BY <1>3, <1>4, <1>5, <1>6, <1>12, <1>13 DEF Next, Pull

(* No task waits in the queue beside a free place with nobody to pull it.   *)
THEOREM QueueHasPullerAlways == Spec => []QueueHasPuller
<1>1. Init => QueueHasPuller BY DEF Init, QueueHasPuller
<1>2. IInv /\ QueueHasPuller /\ [Next]_vars => QueueHasPuller' BY PullerStep
<1> QED BY <1>1, <1>2, Invariance, PTL DEF Spec

=============================================================================
