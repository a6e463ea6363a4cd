------------------------------- MODULE Schedule -------------------------------
(***************************************************************************)
(* What the scheduled-task store promises (module documentation of         *)
(* hoocode-code-scheduler's store.rs): processes that share the store see  *)
(* one list, no operation undoes another, and a due minute of a task is    *)
(* handed to one process, once.                                            *)
(***************************************************************************)
EXTENDS Integers

CONSTANTS TaskIds,    \* ids that can be minted
          Recurring,  \* the tasks that stay after a fire
          Pids,       \* processes, the exited ones included
          Minutes

VARIABLES
  tasks,   \* the list: id -> task
  minted,  \* ids given out so far
  waiting, \* ids given out whose task is not in the list yet
  hand,    \* fires claimed by a process and not yet run
  fired    \* fires run

vars == <<tasks, minted, waiting, hand, fired>>

NotRun == -1

Task == [owner : Pids, created : Minutes, last : Minutes \cup {NotRun}]

Init ==
  /\ minted \in SUBSET TaskIds
  /\ tasks \in [minted -> Task]
  /\ waiting = {}
  /\ hand = [p \in Pids |-> {}]
  /\ fired = {}

Mint(t) ==
  /\ t \notin minted
  /\ minted' = minted \cup {t}
  /\ waiting' = waiting \cup {t}
  /\ UNCHANGED <<tasks, hand, fired>>

Create(t, task) ==
  /\ t \in waiting
  /\ waiting' = waiting \ {t}
  /\ tasks' = [u \in DOMAIN tasks \cup {t} |-> IF u = t THEN task ELSE tasks[u]]
  /\ UNCHANGED <<minted, hand, fired>>

(* The task could not be written, or its creator died.                       *)
Forget(t) ==
  /\ waiting' = waiting \ {t}
  /\ UNCHANGED <<tasks, minted, hand, fired>>

Delete(t) ==
  /\ tasks' = [u \in DOMAIN tasks \ {t} |-> tasks[u]]
  /\ UNCHANGED <<minted, waiting, hand, fired>>

(* The task after p has handled its minute m.                                *)
Handled(task, p, m) == [task EXCEPT !.owner = p, !.last = m]

(* p handles a later minute of each task of due: it runs some of them, skips *)
(* the others, and owns them from now on.  One-shot tasks leave the list.    *)
Claim(p, due, late) ==
  /\ hand[p] = {}
  /\ DOMAIN due \subseteq DOMAIN tasks
  /\ \A t \in DOMAIN due : due[t] > tasks[t].last
  /\ tasks' = [u \in DOMAIN tasks \ (DOMAIN due \ Recurring) |->
                 IF u \in DOMAIN due THEN Handled(tasks[u], p, due[u]) ELSE tasks[u]]
  /\ hand' = [hand EXCEPT ![p] = {<<t, due[t]>> : t \in DOMAIN due \ late}]
  /\ UNCHANGED <<minted, waiting, fired>>

Run(p) ==
  /\ fired' = fired \cup hand[p]
  /\ hand' = [hand EXCEPT ![p] = {}]
  /\ UNCHANGED <<tasks, minted, waiting>>

(* The process died before it ran what it had claimed.                       *)
Lose(p) ==
  /\ hand' = [hand EXCEPT ![p] = {}]
  /\ UNCHANGED <<tasks, minted, waiting, fired>>

Next ==
  \/ \E t \in TaskIds : Mint(t) \/ Forget(t)
  \/ \E t \in TaskIds, task \in Task : Create(t, task)
  \/ \E t \in DOMAIN tasks : Delete(t)
  \/ \E p \in Pids : Run(p) \/ Lose(p)
  \/ \E p \in Pids, S \in SUBSET DOMAIN tasks :
       \E due \in [S -> Minutes], late \in SUBSET S : Claim(p, due, late)

Spec == Init /\ [][Next]_vars

-----------------------------------------------------------------------------
(* A due minute is handed out once: two processes never hold the same fire,  *)
(* and none holds one that was run.                                          *)
HandedOnce ==
  /\ \A p, q \in Pids : p # q => hand[p] \cap hand[q] = {}
  /\ \A p \in Pids : hand[p] \cap fired = {}
=============================================================================
