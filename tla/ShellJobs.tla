------------------------------ MODULE ShellJobs ------------------------------
(***************************************************************************)
(* hoocode-code-tool-bash's JobRegistry (jobs.rs): a tool thread spawns a  *)
(* background shell, a task of the I/O runtime owns it from then on, and   *)
(* kills come from the model (ShellKill), from the panel's rows and from   *)
(* the end of the session.  A job's processes form a group named by its    *)
(* shell's pid; descendants may outlive the shell.  The registry's state   *)
(* lock covers every step below that reads or writes entry, group and      *)
(* announce; the kill flag is read outside of it.                          *)
(* Left out: the log files, the rows of the task panel, a try_wait that    *)
(* errors, and the wait of kill() for the exit it asked for, which changes *)
(* nothing.                                                                *)
(***************************************************************************)
EXTENDS Naturals, Sequences, SequencesExt

CONSTANTS Jobs,
          Forking,   \* the jobs whose shell starts a background descendant
          NoJob

ASSUME ShellJobsAssumption == Forking \subseteq Jobs /\ NoJob \notin Jobs

VARIABLES
  entry,     \* info.state; "none" outside the registry
  flag,      \* the kill flag
  group,     \* the group id is recorded
  announce,  \* finished and not announced yet
  task,      \* where the task of each job is
  killed,    \* its local of that name
  shell,     \* the shell: none, running, dead (not reaped), reaped
  kids,      \* a descendant of the shell is running
  struck,    \* the shell died of a signal sent here
  todo,      \* entries a kill still has to look at; it holds the state lock
  aim        \* the entry it flagged and is about to signal

jobVars == <<entry, flag, group, announce, task, killed, shell, kids, struck, todo, aim>>

States == {"none", "running", "exited", "killed"}
Tasks == {"none", "spawn", "group", "poll", "wait", "record", "linger", "done"}
Shells == {"none", "running", "dead", "reaped"}

JobsTypeOK ==
  /\ entry \in [Jobs -> States]
  /\ flag \in [Jobs -> BOOLEAN] /\ group \in [Jobs -> BOOLEAN]
  /\ task \in [Jobs -> Tasks] /\ killed \in [Jobs -> BOOLEAN]
  /\ shell \in [Jobs -> Shells] /\ kids \in [Jobs -> BOOLEAN]
  /\ struck \in [Jobs -> BOOLEAN]
  /\ todo \subseteq Jobs /\ aim \in Jobs \cup {NoJob}

JobsInit ==
  /\ entry = [j \in Jobs |-> "none"]
  /\ flag = [j \in Jobs |-> FALSE] /\ group = [j \in Jobs |-> FALSE]
  /\ announce = <<>>
  /\ task = [j \in Jobs |-> "none"] /\ killed = [j \in Jobs |-> FALSE]
  /\ shell = [j \in Jobs |-> "none"] /\ kids = [j \in Jobs |-> FALSE]
  /\ struck = [j \in Jobs |-> FALSE]
  /\ todo = {} /\ aim = NoJob

Running(j) == entry[j] = "running"
Finished(j) == entry[j] \in {"exited", "killed"}
Unlocked == todo = {} /\ aim = NoJob

-----------------------------------------------------------------------------
(* The group's processes.                                                    *)

Alive(j) == shell[j] = "running" \/ kids[j]

(* SIGKILL to the group.                                                     *)
Strike(j) ==
  /\ shell' = [shell EXCEPT ![j] = IF @ = "running" THEN "dead" ELSE @]
  /\ struck' = [struck EXCEPT ![j] = @ \/ shell[j] = "running"]
  /\ kids' = [kids EXCEPT ![j] = FALSE]

ShellExits(j) ==
  /\ shell[j] = "running"
  /\ shell' = [shell EXCEPT ![j] = "dead"]
  /\ UNCHANGED <<entry, flag, group, announce, task, killed, kids, struck, todo, aim>>

ShellForks(j) ==
  /\ j \in Forking /\ shell[j] = "running" /\ ~kids[j]
  /\ kids' = [kids EXCEPT ![j] = TRUE]
  /\ UNCHANGED <<entry, flag, group, announce, task, killed, shell, struck, todo, aim>>

KidExits(j) ==
  /\ kids[j]
  /\ kids' = [kids EXCEPT ![j] = FALSE]
  /\ UNCHANGED <<entry, flag, group, announce, task, killed, shell, struck, todo, aim>>

-----------------------------------------------------------------------------
(* spawn: the entry is pushed before the shell exists.                       *)

Spawn(j) ==
  /\ Unlocked /\ task[j] = "none" /\ entry[j] = "none"
  /\ entry' = [entry EXCEPT ![j] = "running"]
  /\ task' = [task EXCEPT ![j] = "spawn"]
  /\ UNCHANGED <<flag, group, announce, killed, shell, kids, struck, todo, aim>>

StartShell(j) ==
  /\ task[j] = "spawn"
  /\ task' = [task EXCEPT ![j] = "group"]
  /\ shell' = [shell EXCEPT ![j] = "running"]
  /\ UNCHANGED <<entry, flag, group, announce, killed, kids, struck, todo, aim>>

(* The shell does not start: spawn takes the entry back.                     *)
SpawnFails(j) ==
  /\ Unlocked /\ task[j] = "spawn"
  /\ entry' = [entry EXCEPT ![j] = "none"]
  /\ task' = [task EXCEPT ![j] = "done"]
  /\ UNCHANGED <<flag, group, announce, killed, shell, kids, struck, todo, aim>>

SetGroup(j) ==
  /\ Unlocked /\ task[j] = "group"
  /\ group' = [group EXCEPT ![j] = TRUE]
  /\ task' = [task EXCEPT ![j] = "poll"]
  /\ UNCHANGED <<entry, flag, announce, killed, shell, kids, struck, todo, aim>>

-----------------------------------------------------------------------------
(* run_job's loop: look at the flag, then at the shell.                      *)

CheckFlag(j) ==
  /\ task[j] = "poll"
  /\ task' = [task EXCEPT ![j] = "wait"]
  /\ IF flag[j] /\ ~killed[j]
     THEN /\ killed' = [killed EXCEPT ![j] = TRUE]
          /\ Strike(j)
     ELSE UNCHANGED <<killed, shell, struck, kids>>
  /\ UNCHANGED <<entry, flag, group, announce, todo, aim>>

\* Mutation of KilledAtExit: the flag is not looked at again.
KilledBeforeExit(j) == killed[j]

KilledAtExit(j) == killed[j] \/ flag[j]

TryWait(j) ==
  /\ task[j] = "wait"
  /\ IF shell[j] = "dead"
     THEN /\ shell' = [shell EXCEPT ![j] = "reaped"]
          /\ killed' = [killed EXCEPT ![j] = KilledAtExit(j)]
          /\ task' = [task EXCEPT ![j] = "record"]
     ELSE /\ task' = [task EXCEPT ![j] = "poll"]
          /\ UNCHANGED <<shell, killed>>
  /\ UNCHANGED <<entry, flag, group, announce, kids, struck, todo, aim>>

Record(j) ==
  /\ Unlocked /\ task[j] = "record"
  /\ entry' = [entry EXCEPT ![j] = IF killed[j] THEN "killed" ELSE "exited"]
  /\ announce' = Append(announce, j)
  /\ task' = [task EXCEPT ![j] = "linger"]
  /\ UNCHANGED <<flag, group, killed, shell, kids, struck, todo, aim>>

(* The group id is kept until no process of the group is left.               *)
ForgetGroup(j) ==
  /\ Unlocked /\ task[j] = "linger"
  /\ ~Alive(j)
  /\ group' = [group EXCEPT ![j] = FALSE]
  /\ task' = [task EXCEPT ![j] = "done"]
  /\ UNCHANGED <<entry, flag, announce, killed, shell, kids, struck, todo, aim>>

-----------------------------------------------------------------------------
(* Kills.  ShellKill and the panel name one job, kill_all and kill_all_jobs  *)
(* take all of them; each entry is flagged (if it runs), then signalled (if  *)
(* its group is known), with the state locked throughout.                    *)

Kill(S) ==
  /\ Unlocked /\ S # {}
  /\ \A j \in S : entry[j] # "none"
  /\ todo' = S
  /\ UNCHANGED <<entry, flag, group, announce, task, killed, shell, kids, struck, aim>>

Flag(j) ==
  /\ aim = NoJob /\ j \in todo
  /\ todo' = todo \ {j}
  /\ aim' = j
  /\ flag' = [flag EXCEPT ![j] = @ \/ Running(j)]
  /\ UNCHANGED <<entry, group, announce, task, killed, shell, kids, struck>>

Signal ==
  /\ aim # NoJob
  /\ IF group[aim] THEN Strike(aim) ELSE UNCHANGED <<shell, struck, kids>>
  /\ aim' = NoJob
  /\ UNCHANGED <<entry, flag, group, announce, task, killed, todo>>

(* acknowledge: a ShellOutput that waited has shown how the job ended.  The  *)
(* code keeps every id but this one; an id is in the list once at most.      *)
Forget(ids, j) ==
  IF j \in ToSet(ids) THEN RemoveAt(ids, CHOOSE i \in DOMAIN ids : ids[i] = j) ELSE ids

Acknowledge(j) ==
  /\ Unlocked /\ Finished(j)
  /\ announce' = Forget(announce, j)
  /\ UNCHANGED <<entry, flag, group, task, killed, shell, kids, struck, todo, aim>>

TakeCompletions ==
  /\ Unlocked
  /\ announce' = <<>>
  /\ UNCHANGED <<entry, flag, group, task, killed, shell, kids, struck, todo, aim>>

-----------------------------------------------------------------------------
TaskStep(j) ==
  StartShell(j) \/ SetGroup(j) \/ CheckFlag(j) \/ TryWait(j) \/ Record(j) \/ ForgetGroup(j)

KillStep == Signal \/ \E j \in Jobs : Flag(j)

JobsNext ==
  \/ \E j \in Jobs :
       \/ Spawn(j) \/ SpawnFails(j) \/ TaskStep(j)
       \/ ShellExits(j) \/ ShellForks(j) \/ KidExits(j)
       \/ Kill({j})
  \/ Kill({j \in Jobs : entry[j] # "none"})
  \/ KillStep

-----------------------------------------------------------------------------
(* A job that died of a kill is reported as killed (jobs.rs:770-772), even   *)
(* when the kill lands between the task's look at the flag and its look at   *)
(* the shell.                                                                *)
KilledIsRecorded == \A j \in Jobs : struck[j] /\ Finished(j) => entry[j] = "killed"

(* ShellKill can still reach what a finished job left running                *)
(* (jobs.rs:798-800).                                                        *)
LeftoversReachable == \A j \in Jobs : Finished(j) /\ kids[j] => group[j]

=============================================================================
