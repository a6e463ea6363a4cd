--------------------------- MODULE JobNoticesProofs ---------------------------
(***************************************************************************)
(* Proofs about ShellJobs and JobNotices for any number of jobs and a      *)
(* transcript of any length: a kill is recorded as one, whatever it races; *)
(* what a finished job left running can be reached; the notice of each     *)
(* finished job is in one place; and it counts as delivered only after a   *)
(* good reply.                                                             *)
(***************************************************************************)
EXTENDS JobNotices, SequenceTheorems, TLAPS

(* The stages of a job's task at which its entry is running, its shell may   *)
(* live, its group is recorded.                                              *)
Started == {"spawn", "group", "poll", "wait", "record"}
Owning == {"group", "poll", "wait"}
Grouped == {"poll", "wait", "record", "linger"}

(* Where a job is, as its task sees it.                                      *)
JobPlaces ==
  \A j \in Jobs :
    /\ Running(j) <=> task[j] \in Started
    /\ Finished(j) <=> task[j] \in {"linger", "done"} /\ entry[j] # "none"
    /\ group[j] <=> task[j] \in Grouped
    /\ shell[j] \in {"running", "dead"} <=> task[j] \in Owning
    /\ kids[j] => task[j] \in Owning \cup {"record", "linger"}
    /\ task[j] = "none" => entry[j] = "none"

(* A strike that hit a shell was announced by the kill flag, or was the      *)
(* task's own, and the task looks at both after the shell is gone.           *)
Strikes ==
  /\ aim # NoJob => flag[aim] \/ ~Running(aim)
  /\ \A j \in Jobs : struck[j] =>
       /\ task[j] \in {"record", "linger", "done"} \cup Owning
       /\ task[j] \in Owning => flag[j] \/ killed[j]
       /\ task[j] = "record" => killed[j]
       /\ Finished(j) => entry[j] = "killed"

JobsInv == JobsTypeOK /\ JobPlaces /\ Strikes

USE DEF Running, Finished

(* No job has begun.                                                         *)
LEMMA JobsInitInv == JobsInit => JobsInv
BY ShellJobsAssumption
DEF JobsInit, JobsInv, JobsTypeOK, JobPlaces, Strikes, States, Tasks, Shells, Started, Owning,
    Grouped

(* SIGKILL to a group moves no job and its task, and kills the shell.        *)
LEMMA StruckShell ==
  ASSUME JobsInv, NEW j \in Jobs, Strike(j)
  PROVE  /\ shell' \in [Jobs -> Shells] /\ struck' \in [Jobs -> BOOLEAN]
         /\ kids' \in [Jobs -> BOOLEAN]
         /\ \A k \in Jobs : shell'[k] \in {"running", "dead"} <=> shell[k] \in {"running", "dead"}
         /\ \A k \in Jobs : kids'[k] => kids[k]
         /\ \A k \in Jobs : struck'[k] => struck[k] \/ (k = j /\ shell[j] = "running")
BY DEF Strike, JobsInv, JobsTypeOK, Shells

(* One step of a shell, of its descendant, of a job's task or of a kill.     *)
LEMMA ProcessSteps ==
  ASSUME JobsInv, NEW j \in Jobs, ShellExits(j) \/ ShellForks(j) \/ KidExits(j)
  PROVE  JobsInv'
<1> USE DEF JobsInv, JobsTypeOK, JobPlaces, Strikes, States, Tasks, Shells, Started, Owning,
            Grouped
<1>1. CASE ShellExits(j) BY <1>1 DEF ShellExits
<1>2. CASE ShellForks(j) BY <1>2 DEF ShellForks
<1>3. CASE KidExits(j) BY <1>3 DEF KidExits
<1> QED BY <1>1, <1>2, <1>3

(* A job is registered, its shell starts and its group is recorded.         *)
LEMMA SpawnSteps ==
  ASSUME JobsInv, NEW j \in Jobs, Spawn(j) \/ StartShell(j) \/ SpawnFails(j) \/ SetGroup(j)
  PROVE  JobsInv'
<1> USE DEF JobsInv, JobsTypeOK, JobPlaces, Strikes, States, Tasks, Shells, Started, Owning,
            Grouped
<1>1. CASE Spawn(j) BY <1>1 DEF Spawn, Unlocked
<1>2. CASE StartShell(j) BY <1>2 DEF StartShell
<1>3. CASE SpawnFails(j) BY <1>3 DEF SpawnFails, Unlocked
<1>4. CASE SetGroup(j) BY <1>4 DEF SetGroup, Unlocked
<1> QED BY <1>1, <1>2, <1>3, <1>4

(* The job's task reads the kill flag and strikes.                          *)
LEMMA CheckFlagStep ==
  ASSUME JobsInv, NEW j \in Jobs, CheckFlag(j)
  PROVE  JobsInv'
<1> USE DEF JobsInv, JobsTypeOK, JobPlaces, Strikes, States, Tasks, Shells, Started, Owning,
            Grouped
<1>1. CASE flag[j] /\ ~killed[j]
  <2>0. Strike(j) BY <1>1 DEF CheckFlag
  <2> USE <1>1, <2>0, StruckShell DEF CheckFlag
  <2>1. JobsTypeOK'
    <3>1. killed' = [killed EXCEPT ![j] = TRUE] OBVIOUS
    <3>2. killed' \in [Jobs -> BOOLEAN] BY <3>1
    <3>3. task' \in [Jobs -> Tasks] OBVIOUS
    <3>4. UNCHANGED <<entry, flag, group, todo, aim>> OBVIOUS
    <3> QED BY <3>2, <3>3, <3>4
  <2>2. JobPlaces' OBVIOUS
  <2>3. Strikes' OBVIOUS
  <2> QED BY <2>1, <2>2, <2>3
<1>2. CASE ~(flag[j] /\ ~killed[j]) BY <1>2 DEF CheckFlag
<1> QED BY <1>1, <1>2

(* The job's task sees its shell dead, or not yet.                          *)
LEMMA TryWaitStep ==
  ASSUME JobsInv, NEW j \in Jobs, TryWait(j)
  PROVE  JobsInv'
<1> USE DEF JobsInv, JobsTypeOK, JobPlaces, Strikes, States, Tasks, Shells, Started, Owning,
            Grouped
<1>1. CASE shell[j] = "dead" BY <1>1 DEF TryWait, KilledAtExit
<1>2. CASE shell[j] # "dead" BY <1>2 DEF TryWait
<1> QED BY <1>1, <1>2

(* The end of a job is recorded, and its group forgotten.                   *)
LEMMA EndSteps ==
  ASSUME JobsInv, NEW j \in Jobs, Record(j) \/ ForgetGroup(j)
  PROVE  JobsInv'
<1> USE DEF JobsInv, JobsTypeOK, JobPlaces, Strikes, States, Tasks, Shells, Started, Owning,
            Grouped
<1>1. CASE Record(j) BY <1>1 DEF Record, Unlocked
<1>2. CASE ForgetGroup(j) BY <1>2 DEF ForgetGroup, Unlocked, Alive
<1> QED BY <1>1, <1>2

(* kill(): the flags, then the groups that are struck one by one.           *)
LEMMA KillSteps ==
  ASSUME JobsInv, KillStep \/ \E S \in SUBSET Jobs : Kill(S)
  PROVE  JobsInv'
<1> USE ShellJobsAssumption
    DEF JobsInv, JobsTypeOK, JobPlaces, Strikes, States, Tasks, Shells, Started, Owning, Grouped
<1>1. CASE \E S \in SUBSET Jobs : Kill(S) BY <1>1 DEF Kill, Unlocked
<1>2. ASSUME NEW j \in Jobs, Flag(j) PROVE JobsInv' BY <1>2, ZenonT(30) DEF Flag
<1>3. CASE Signal
  <2>1. CASE group[aim] BY <1>3, <2>1, StruckShell DEF Signal
  <2>2. CASE ~group[aim] BY <1>3, <2>2 DEF Signal
  <2> QED BY <2>1, <2>2
<1> QED BY <1>1, <1>2, <1>3 DEF KillStep

(* Every step of the registry, and taking notices from it.                   *)
LEMMA JobsStepInv ==
  ASSUME JobsInv, JobsNext \/ UNCHANGED jobVars \/ TakeCompletions \/ \E j \in Jobs : Acknowledge(j)
  PROVE  JobsInv'
<1>1. ASSUME UNCHANGED <<entry, flag, group, task, killed, shell, kids, struck, todo, aim>>
      PROVE  JobsInv'
  BY <1>1 DEF JobsInv, JobsTypeOK, JobPlaces, Strikes
<1>2. CASE UNCHANGED jobVars BY <1>1, <1>2 DEF jobVars
<1>3. CASE TakeCompletions BY <1>1, <1>3 DEF TakeCompletions
<1>4. ASSUME NEW j \in Jobs, Acknowledge(j) PROVE JobsInv' BY <1>1, <1>4 DEF Acknowledge
<1>5. CASE JobsNext
  <2>1. ASSUME NEW j \in Jobs, TaskStep(j) PROVE JobsInv'
    BY <2>1, SpawnSteps, CheckFlagStep, TryWaitStep, EndSteps DEF TaskStep
  <2>2. ASSUME NEW j \in Jobs, Kill({j}) PROVE JobsInv' BY <2>2, KillSteps
  <2>3. CASE Kill({j \in Jobs : entry[j] # "none"}) BY <2>3, KillSteps
  <2> QED BY <1>5, <2>1, <2>2, <2>3, ProcessSteps, SpawnSteps, KillSteps DEF JobsNext
<1> QED BY <1>2, <1>3, <1>4, <1>5

-----------------------------------------------------------------------------
(* The transcript: its parts, and no failed reply follows another.           *)
Replies == {Other, Good, Bad}

OneBad == \A i \in 1..(Len(messages) - 1) : messages[i] = Bad => messages[i + 1] # Bad

Answers ==
  LET accounted == replied \cup rewritten
  IN /\ delivered \subseteq accounted
     /\ RepliedSince => ToSet(inFlight.jobs) \subseteq accounted
     /\ agent \in {"running", "calling"} /\ messages # <<>> => messages[Len(messages)] # Bad
     /\ agent = "over" /\ messages # <<>> /\ messages[Len(messages)] = Bad =>
          inFlight.from < Len(messages) \/ ToSet(inFlight.jobs) \subseteq accounted

NoticesInv ==
  /\ messages \in Seq(Replies) /\ inFlight.from \in Nat
  /\ OneBad /\ Answers

USE DEF Other, Good, Bad

(* A message is added.                                                       *)
LEMMA Said ==
  ASSUME NoticesInv, NEW kind \in Replies, Say(kind),
         kind = Bad /\ messages # <<>> => messages[Len(messages)] # Bad
  PROVE  /\ messages' \in Seq(Replies) /\ Len(messages') = Len(messages) + 1
         /\ messages'[Len(messages')] = kind /\ messages' # <<>>
         /\ \A i \in 1..Len(messages) : messages'[i] = messages[i]
         /\ OneBad'
<1>1. messages \in Seq(Replies) /\ messages' = Append(messages, kind) BY DEF NoticesInv, Say
<1>2. /\ messages' \in Seq(Replies) /\ Len(messages') = Len(messages) + 1
      /\ messages'[Len(messages')] = kind /\ messages' # <<>>
      /\ \A i \in 1..Len(messages) : messages'[i] = messages[i]
  BY <1>1
<1>3. ASSUME NEW i \in 1..(Len(messages') - 1), messages'[i] = Bad PROVE messages'[i + 1] # Bad
  <2>1. CASE i < Len(messages) BY <1>1, <1>2, <1>3, <2>1 DEF NoticesInv, OneBad
  <2>2. CASE i = Len(messages) BY <1>1, <1>2, <1>3, <2>2
  <2> QED BY <1>1, <1>2, <1>3, <2>1, <2>2
<1> QED BY <1>2, <1>3 DEF OneBad

(* The first entries of a transcript.                                        *)
LEMMA Prefix ==
  ASSUME NEW s \in Seq(Replies), NEW n \in 0..Len(s)
  PROVE  /\ SubSeq(s, 1, n) \in Seq(Replies) /\ Len(SubSeq(s, 1, n)) = n
         /\ \A i \in 1..n : SubSeq(s, 1, n)[i] = s[i]
OBVIOUS

(* A failed reply is taken off.                                              *)
LEMMA Popped ==
  ASSUME NoticesInv, messages # <<>>, Last(messages) = Bad
  PROVE  /\ Front(messages) \in Seq(Replies) /\ Len(Front(messages)) = Len(messages) - 1
         /\ Len(messages) \in Nat \ {0} /\ messages[Len(messages)] = Bad
         /\ \A i \in 1..(Len(messages) - 1) : Front(messages)[i] = messages[i]
         /\ Front(messages) # <<>> => Front(messages)[Len(messages) - 1] # Bad
<1>1. messages \in Seq(Replies) /\ Len(messages) \in Nat \ {0} BY DEF NoticesInv
<1>2. messages[Len(messages)] = Bad BY DEF Last
<1>3. /\ Front(messages) \in Seq(Replies) /\ Len(Front(messages)) = Len(messages) - 1
      /\ \A i \in 1..(Len(messages) - 1) : Front(messages)[i] = messages[i]
  <2>1. Len(messages) - 1 \in 0..Len(messages) BY <1>1
  <2> QED BY <1>1, <2>1, Prefix DEF Front
<1>4. ASSUME Front(messages) # <<>> PROVE Front(messages)[Len(messages) - 1] # Bad
  <2>1. Len(messages) - 1 \in 1..(Len(messages) - 1) BY <1>1, <1>3, <1>4
  <2> QED BY <1>1, <1>2, <1>3, <2>1 DEF NoticesInv, OneBad
<1> QED BY <1>1, <1>2, <1>3, <1>4

(* A summary before the end of a transcript.                                 *)
LEMMA Summarized ==
  ASSUME NEW kept \in Seq(Replies), NEW cut \in 1..Len(kept),
         \A i \in 1..(Len(kept) - 1) : kept[i] = Bad => kept[i + 1] # Bad
  PROVE  LET new == <<Other>> \o SubSeq(kept, cut + 1, Len(kept))
         IN /\ new \in Seq(Replies) /\ Len(new) \in Nat /\ new # <<>>
            /\ \A i \in 1..(Len(new) - 1) : new[i] = Bad => new[i + 1] # Bad
            /\ new[Len(new)] = Bad => kept[Len(kept)] = Bad
<1> DEFINE rest == SubSeq(kept, cut + 1, Len(kept))
           new == <<Other>> \o rest
<1>1. /\ rest \in Seq(Replies) /\ Len(rest) = Len(kept) - cut
      /\ \A i \in 1..Len(rest) : rest[i] = kept[cut + i]
  OBVIOUS
<1> HIDE DEF rest
<1>2. /\ new \in Seq(Replies) /\ Len(new) = Len(rest) + 1 /\ new[1] = Other
      /\ \A i \in 2..Len(new) : new[i] = rest[i - 1]
  <2>1. <<Other>> \in Seq(Replies) /\ Len(<<Other>>) = 1 BY DEF Replies
  <2>2. Len(kept) \in Nat /\ Len(rest) \in Nat BY <1>1
  <2>3. new \in Seq(Replies) /\ Len(new) = Len(rest) + 1
    <3>1. <<Other>> \in Seq(Replies) /\ rest \in Seq(Replies) BY <1>1, <2>1
    <3>2. new \in Seq(Replies) /\ Len(new) = Len(<<Other>>) + Len(rest) BY <3>1
    <3> QED BY <2>1, <2>2, <3>2
  <2>4. new[1] = Other BY <1>1, <2>1, <2>2
  <2>5. \A i \in 2..Len(new) : new[i] = rest[i - 1] BY <1>1, <2>1, <2>2, <2>3
  <2> QED BY <2>3, <2>4, <2>5
<1> HIDE DEF new
<1>3. \A i \in 2..Len(new) : new[i] = kept[cut + i - 1]
  <2> TAKE i \in 2..Len(new)
  <2>1. i - 1 \in 1..Len(rest) BY <1>1, <1>2
  <2>2. rest[i - 1] = kept[cut + (i - 1)] BY <1>1, <2>1
  <2> QED BY <1>2, <2>2
<1>4. ASSUME NEW i \in 1..(Len(new) - 1), new[i] = Bad PROVE new[i + 1] # Bad
  <2>1. i \in 2..Len(new) /\ i + 1 \in 2..Len(new) BY <1>1, <1>2, <1>4
  <2>2. new[i] = kept[cut + i - 1] /\ new[i + 1] = kept[(cut + i - 1) + 1] BY <1>3, <2>1
  <2>3. cut + i - 1 \in 1..(Len(kept) - 1) BY <1>1, <1>2, <2>1
  <2> QED BY <1>4, <2>2, <2>3
<1>5. ASSUME new[Len(new)] = Bad PROVE kept[Len(kept)] = Bad
  <2>1. Len(new) \in 2..Len(new) BY <1>1, <1>2, <1>5
  <2>2. new[Len(new)] = kept[cut + Len(new) - 1] BY <1>3, <2>1
  <2>3. cut + Len(new) - 1 = Len(kept) BY <1>1, <1>2
  <2> QED BY <1>5, <2>2, <2>3
<1>6. new # <<>> /\ Len(new) \in Nat BY <1>1, <1>2
<1> QED BY <1>2, <1>4, <1>5, <1>6 DEF new, rest

(* A step that adds a message after which nothing counts as replied that did *)
(* not before.                                                               *)
LEMMA SaidOther ==
  ASSUME NoticesInv, NEW kind \in {Other, Bad}, Say(kind),
         kind = Bad /\ messages # <<>> => messages[Len(messages)] # Bad,
         UNCHANGED inFlight
  PROVE  RepliedSince' => RepliedSince
<1>1. messages \in Seq(Replies) /\ Len(messages) \in Nat /\ inFlight.from \in Nat
  BY DEF NoticesInv
<1>2. /\ Len(messages') = Len(messages) + 1 /\ messages'[Len(messages')] = kind
      /\ \A i \in 1..Len(messages) : messages'[i] = messages[i]
  BY Said DEF Replies
<1>3. ASSUME NEW i \in (inFlight.from + 1)..Len(messages'), messages'[i] = Good
      PROVE  i \in (inFlight.from + 1)..Len(messages) /\ messages[i] = Good
  <2>1. i # Len(messages') BY <1>2, <1>3
  <2> QED BY <1>1, <1>2, <1>3, <2>1
<1> QED BY <1>1, <1>2, <1>3 DEF RepliedSince

(* The first state.                                                          *)
LEMMA NoticesInit == Init => NoticesInv
BY JobNoticesAssumption DEF Init, NoticesInv, OneBad, Answers, RepliedSince, Nothing, ToSet

(* A call carries the notices that are due.                                  *)
LEMMA CallStep ==
  ASSUME NoticesInv, Call
  PROVE  NoticesInv'
<1> DEFINE notices == StillDue \o announce
<1>1. messages \in Seq(Replies) /\ Len(messages) \in Nat BY DEF NoticesInv
<1>2. UNCHANGED <<messages, replied, rewritten>> /\ agent = "running" /\ agent' = "calling"
  BY DEF Call
<1>3. /\ inFlight' = IF notices = <<>> THEN Nothing ELSE [from |-> Len(messages), jobs |-> notices]
      /\ delivered' = delivered \cup (IF RepliedSince THEN ToSet(inFlight.jobs) ELSE {})
  BY DEF Call, ForCall
<1> HIDE DEF notices
<1>4. inFlight'.from \in Nat BY <1>1, <1>3 DEF Nothing
<1>5. RepliedSince' => ToSet(inFlight'.jobs) = {}
  <2>1. CASE notices = <<>> BY <1>3, <2>1 DEF Nothing, ToSet
  <2>2. CASE notices # <<>>
    <3>1. inFlight'.from = Len(messages') BY <1>2, <1>3, <2>2
    <3> QED BY <1>1, <1>2, <3>1 DEF RepliedSince
  <2> QED BY <2>1, <2>2
<1>6. delivered' \subseteq replied \cup rewritten BY <1>3 DEF NoticesInv, Answers
<1>7. Answers' BY <1>2, <1>5, <1>6 DEF Answers, NoticesInv
<1>8. OneBad' BY <1>2 DEF OneBad, NoticesInv
<1> QED BY <1>1, <1>2, <1>4, <1>7, <1>8 DEF NoticesInv

(* What comes of the call.                                                   *)
LEMMA ReplySteps ==
  ASSUME NoticesInv, \/ \E next \in {"tools", "over"} : ReplyGood(next)
                     \/ ReplyBad \/ NoReply \/ NoCall
  PROVE  NoticesInv'
<1>1. messages \in Seq(Replies) /\ Len(messages) \in Nat /\ inFlight.from \in Nat
  BY DEF NoticesInv
<1>2. ASSUME NEW next \in {"tools", "over"}, ReplyGood(next) PROVE NoticesInv'
  <2>1. /\ Say(Good) /\ UNCHANGED <<inFlight, delivered, rewritten>> /\ agent' = next
        /\ replied' = replied \cup ToSet(inFlight.jobs)
    BY <1>2 DEF ReplyGood
  <2>2. /\ messages' \in Seq(Replies) /\ messages'[Len(messages')] = Good /\ OneBad'
    BY <2>1, Said DEF Replies
  <2>3. Answers' BY <2>1, <2>2 DEF NoticesInv, Answers
  <2> QED BY <1>1, <2>1, <2>2, <2>3 DEF NoticesInv
<1>3. CASE ReplyBad
  <2>1. /\ Say(Bad) /\ UNCHANGED <<inFlight, delivered, rewritten, replied>> /\ agent' = "over"
        /\ agent = "calling"
    BY <1>3 DEF ReplyBad
  <2>2. messages # <<>> => messages[Len(messages)] # Bad BY <2>1 DEF NoticesInv, Answers
  <2>3. /\ messages' \in Seq(Replies) /\ Len(messages') = Len(messages) + 1 /\ OneBad'
    BY <2>1, <2>2, Said DEF Replies
  <2>4. RepliedSince' => RepliedSince BY <2>1, <2>2, SaidOther
  <2>5. inFlight.from < Len(messages') \/ RepliedSince
    BY <1>1, <2>3 DEF RepliedSince
  <2>6. Answers' BY <2>1, <2>4, <2>5 DEF NoticesInv, Answers
  <2> QED BY <1>1, <2>1, <2>3, <2>6 DEF NoticesInv
<1>4. CASE NoReply \/ NoCall
  <2>1. /\ UNCHANGED <<messages, inFlight, delivered, rewritten, replied>> /\ agent' = "over"
        /\ agent \in {"running", "calling"}
    BY <1>4 DEF NoReply, NoCall
  <2>2. RepliedSince' <=> RepliedSince BY <2>1 DEF RepliedSince
  <2>3. Answers' BY <2>1, <2>2 DEF NoticesInv, Answers
  <2> QED BY <1>1, <2>1, <2>3 DEF NoticesInv, OneBad
<1> QED BY <1>2, <1>3, <1>4

(* Prompts and tool results.                                                 *)
LEMMA OtherSteps ==
  ASSUME NoticesInv, (\E isWake \in BOOLEAN : Prompt(isWake)) \/ ToolsDone
  PROVE  NoticesInv'
<1>1. messages \in Seq(Replies) /\ inFlight.from \in Nat BY DEF NoticesInv
<1>2. Say(Other) /\ UNCHANGED <<inFlight, delivered, rewritten, replied>>
  BY DEF Prompt, ToolsDone
<1>3. messages' \in Seq(Replies) /\ messages'[Len(messages')] = Other /\ OneBad'
  BY <1>2, Said DEF Replies
<1>4. RepliedSince' => RepliedSince BY <1>2, SaidOther
<1>5. Answers' BY <1>2, <1>3, <1>4 DEF NoticesInv, Answers
<1> QED BY <1>1, <1>2, <1>3, <1>5 DEF NoticesInv

(* A failed reply is taken off for a retry.                                  *)
LEMMA RetryStep ==
  ASSUME NoticesInv, Retry
  PROVE  NoticesInv'
<1> DEFINE n == Len(messages)
<1>1. /\ agent = "over" /\ messages # <<>> /\ Last(messages) = Bad
      /\ messages' = Front(messages) /\ agent' = "running"
      /\ UNCHANGED <<inFlight, delivered, rewritten, replied>>
  BY DEF Retry
<1>2. /\ messages' \in Seq(Replies) /\ Len(messages') = n - 1
      /\ n \in Nat \ {0} /\ messages[n] = Bad
      /\ \A i \in 1..(n - 1) : messages'[i] = messages[i]
      /\ messages' # <<>> => messages'[n - 1] # Bad
  BY <1>1, Popped
<1>3. inFlight.from \in Nat BY DEF NoticesInv
<1> HIDE DEF n
<1>4. OneBad'
  <2> SUFFICES ASSUME NEW i \in 1..(n - 2), messages'[i] = Bad PROVE messages'[i + 1] # Bad
    BY <1>2 DEF OneBad
  <2>1. i \in 1..(n - 1) /\ i + 1 \in 1..(n - 1) BY <1>2
  <2> QED BY <1>2, <2>1 DEF NoticesInv, OneBad, n
<1>5. inFlight.from < n \/ ToSet(inFlight.jobs) \subseteq replied \cup rewritten
  BY <1>1, <1>2 DEF NoticesInv, Answers, n
<1>6. RepliedSince' /\ inFlight.from < n => RepliedSince
  <2> SUFFICES ASSUME inFlight.from < n, NEW i \in (inFlight.from + 1)..(n - 1), messages'[i] = Good
               PROVE  RepliedSince
    BY <1>1, <1>2, <1>3 DEF RepliedSince
  <2>1. i \in 1..(n - 1) /\ i \in (inFlight.from + 1)..n BY <1>2, <1>3
  <2> QED BY <1>2, <2>1 DEF RepliedSince, n
<1>7. Answers' BY <1>1, <1>2, <1>5, <1>6 DEF NoticesInv, Answers
<1> QED BY <1>1, <1>2, <1>3, <1>4, <1>7 DEF NoticesInv

(* A compaction, after which everything in flight counts as rewritten.       *)
LEMMA CompactStep ==
  ASSUME NoticesInv, NEW retry \in BOOLEAN, Compact(retry)
  PROVE  NoticesInv'
<1> DEFINE kept == IF retry THEN Front(messages) ELSE messages
<1>1. /\ messages # <<>>
      /\ retry => agent = "over" /\ Last(messages) = Bad
      /\ ~retry => agent \in {"idle", "over"} /\ agent' = agent
      /\ retry => agent' = "running"
      /\ rewritten' = rewritten \cup ToSet(inFlight.jobs)
      /\ UNCHANGED <<inFlight, delivered, replied>>
  BY DEF Compact
<1>2. PICK cut \in 1..Len(kept) : messages' = <<Other>> \o SubSeq(kept, cut + 1, Len(kept))
  BY DEF Compact
<1>3. inFlight.from \in Nat BY DEF NoticesInv
<1>4. /\ kept \in Seq(Replies)
      /\ \A i \in 1..(Len(kept) - 1) : kept[i] = Bad => kept[i + 1] # Bad
      /\ retry => kept[Len(kept)] # Bad
  <2>1. CASE ~retry BY <2>1 DEF NoticesInv, OneBad
  <2>2. CASE retry
    <3> DEFINE n == Len(messages)
    <3>1. /\ kept \in Seq(Replies) /\ Len(kept) = n - 1 /\ n \in Nat \ {0}
          /\ \A i \in 1..(n - 1) : kept[i] = messages[i]
          /\ kept # <<>> => kept[n - 1] # Bad
      BY <1>1, <2>2, Popped
    <3>2. kept # <<>> BY <1>2, <3>1
    <3> HIDE DEF kept, n
    <3>3. ASSUME NEW i \in 1..(n - 2), kept[i] = Bad PROVE kept[i + 1] # Bad
      <4>1. i \in 1..(n - 1) /\ i + 1 \in 1..(n - 1) BY <3>1
      <4> QED BY <3>1, <3>3, <4>1 DEF NoticesInv, OneBad, n
    <3> QED BY <3>1, <3>2, <3>3
  <2> QED BY <2>1, <2>2
<1> HIDE DEF kept
<1>5. /\ messages' \in Seq(Replies) /\ OneBad'
      /\ messages'[Len(messages')] = Bad => kept[Len(kept)] = Bad
  BY <1>2, <1>4, Summarized DEF OneBad
<1>6. delivered' \subseteq replied' \cup rewritten' /\ ToSet(inFlight'.jobs) \subseteq rewritten'
  BY <1>1 DEF NoticesInv, Answers
<1>7. Answers' BY <1>1, <1>4, <1>5, <1>6 DEF Answers
<1> QED BY <1>1, <1>3, <1>5, <1>7 DEF NoticesInv

(* Steps that leave the transcript and the notices alone.                    *)
LEMMA QuietSteps ==
  ASSUME NoticesInv, UNCHANGED <<inFlight, messages, delivered, replied, rewritten>>,
         agent' = agent \/ agent' = "idle"
  PROVE  NoticesInv'
<1>1. RepliedSince' <=> RepliedSince BY DEF RepliedSince
<1> QED BY <1>1 DEF NoticesInv, OneBad, Answers

(* Every step keeps what is known of the answers.                           *)
LEMMA NoticesStep == NoticesInv /\ [Next]_vars => NoticesInv'
<1> SUFFICES ASSUME NoticesInv, [Next]_vars PROVE NoticesInv' OBVIOUS
<1>1. CASE Jobs_ BY <1>1, QuietSteps DEF Jobs_, noticeVars
<1>2. CASE Prompt(FALSE) \/ Wake BY <1>2, OtherSteps DEF Wake
<1>3. CASE WakeSettled BY <1>3, QuietSteps DEF WakeSettled
<1>4. CASE RunStep
  <2>1. ASSUME NEW failed \in BOOLEAN, PromptDone(failed) PROVE NoticesInv'
    BY <2>1, QuietSteps DEF PromptDone
  <2> QED BY <1>4, <2>1, CallStep, ReplySteps, OtherSteps DEF RunStep
<1>5. CASE NoCall BY <1>5, ReplySteps
<1>6. CASE Retry BY <1>6, RetryStep
<1>7. ASSUME NEW retry \in BOOLEAN, Compact(retry) PROVE NoticesInv' BY <1>7, CompactStep
<1>8. ASSUME NEW j \in Jobs, ShowEnd(j) PROVE NoticesInv' BY <1>8, QuietSteps DEF ShowEnd
<1>9. CASE UNCHANGED vars BY <1>9, QuietSteps DEF vars, noticeVars
<1> QED BY <1>1, <1>2, <1>3, <1>4, <1>5, <1>6, <1>7, <1>8, <1>9 DEF Next

-----------------------------------------------------------------------------
(* Where the notices are.                                                    *)

(* What a sequence joined of two holds, and when it holds nothing twice.     *)
LEMMA Joining ==
  ASSUME NEW S, NEW s \in Seq(S), NEW t \in Seq(S)
  PROVE  /\ s \o t \in Seq(S)
         /\ ToSet(s \o t) = ToSet(s) \cup ToSet(t)
         /\ IsInjective(s \o t) <=>
              IsInjective(s) /\ IsInjective(t) /\ ToSet(s) \cap ToSet(t) = {}
<1> DEFINE m == Len(s)
           n == Len(t)
           st == s \o t
<1>1. m \in Nat /\ n \in Nat /\ DOMAIN s = 1..m /\ DOMAIN t = 1..n OBVIOUS
<1>2. /\ st \in Seq(S) /\ Len(st) = m + n /\ DOMAIN st = 1..(m + n)
      /\ \A i \in 1..m : st[i] = s[i]
      /\ \A i \in 1..n : st[m + i] = t[i]
  OBVIOUS
<1> HIDE DEF m, n, st
<1>3. \A i \in 1..(m + n) : i \in 1..m \/ \E k \in 1..n : i = m + k
  <2> TAKE i \in 1..(m + n)
  <2>1. i \in 1..m \/ (i - m \in 1..n /\ i = m + (i - m)) BY <1>1
  <2> QED BY <2>1
<1>4. \A i \in 1..m : i \in 1..(m + n) BY <1>1
<1>5. \A i \in 1..n : m + i \in 1..(m + n) BY <1>1
<1>6. ToSet(st) = ToSet(s) \cup ToSet(t)
  <2>1. ASSUME NEW i \in 1..(m + n) PROVE st[i] \in ToSet(s) \cup ToSet(t)
    <3>1. CASE i \in 1..m BY <1>1, <1>2, <3>1 DEF ToSet
    <3>2. CASE \E k \in 1..n : i = m + k BY <1>1, <1>2, <3>2 DEF ToSet
    <3> QED BY <1>3, <3>1, <3>2
  <2>2. ToSet(s) \subseteq ToSet(st) BY <1>1, <1>2, <1>4 DEF ToSet
  <2>3. ToSet(t) \subseteq ToSet(st) BY <1>1, <1>2, <1>5 DEF ToSet
  <2>4. ToSet(st) = {st[i] : i \in 1..(m + n)} BY <1>2 DEF ToSet
  <2> QED BY <2>1, <2>2, <2>3, <2>4
<1>7. ASSUME IsInjective(st)
      PROVE  IsInjective(s) /\ IsInjective(t) /\ ToSet(s) \cap ToSet(t) = {}
  <2>1. \A a, b \in 1..(m + n) : st[a] = st[b] => a = b BY <1>2, <1>7 DEF IsInjective
  <2>2. IsInjective(s) BY <1>1, <1>2, <1>4, <2>1 DEF IsInjective
  <2>3. \A a, b \in 1..n : t[a] = t[b] => m + a = m + b BY <1>2, <1>5, <2>1
  <2>4. IsInjective(t) BY <1>1, <2>3 DEF IsInjective
  <2>5. \A a \in 1..m, b \in 1..n : s[a] # t[b]
    <3> SUFFICES ASSUME NEW a \in 1..m, NEW b \in 1..n, s[a] = t[b] PROVE FALSE OBVIOUS
    <3>1. a = m + b BY <1>2, <1>4, <1>5, <2>1
    <3> QED BY <1>1, <3>1
  <2> QED BY <1>1, <2>2, <2>4, <2>5 DEF ToSet
<1>8. ASSUME IsInjective(s), IsInjective(t), ToSet(s) \cap ToSet(t) = {}
      PROVE  IsInjective(st)
  <2>1. \A a \in 1..m, b \in 1..n : s[a] # t[b] BY <1>1, <1>8 DEF ToSet
  <2> SUFFICES ASSUME NEW a \in 1..(m + n), NEW b \in 1..(m + n), st[a] = st[b] PROVE a = b
    BY <1>2 DEF IsInjective
  <2>2. CASE a \in 1..m /\ b \in 1..m BY <1>1, <1>2, <1>8, <2>2 DEF IsInjective
  <2>3. CASE a \in 1..m /\ b \notin 1..m BY <1>2, <1>3, <2>1, <2>3
  <2>4. CASE a \notin 1..m /\ b \in 1..m BY <1>2, <1>3, <2>1, <2>4
  <2>5. CASE a \notin 1..m /\ b \notin 1..m
    <3>1. PICK k \in 1..n : a = m + k BY <1>3, <2>5
    <3>2. PICK l \in 1..n : b = m + l BY <1>3, <2>5
    <3>3. t[k] = t[l] BY <1>2, <3>1, <3>2
    <3> QED BY <1>1, <1>8, <3>1, <3>2, <3>3 DEF IsInjective
  <2> QED BY <2>2, <2>3, <2>4, <2>5
<1> QED BY <1>2, <1>6, <1>7, <1>8 DEF st

(* An id that is in a list once is taken out of it, and nothing else.        *)
LEMMA Forgetting ==
  ASSUME NEW S, NEW s \in Seq(S), IsInjective(s), NEW j
  PROVE  /\ Forget(s, j) \in Seq(S)
         /\ IsInjective(Forget(s, j))
         /\ ToSet(Forget(s, j)) = ToSet(s) \ {j}
<1> DEFINE n == Len(s)
<1>1. n \in Nat /\ DOMAIN s = 1..n OBVIOUS
<1>2. CASE j \notin ToSet(s) BY <1>2 DEF Forget
<1>3. CASE j \in ToSet(s)
  <2>1. PICK i \in 1..n : s[i] = j /\ Forget(s, j) = RemoveAt(s, i)
    <3>1. \E i \in 1..n : s[i] = j BY <1>1, <1>3 DEF ToSet
    <3>2. /\ (CHOOSE i \in DOMAIN s : s[i] = j) \in 1..n
          /\ s[CHOOSE i \in DOMAIN s : s[i] = j] = j
      BY <1>1, <3>1
    <3> QED BY <1>3, <3>2 DEF Forget
  <2> DEFINE u == SubSeq(s, 1, i - 1)
             v == SubSeq(s, i + 1, n)
             r == RemoveAt(s, i)
  <2>2. /\ u \in Seq(S) /\ Len(u) = i - 1 /\ \A k \in 1..(i - 1) : u[k] = s[k]
        /\ v \in Seq(S) /\ Len(v) = n - i /\ \A k \in 1..(n - i) : v[k] = s[i + k]
        /\ DOMAIN u = 1..(i - 1) /\ DOMAIN v = 1..(n - i)
    <3>1. i \in Nat /\ 1 <= i /\ i <= n BY <1>1
    <3>2. u \in Seq(S) /\ Len(u) = i - 1 /\ \A k \in 1..(i - 1) : u[k] = s[k]
      BY <1>1, <3>1
    <3>3. v \in Seq(S) /\ Len(v) = n - i
      <4>1. i + 1 \in Int /\ n \in Int /\ \A k \in (i + 1)..n : s[k] \in S BY <1>1, <3>1
      <4>2. v \in Seq(S) /\ Len(v) = IF i + 1 <= n THEN n - (i + 1) + 1 ELSE 0
        BY <4>1, SubSeqProperties
      <4> HIDE DEF v, n
      <4> QED BY <1>1, <3>1, <4>2
    <3>4. ASSUME NEW k \in 1..(n - i) PROVE v[k] = s[i + k]
      <4>1. k \in 1..(n - (i + 1) + 1) BY <1>1, <3>1
      <4>2. v[k] = s[(i + 1) + k - 1] BY <1>1, <3>1, <4>1
      <4>3. (i + 1) + k - 1 = i + k BY <1>1, <3>1, <4>1
      <4> QED BY <4>2, <4>3
    <3> HIDE DEF u, v, n
    <3> QED BY <1>1, <3>1, <3>2, <3>3, <3>4
  <2>3. r = u \o v BY DEF RemoveAt
  <2> HIDE DEF n, u, v, r
  <2>4. ToSet(u) = {s[k] : k \in 1..(i - 1)} /\ ToSet(v) = {s[i + k] : k \in 1..(n - i)}
    BY <2>2, ZenonT(30) DEF ToSet
  <2>5. \A a, b \in 1..n : s[a] = s[b] => a = b BY <1>1 DEF IsInjective
  <2>6. \A k \in 1..(i - 1) : k \in 1..n /\ k # i /\ k < i BY <1>1
  <2>7. \A k \in 1..(n - i) : i + k \in 1..n /\ i + k # i /\ i + k > i BY <1>1
  <2>8. IsInjective(u)
    <3>1. DOMAIN u = 1..(i - 1) BY <2>2
    <3> QED BY <2>2, <2>5, <2>6, <3>1 DEF IsInjective
  <2>9. IsInjective(v)
    <3>1. DOMAIN v = 1..(n - i) BY <2>2
    <3>2. ASSUME NEW a \in 1..(n - i), NEW b \in 1..(n - i), v[a] = v[b] PROVE a = b
      <4>1. v[a] = s[i + a] /\ v[b] = s[i + b] BY <2>2
      <4>2. i + a \in 1..n /\ i + b \in 1..n BY <2>7
      <4>3. i + a = i + b BY <2>5, <3>2, <4>1, <4>2
      <4> QED BY <1>1, <4>3
    <3> QED BY <3>1, <3>2 DEF IsInjective
  <2>10. ToSet(u) \cap ToSet(v) = {}
    <3> SUFFICES ASSUME NEW a \in 1..(i - 1), NEW b \in 1..(n - i), s[a] = s[i + b] PROVE FALSE
      BY <2>4
    <3>1. a = i + b BY <2>5, <2>6, <2>7
    <3> QED BY <2>6, <2>7, <3>1
  <2>11. ToSet(u) \cup ToSet(v) = ToSet(s) \ {j}
    <3>1. ToSet(u) \cup ToSet(v) \subseteq ToSet(s) \ {j}
      BY <1>1, <2>1, <2>4, <2>5, <2>6, <2>7 DEF ToSet
    <3>2. ASSUME NEW k \in 1..n, s[k] # j PROVE s[k] \in ToSet(u) \cup ToSet(v)
      <4>1. k \in 1..(i - 1) \/ (k - i \in 1..(n - i) /\ k = i + (k - i)) BY <1>1, <2>1, <3>2
      <4> QED BY <2>4, <4>1
    <3> QED BY <1>1, <3>1, <3>2 DEF ToSet
  <2> QED BY <2>1, <2>2, <2>3, <2>8, <2>9, <2>10, <2>11, Joining DEF r
<1> QED BY <1>2, <1>3

(* NoticeAccounted, list by list.                                            *)
Notices ==
  /\ announce \in Seq(Jobs) /\ inFlight.jobs \in Seq(Jobs)
  /\ IsInjective(announce) /\ IsInjective(inFlight.jobs)
  /\ ToSet(announce) \cap ToSet(inFlight.jobs) = {}
  /\ (ToSet(announce) \cup ToSet(inFlight.jobs)) \cap delivered = {}
  /\ \A j \in Jobs :
       /\ j \in ToSet(announce) \cup ToSet(inFlight.jobs) \cup delivered => Finished(j)
       /\ Finished(j) => j \in ToSet(announce) \cup ToSet(inFlight.jobs) \cup delivered \cup shown

(* The lists hold jobs.                                                      *)
LEMMA ListsOfJobs ==
  ASSUME Notices PROVE ToSet(announce) \subseteq Jobs /\ ToSet(inFlight.jobs) \subseteq Jobs
<1>1. ASSUME NEW s \in Seq(Jobs) PROVE ToSet(s) \subseteq Jobs BY DEF ToSet
<1> QED BY <1>1 DEF Notices

(* The list of no jobs.                                                      *)
LEMMA EmptyList == <<>> \in Seq(Jobs) /\ IsInjective(<<>>) /\ ToSet(<<>>) = {}
BY DEF IsInjective, ToSet

(* The end of a job is recorded.                                             *)
LEMMA RecordNotices ==
  ASSUME JobsInv, Notices, NEW j \in Jobs, Record(j),
         UNCHANGED <<inFlight, delivered, shown>>
  PROVE  Notices'
<1>1. /\ announce' = Append(announce, j) /\ announce \in Seq(Jobs)
      /\ entry \in [Jobs -> States] /\ task[j] = "record"
      /\ entry' = [entry EXCEPT ![j] = IF killed[j] THEN "killed" ELSE "exited"]
  BY DEF Record, Notices, JobsInv, JobsTypeOK
<1>2. ~Finished(j) BY <1>1 DEF JobsInv, JobPlaces, Started
<1>3. \A k \in Jobs : entry'[k] \in {"exited", "killed"} <=> Finished(k) \/ k = j BY <1>1
<1>4. /\ announce' \in Seq(Jobs) /\ ToSet(announce') = ToSet(announce) \cup {j}
      /\ IsInjective(announce')
  <2>1. <<j>> \in Seq(Jobs) /\ ToSet(<<j>>) = {j} /\ IsInjective(<<j>>)
    BY DEF ToSet, IsInjective
  <2>2. announce' = announce \o <<j>> BY <1>1
  <2>3. ToSet(announce) \cap {j} = {} /\ IsInjective(announce) BY <1>2 DEF Notices
  <2> DEFINE last == <<j>>
  <2> HIDE DEF last
  <2>4. announce' = announce \o last /\ last \in Seq(Jobs) /\ ToSet(last) = {j}
        /\ IsInjective(last)
    BY <2>1, <2>2 DEF last
  <2> QED BY <1>1, <2>3, <2>4, Joining
<1> QED BY <1>2, <1>3, <1>4, ListsOfJobs DEF Notices

(* A step that ends no job and touches no notice.                            *)
LEMMA QuietNotices ==
  ASSUME Notices, UNCHANGED <<announce, inFlight, delivered, shown>>,
         \A j \in Jobs : Finished(j)' <=> Finished(j)
  PROVE  Notices'
BY DEF Notices

(* A step of the registry.                                                   *)
LEMMA RegistryNotices ==
  ASSUME JobsInv, Notices, Jobs_ PROVE Notices'
<1>1. UNCHANGED <<inFlight, delivered, shown>> BY DEF Jobs_, noticeVars
<1>2. ASSUME NEW j \in Jobs, Record(j) PROVE Notices' BY <1>1, <1>2, RecordNotices
<1>3. ASSUME NEW j \in Jobs, Spawn(j) \/ SpawnFails(j) PROVE Notices'
  <2>1. UNCHANGED announce /\ entry \in [Jobs -> States]
    BY <1>3 DEF Spawn, SpawnFails, JobsInv, JobsTypeOK
  <2>2. ~Finished(j) BY <1>3 DEF Spawn, SpawnFails, JobsInv, JobPlaces, Started
  <2>3. \A k \in Jobs : entry'[k] \in {"exited", "killed"} <=> Finished(k)
    BY <1>3, <2>1, <2>2 DEF Spawn, SpawnFails
  <2> QED BY <1>1, <2>1, <2>3, QuietNotices
<1>4. ASSUME UNCHANGED <<announce, entry>> PROVE Notices' BY <1>1, <1>4, QuietNotices
<1>5. ASSUME NEW j \in Jobs, TaskStep(j), ~Record(j) PROVE UNCHANGED <<announce, entry>>
  BY <1>5 DEF TaskStep, StartShell, SetGroup, CheckFlag, TryWait, ForgetGroup
<1>6. ASSUME NEW j \in Jobs, ShellExits(j) \/ ShellForks(j) \/ KidExits(j)
      PROVE  UNCHANGED <<announce, entry>>
  BY <1>6 DEF ShellExits, ShellForks, KidExits
<1>7. ASSUME KillStep \/ (\E S : Kill(S)) PROVE UNCHANGED <<announce, entry>>
  BY <1>7 DEF KillStep, Kill, Flag, Signal
<1> QED BY <1>2, <1>3, <1>4, <1>5, <1>6, <1>7 DEF Jobs_, JobsNext

(* A call takes the notices over, and those of the last call are delivered   *)
(* or due again.                                                             *)
LEMMA CallNotices ==
  ASSUME Notices, Call PROVE Notices'
<1> DEFINE due == StillDue
           notices == due \o announce
<1>1. /\ announce' = <<>> /\ UNCHANGED <<entry, shown>>
      /\ inFlight' = IF notices = <<>> THEN Nothing ELSE [from |-> Len(messages), jobs |-> notices]
      /\ delivered' = delivered \cup (IF RepliedSince THEN ToSet(inFlight.jobs) ELSE {})
  BY DEF Call, ForCall, TakeCompletions
<1>2. /\ due \in Seq(Jobs) /\ IsInjective(due)
      /\ ToSet(due) = IF RepliedSince THEN {} ELSE ToSet(inFlight.jobs)
  BY EmptyList DEF StillDue, Notices
<1> HIDE DEF due
<1>3. /\ notices \in Seq(Jobs) /\ IsInjective(notices)
      /\ ToSet(notices) = ToSet(due) \cup ToSet(announce)
  <2>1. ToSet(due) \cap ToSet(announce) = {} BY <1>2 DEF Notices
  <2> QED BY <1>2, <2>1, Joining DEF Notices
<1> HIDE DEF notices
<1>4. inFlight.jobs' = notices
  BY <1>1 DEF Nothing
<1>5. \A j \in Jobs : Finished(j)' <=> Finished(j) BY <1>1
<1>6. ToSet(announce)' = {} /\ announce' \in Seq(Jobs) /\ IsInjective(announce)'
  BY <1>1, EmptyList
<1> QED BY <1>1, <1>2, <1>3, <1>4, <1>5, <1>6 DEF Notices

(* A ShellOutput shows the end of a job.                                     *)
LEMMA ShowNotices ==
  ASSUME Notices, NEW j \in Jobs, ShowEnd(j) PROVE Notices'
<1>1. /\ announce' = Forget(announce, j) /\ Finished(j)
      /\ UNCHANGED <<entry, inFlight, delivered>> /\ shown' = shown \cup {j}
  BY DEF ShowEnd, Acknowledge
<1>2. /\ announce' \in Seq(Jobs) /\ IsInjective(announce')
      /\ ToSet(announce') = ToSet(announce) \ {j}
  BY <1>1, Forgetting DEF Notices
<1> QED BY <1>1, <1>2 DEF Notices

(* Every step keeps each notice in one place.                                *)
LEMMA StepNotices == JobsInv /\ Notices /\ [Next]_vars => Notices'
<1> SUFFICES ASSUME JobsInv, Notices, [Next]_vars PROVE Notices' OBVIOUS
<1>1. ASSUME UNCHANGED <<announce, inFlight, delivered, shown, entry>> PROVE Notices'
  BY <1>1, QuietNotices
<1>2. ASSUME NEW j \in Jobs, ShowEnd(j) PROVE Notices' BY <1>2, ShowNotices
<1>3. Jobs_ \/ Call \/ (\E j \in Jobs : ShowEnd(j))
      \/ UNCHANGED <<announce, inFlight, delivered, shown, entry>>
  BY DEF Next, vars, jobVars, noticeVars, Prompt, Wake, WakeSettled, RunStep, ReplyGood, ReplyBad,
         NoReply, ToolsDone, PromptDone, NoCall, Retry, Compact
<1> QED BY <1>1, <1>2, <1>3, RegistryNotices, CallNotices

-----------------------------------------------------------------------------
(* What a reader should know of.                                             *)

(* The registry's invariant: where the task, the entry, the shell and the    *)
(* group of each job are, and what a strike leaves behind (jobs.rs).         *)
THEOREM RegistryInvariance == Spec => []JobsInv
<1>1. Init => JobsInv BY JobsInitInv DEF Init
<1>2. JobsInv /\ [Next]_vars => JobsInv'
  <2> SUFFICES ASSUME JobsInv, [Next]_vars PROVE JobsInv' OBVIOUS
  <2>1. JobsNext \/ UNCHANGED jobVars \/ TakeCompletions \/ \E j \in Jobs : Acknowledge(j)
    BY DEF Next, vars, Jobs_, Prompt, Wake, WakeSettled, RunStep, Call, ForCall, ReplyGood, ReplyBad,
           NoReply, ToolsDone, PromptDone, NoCall, Retry, Compact, ShowEnd
  <2> QED BY <2>1, JobsStepInv
<1> QED BY <1>1, <1>2, PTL DEF Spec

(* However many jobs there are and wherever a kill lands in the life of one, *)
(* a job that died of it is reported as killed.                              *)
THEOREM KilledIsRecordedAlways == Spec => []KilledIsRecorded
<1>1. JobsInv => KilledIsRecorded BY DEF JobsInv, Strikes, KilledIsRecorded
<1> QED BY <1>1, RegistryInvariance, PTL

(* What a finished job left running has its group recorded: ShellKill can    *)
(* still reach it.                                                           *)
THEOREM LeftoversReachableAlways == Spec => []LeftoversReachable
<1>1. JobsInv => LeftoversReachable
  BY DEF JobsInv, JobPlaces, LeftoversReachable, Owning, Grouped
<1> QED BY <1>1, RegistryInvariance, PTL

(* The notice of each finished job is in one place, due, in a call's hands   *)
(* or delivered, and is lost nowhere between them; only a job whose end a    *)
(* ShellOutput showed may have none.                                         *)
THEOREM NoticeAccountedAlways == Spec => []NoticeAccounted
<1>1. Init => Notices
  <2> SUFFICES ASSUME Init PROVE Notices OBVIOUS
  <2>1. announce = <<>> /\ inFlight.jobs = <<>> /\ delivered = {} BY DEF Init, JobsInit, Nothing
  <2>2. \A j \in Jobs : ~Finished(j) BY DEF Init, JobsInit
  <2> QED BY <2>1, <2>2, EmptyList DEF Notices
<1>2. Notices => NoticeAccounted
  <2> SUFFICES ASSUME Notices PROVE NoticeAccounted OBVIOUS
  <2>1. /\ announce \in Seq(Jobs) /\ inFlight.jobs \in Seq(Jobs)
        /\ IsInjective(announce) /\ IsInjective(inFlight.jobs)
        /\ ToSet(announce) \cap ToSet(inFlight.jobs) = {}
    BY DEF Notices
  <2>2. /\ IsInjective(announce \o inFlight.jobs)
        /\ ToSet(announce \o inFlight.jobs) = ToSet(announce) \cup ToSet(inFlight.jobs)
    BY <2>1, Joining
  <2> QED BY <2>2 DEF Notices, NoticeAccounted
<1> QED BY <1>1, <1>2, StepNotices, RegistryInvariance, PTL DEF Spec

(* A notice counts as delivered only after a reply that did not fail, or     *)
(* after a compaction, however calls fail and are retried.                   *)
THEOREM DeliveredWasAnsweredAlways == Spec => []DeliveredWasAnswered
<1>1. NoticesInv => DeliveredWasAnswered BY DEF NoticesInv, Answers, DeliveredWasAnswered
<1> QED BY <1>1, NoticesInit, NoticesStep, PTL DEF Spec
=============================================================================
