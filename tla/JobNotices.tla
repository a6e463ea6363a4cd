------------------------------ MODULE JobNotices ------------------------------
(***************************************************************************)
(* The notices of finished background jobs (JobNotices in                  *)
(* hoocode-code-agent-session's services.rs) on top of the job registry:   *)
(* a model call carries the notices that are due, they count as delivered  *)
(* once a later call sees a reply that did not fail, and the interactive   *)
(* app wakes an idle agent for them.                                       *)
(*                                                                         *)
(* The transcript keeps what the notices read of it: where the replies     *)
(* are, and whether each failed.  A run calls the model, gets a reply, no  *)
(* reply or a failed one, and goes on after tool results; when it is over  *)
(* the transcript may be compacted, and a failed reply is taken off again  *)
(* for a retry.  NoticeState.queued is empty whenever its lock is free     *)
(* (for_call takes all of it), so it is no variable here.                  *)
(***************************************************************************)
EXTENDS ShellJobs

CONSTANT MaxMessages   \* bound on the transcript

ASSUME JobNoticesAssumption == MaxMessages \in Nat \ {0}

VARIABLES
  inFlight,   \* NoticeState.in_flight
  messages,   \* the transcript
  agent,      \* idle, running (a call is next), calling, tools, over (PromptDone is next)
  wake,       \* wake_in_flight
  wakeFailed, \* job_wake_failed
  delivered,  \* jobs whose notice was taken for delivered
  shown,      \* jobs whose end a ShellOutput showed
  replied,    \* jobs whose notice was in a call that got a good reply
  rewritten   \* jobs whose notice was in flight when the transcript was compacted

noticeVars == <<inFlight, messages, agent, wake, wakeFailed,
                delivered, shown, replied, rewritten>>
vars == <<jobVars, noticeVars>>

Other == "other"
Good == "good"
Bad == "bad"
Nothing == [from |-> 0, jobs |-> <<>>]

TypeOK ==
  /\ JobsTypeOK /\ announce \in Seq(Jobs)
  /\ inFlight \in [from : 0..MaxMessages, jobs : Seq(Jobs)]
  /\ messages \in Seq({Other, Good, Bad}) /\ Len(messages) <= MaxMessages
  /\ agent \in {"idle", "running", "calling", "tools", "over"}
  /\ wake \in BOOLEAN /\ wakeFailed \in BOOLEAN
  /\ wake => agent # "idle"
  /\ delivered \subseteq Jobs /\ shown \subseteq Jobs
  /\ replied \subseteq Jobs /\ rewritten \subseteq Jobs

Init ==
  /\ JobsInit
  /\ inFlight = Nothing
  /\ messages = <<>>
  /\ agent = "idle" /\ wake = FALSE /\ wakeFailed = FALSE
  /\ delivered = {} /\ shown = {} /\ replied = {} /\ rewritten = {}

Say(kind) ==
  /\ Len(messages) < MaxMessages
  /\ messages' = Append(messages, kind)

-----------------------------------------------------------------------------
(* Prompts, the user's and the wake's (tick_job_wake).                       *)

\* Mutation of WakePending: a job whose group is still known counts as running.
WakePendingEmptied == \E j \in ToSet(announce) : entry[j] # "killed" /\ ~group[j]

WakePending == \E j \in ToSet(announce) : entry[j] # "killed"

Prompt(isWake) ==
  /\ agent = "idle"
  /\ Say(Other)
  /\ agent' = "running"
  /\ wake' = isWake
  /\ UNCHANGED <<jobVars, inFlight, wakeFailed, delivered, shown, replied, rewritten>>

Wake ==
  /\ WakePending /\ ~wakeFailed
  /\ Prompt(TRUE)

WakeSettled ==
  /\ agent = "idle" /\ wakeFailed /\ ~WakePending
  /\ wakeFailed' = FALSE
  /\ UNCHANGED <<jobVars, inFlight, messages, agent, wake, delivered, shown, replied, rewritten>>

(* on_prompt_done, of a run that failed or not.                              *)
PromptDone(failed) ==
  /\ agent = "over"
  /\ agent' = "idle"
  /\ wake' = FALSE
  /\ wakeFailed' = (wakeFailed \/ (wake /\ (failed \/ WakePending)))
  /\ UNCHANGED <<jobVars, inFlight, messages, delivered, shown, replied, rewritten>>

-----------------------------------------------------------------------------
(* A model call: for_call, then what comes of it.                            *)

\* Mutation of RepliedSince: a reply that failed counts too.
RepliedAtAll ==
  \/ Len(messages) < inFlight.from
  \/ \E i \in (inFlight.from + 1)..Len(messages) : messages[i] # Other

RepliedSince ==
  \/ Len(messages) < inFlight.from
  \/ \E i \in (inFlight.from + 1)..Len(messages) : messages[i] = Good

\* Mutation of StillDue: what was handed to a call is not handed out again.
StillDueNever == <<>>

StillDue == IF RepliedSince THEN <<>> ELSE inFlight.jobs

ForCall ==
  LET notices == StillDue \o announce
  IN /\ TakeCompletions
     /\ inFlight' = IF notices = <<>> THEN Nothing
                    ELSE [from |-> Len(messages), jobs |-> notices]
     /\ delivered' = delivered \cup (IF RepliedSince THEN ToSet(inFlight.jobs) ELSE {})

Call ==
  /\ agent = "running"
  /\ ForCall
  /\ agent' = "calling"
  /\ UNCHANGED <<messages, wake, wakeFailed, shown, replied, rewritten>>

(* The start of a run fails before any call.                                 *)
NoCall ==
  /\ agent = "running"
  /\ agent' = "over"
  /\ UNCHANGED <<jobVars, inFlight, messages, wake, wakeFailed, delivered, shown, replied, rewritten>>

(* A good reply asks for tools or ends the run.                              *)
ReplyGood(next) ==
  /\ agent = "calling" /\ next \in {"tools", "over"}
  /\ Say(Good)
  /\ agent' = next
  /\ replied' = replied \cup ToSet(inFlight.jobs)
  /\ UNCHANGED <<jobVars, inFlight, wake, wakeFailed, delivered, shown, rewritten>>

ReplyBad ==
  /\ agent = "calling"
  /\ Say(Bad)
  /\ agent' = "over"
  /\ UNCHANGED <<jobVars, inFlight, wake, wakeFailed, delivered, shown, replied, rewritten>>

NoReply ==
  /\ agent = "calling"
  /\ agent' = "over"
  /\ UNCHANGED <<jobVars, inFlight, messages, wake, wakeFailed, delivered, shown, replied, rewritten>>

(* A ShellOutput with wait shows the end of a job.                           *)
ShowEnd(j) ==
  /\ agent = "tools"
  /\ Acknowledge(j)
  /\ shown' = shown \cup {j}
  /\ UNCHANGED <<inFlight, messages, agent, wake, wakeFailed, delivered, replied, rewritten>>

ToolsDone ==
  /\ agent = "tools"
  /\ Say(Other)
  /\ agent' \in {"running", "over"}
  /\ UNCHANGED <<jobVars, inFlight, wake, wakeFailed, delivered, shown, replied, rewritten>>

(* The retry of a failed reply, which leaves the transcript.                 *)
Retry ==
  /\ agent = "over"
  /\ messages # <<>> /\ Last(messages) = Bad
  /\ messages' = Front(messages)
  /\ agent' = "running"
  /\ UNCHANGED <<jobVars, inFlight, wake, wakeFailed, delivered, shown, replied, rewritten>>

(* A summary takes the place of the first messages, after a run or, once a   *)
(* failed reply has been taken off, before its retry (context overflow).     *)
Compact(retry) ==
  LET kept == IF retry THEN Front(messages) ELSE messages
  IN /\ messages # <<>>
     /\ IF retry THEN agent = "over" /\ Last(messages) = Bad ELSE agent \in {"idle", "over"}
     /\ agent' = IF retry THEN "running" ELSE agent
     /\ \E cut \in 1..Len(kept) :
          messages' = <<Other>> \o SubSeq(kept, cut + 1, Len(kept))
     /\ rewritten' = rewritten \cup ToSet(inFlight.jobs)
     /\ UNCHANGED <<jobVars, inFlight, wake, wakeFailed, delivered, shown, replied>>

-----------------------------------------------------------------------------
RunStep ==
  \/ Call
  \/ \E next \in {"tools", "over"} : ReplyGood(next)
  \/ ReplyBad
  \/ NoReply
  \/ ToolsDone
  \/ \E failed \in BOOLEAN : PromptDone(failed)

Jobs_ == JobsNext /\ UNCHANGED noticeVars

Next ==
  \/ Jobs_
  \/ Prompt(FALSE) \/ Wake \/ WakeSettled
  \/ RunStep \/ NoCall \/ Retry
  \/ \E retry \in BOOLEAN : Compact(retry)
  \/ \E j \in Jobs : ShowEnd(j)

Spec == Init /\ [][Next]_vars

(* The I/O runtime runs the jobs' tasks, a run of the agent ends, and the    *)
(* app ticks while it is idle.                                               *)
Fairness ==
  /\ WF_vars(KillStep /\ UNCHANGED noticeVars)
  /\ \A j \in Jobs : SF_vars(TaskStep(j) /\ UNCHANGED noticeVars)
  /\ SF_vars(RunStep)
  /\ SF_vars(Wake) /\ SF_vars(WakeSettled)

LiveSpec == Spec /\ Fairness

-----------------------------------------------------------------------------
(* Each finished job's notice is in one place: due, in a call's hands or     *)
(* delivered; or a ShellOutput showed the end before a notice had to.        *)
NoticeAccounted ==
  /\ IsInjective(announce \o inFlight.jobs)
  /\ ToSet(announce \o inFlight.jobs) \cap delivered = {}
  /\ \A j \in Jobs :
       /\ j \in ToSet(announce \o inFlight.jobs) \cup delivered => Finished(j)
       /\ Finished(j) => j \in ToSet(announce \o inFlight.jobs) \cup delivered \cup shown

(* A notice counts as delivered only after a reply that did not fail         *)
(* (services.rs:594-596), as long as the transcript was not rewritten.       *)
DeliveredWasAnswered == delivered \subseteq replied \cup rewritten

(* A job that ended on its own does not wait for the user's next prompt,     *)
(* unless a wake for it came to nothing (events.rs:193-200).                 *)
EndWakesAgent ==
  \A j \in Jobs :
    (j \in ToSet(announce) /\ entry[j] = "exited") ~> \/ j \notin ToSet(announce) \/ wakeFailed
      \/ Len(messages) = MaxMessages  \* the bound, not the code
=============================================================================
