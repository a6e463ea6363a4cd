------------------------------ MODULE SessionLog ------------------------------
(***************************************************************************)
(* What the session writer promises its callers (module documentation of   *)
(* hoocode-runtime's session_io.rs): operations take effect in the order   *)
(* they were queued, nothing that was queued is skipped, and a flush       *)
(* barrier is answered once every earlier operation is settled, with an    *)
(* error when one failed since the previous barrier.                       *)
(***************************************************************************)
EXTENDS Naturals, Sequences

CONSTANT Entries   \* what can be queued; an entry's kind says whether it is a barrier

VARIABLES
  log,      \* everything queued, in queue order
  status,   \* what became of each entry
  upTo,     \* entries up to here are settled
  failure,  \* a write failed since the last answered barrier
  open      \* the writer is alive

vars == <<log, status, upTo, failure, open>>

Writes == {"append", "replace"}
IsWrite(i) == log[i].kind \in Writes

Init ==
  /\ log = <<>> /\ status = <<>>
  /\ upTo = 0
  /\ failure = FALSE
  /\ open = TRUE

Accept(entry) ==
  /\ open
  /\ log' = Append(log, entry)
  /\ status' = Append(status, "queued")
  /\ UNCHANGED <<upTo, failure, open>>

(* A run of queued writes reaches the files, or fails, as one.               *)
Settle(last, result) ==
  /\ open
  /\ \A i \in (upTo + 1)..last : IsWrite(i)
  /\ status' = [i \in 1..Len(log) |-> IF i \in (upTo + 1)..last THEN result ELSE status[i]]
  /\ upTo' = last
  /\ failure' = (failure \/ result = "failed")
  /\ UNCHANGED <<log, open>>

(* The next unsettled entry is a barrier: it reports the failures since the  *)
(* last one.  Answer settles a queued barrier, AnswerNow one that found      *)
(* nothing queued before it.                                                 *)
Verdict == IF failure THEN "err" ELSE "ok"

Answer ==
  /\ open
  /\ upTo < Len(log) /\ ~IsWrite(upTo + 1)
  /\ status' = [status EXCEPT ![upTo + 1] = Verdict]
  /\ upTo' = upTo + 1
  /\ failure' = FALSE
  /\ UNCHANGED <<log, open>>

AnswerNow(entry) ==
  /\ open
  /\ upTo = Len(log)
  /\ entry.kind = "barrier"
  /\ log' = Append(log, entry)
  /\ status' = Append(status, Verdict)
  /\ upTo' = upTo + 1
  /\ failure' = FALSE
  /\ UNCHANGED open

(* The writer stops, or the process dies and starts again: what is not       *)
(* settled is lost, all of it and nothing else; a barrier among it may still *)
(* be told so.                                                               *)
Lose(told, alive) ==
  /\ open
  /\ \A i \in told : ~IsWrite(i)
  /\ status' = [i \in 1..Len(log) |-> IF i <= upTo THEN status[i]
                                      ELSE IF i \in told THEN "err" ELSE "lost"]
  /\ upTo' = Len(log)
  /\ failure' = FALSE
  /\ open' = alive
  /\ UNCHANGED log

(* A dead writer answers a barrier at once and takes no writes.              *)
Refuse(entry) ==
  /\ ~open
  /\ entry.kind = "barrier"
  /\ log' = Append(log, entry)
  /\ status' = Append(status, "err")
  /\ upTo' = upTo + 1
  /\ UNCHANGED <<failure, open>>

Restart ==
  /\ ~open
  /\ open' = TRUE
  /\ UNCHANGED <<log, status, upTo, failure>>

Next ==
  \/ \E entry \in Entries : Accept(entry) \/ AnswerNow(entry) \/ Refuse(entry)
  \/ \E last \in (upTo + 1)..Len(log), result \in {"written", "failed"} :
       Settle(last, result)
  \/ Answer
  \/ \E told \in SUBSET ((upTo + 1)..Len(log)), alive \in BOOLEAN : Lose(told, alive)
  \/ Restart

Spec == Init /\ [][Next]_vars
=============================================================================
