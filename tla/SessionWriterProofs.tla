------------------------- MODULE SessionWriterProofs -------------------------
(***************************************************************************)
(* Proofs about SessionWriter for any producers, files, queue sizes and    *)
(* numbers of operations and process starts: it implements SessionLog, and *)
(* no line of a file is glued onto a torn one.                             *)
(***************************************************************************)
EXTENDS SessionWriter, SequenceTheorems, TLAPS

(* The queue, the batch and the gathered lines are stretches of the log.     *)
Stretches ==
  /\ log \in Seq(Entries)
  /\ status \in Seq(Statuses) /\ Len(status) = Len(log)
  /\ flushed \in Nat /\ cur \in Nat /\ taken \in Nat
  /\ flushed <= cur /\ cur <= taken /\ taken <= Len(log)

Flags ==
  /\ boot \in 1..MaxBoots
  /\ busy \in BOOLEAN /\ error \in BOOLEAN /\ outError \in BOOLEAN
  /\ life \in {"open", "closed", "dead"}

(* What is gathered are lines, all of one file.                              *)
Gathered ==
  \A i \in (flushed + 1)..cur : log[i].kind = "append" /\ log[i].path = PendingPath

(* An idle writer has settled what it took, and published its error.         *)
IdleIsDone == ~busy => flushed = taken /\ ~outError

(* A dead one leaves nothing unsettled.                                      *)
DeadIsDone == life = "dead" => ~busy /\ flushed = Len(log)

IInv == Stretches /\ Flags /\ Gathered /\ IdleIsDone /\ DeadIsDone

(* A file that is kept open ends in a whole line, so that a torn line is     *)
(* always met by an open, which looks for it.                                *)
Unglued ==
  /\ DOMAIN disk = Paths
  /\ \A path \in Paths : ~disk[path].glued /\ (open = path => ~disk[path].torn)

USE DEF queueVars, writerVars, producerVars

(* The writer starts with an empty log.                                     *)
LEMMA InitIInv == Init => IInv
<1> SUFFICES ASSUME Init PROVE IInv OBVIOUS
<1>1. Stretches BY DEF Init, Stretches
<1>2. Flags
  <2>1. boot \in 1..MaxBoots BY SessionWriterAssumption DEF Init
  <2> QED BY <2>1 DEF Init, Flags
<1>3. Gathered BY DEF Init, Gathered
<1>4. IdleIsDone /\ DeadIsDone BY DEF Init, IdleIsDone, DeadIsDone
<1> QED BY <1>1, <1>2, <1>3, <1>4 DEF IInv

(* The ways a status changes keep it a sequence as long as the log.          *)
LEMMA SettledStatus ==
  ASSUME Stretches, NEW last \in Nat, NEW result \in Statuses, SettleAs(last, result)
  PROVE  status' \in Seq(Statuses) /\ Len(status') = Len(log)
BY DEF SettleAs, Stretches

(* The same when a crash loses what was not written.                        *)
LEMMA LostStatus ==
  ASSUME Stretches, NEW S
  PROVE  LostFrom(S) \in Seq(Statuses) /\ Len(LostFrom(S)) = Len(log)
BY DEF LostFrom, Stretches, Statuses

(* One operation joins the log.                                              *)
LEMMA Queued1 ==
  ASSUME Stretches, NEW e \in Entries, NEW s \in Statuses,
         log' = Append(log, e), status' = Append(status, s)
  PROVE  /\ log' \in Seq(Entries) /\ status' \in Seq(Statuses)
         /\ Len(log') = Len(log) + 1 /\ Len(status') = Len(log')
         /\ \A i \in 1..Len(log) : log'[i] = log[i]
BY DEF Stretches

(* A barrier is an entry of the log.                                        *)
LEMMA NewBarrierType == Flags => NewBarrier \in Entries
BY DEF Flags, NewBarrier, Entries

-----------------------------------------------------------------------------
(* The steps, with their counterparts in SessionLog.                         *)

(* A write is queued.                                                        *)
LEMMA PushStep ==
  ASSUME IInv, NEW p \in Producers, NEW op \in Ops, Push(p, op)
  PROVE  IInv' /\ \E e \in Entries : Log!Accept(e)
<1> DEFINE e == [kind |-> op.kind, path |-> op.path, boot |-> boot]
<1>1. e \in Entries BY DEF IInv, Flags, Ops, Entries
<1>2. log' = Append(log, e) /\ status' = Append(status, "queued")
      /\ UNCHANGED <<writerVars, boot, life>> /\ life # "dead"
  BY DEF Push
<1>3. IInv'
  <2>1. Stretches' BY <1>1, <1>2, Queued1 DEF IInv, Stretches, Statuses
  <2>2. Gathered' BY <1>1, <1>2, Queued1 DEF IInv, Stretches, Gathered, PendingPath, Statuses
  <2> QED BY <1>2, <2>1, <2>2 DEF IInv, Flags, IdleIsDone, DeadIsDone
<1>4. Log!Accept(e) BY <1>2 DEF Log!Accept
<1> QED BY <1>1, <1>3, <1>4

(* A barrier is queued behind the writes.                                   *)
LEMMA BarrierQueuedStep ==
  ASSUME IInv, BarrierQueued
  PROVE  IInv' /\ \E e \in Entries : Log!Accept(e)
<1>1. NewBarrier \in Entries BY NewBarrierType DEF IInv
<1>2. log' = Append(log, NewBarrier) /\ status' = Append(status, "queued")
      /\ UNCHANGED <<writerVars, boot, life>> /\ life # "dead"
  BY DEF BarrierQueued
<1>3. IInv'
  <2>1. Stretches' BY <1>1, <1>2, Queued1 DEF IInv, Stretches, Statuses
  <2>2. Gathered' BY <1>1, <1>2, Queued1 DEF IInv, Stretches, Gathered, PendingPath, Statuses
  <2> QED BY <1>2, <2>1, <2>2 DEF IInv, Flags, IdleIsDone, DeadIsDone
<1>4. Log!Accept(NewBarrier) BY <1>2 DEF Log!Accept
<1> QED BY <1>1, <1>3, <1>4

(* A barrier is answered at once.                                            *)
LEMMA BarrierNowStep ==
  ASSUME IInv, BarrierNow
  PROVE  IInv' /\ \E e \in Entries : Log!AnswerNow(e)
<1>1. NewBarrier \in Entries BY NewBarrierType DEF IInv
<1>2. /\ flushed = Len(log) /\ cur = Len(log) /\ taken = Len(log)
      /\ ~outError /\ life # "dead"
  BY DEF BarrierNow, QueueEmpty, IInv, Stretches, IdleIsDone
<1>3. IInv'
  <2>1. Stretches' BY <1>1, <1>2, Queued1 DEF BarrierNow, IInv, Stretches, Statuses
  <2>2. Gathered' BY <1>2 DEF BarrierNow, Gathered, IInv, Stretches
  <2> QED BY <1>2, <2>1, <2>2 DEF BarrierNow, IInv, Flags, IdleIsDone, DeadIsDone
<1>4. Log!AnswerNow(NewBarrier)
  BY <1>2 DEF BarrierNow, Log!AnswerNow, Log!Verdict, NewBarrier
<1> QED BY <1>1, <1>3, <1>4

(* A barrier a dead writer gets is refused.                                 *)
LEMMA BarrierDeadStep ==
  ASSUME IInv, BarrierDead
  PROVE  IInv' /\ \E e \in Entries : Log!Refuse(e)
<1>1. NewBarrier \in Entries BY NewBarrierType DEF IInv
<1>2. flushed = Len(log) /\ cur = Len(log) /\ taken = Len(log) /\ ~busy /\ ~outError
  BY DEF BarrierDead, IInv, Stretches, DeadIsDone, IdleIsDone
<1>3. IInv'
  <2>1. Stretches' BY <1>1, <1>2, Queued1 DEF BarrierDead, IInv, Stretches, Statuses
  <2>2. Gathered' BY <1>2 DEF BarrierDead, Gathered, IInv, Stretches
  <2>3. Len(log') = Len(log) + 1 BY <1>1, Queued1 DEF BarrierDead, IInv, Statuses
  <2> QED BY <1>2, <2>1, <2>2, <2>3 DEF BarrierDead, IInv, Flags, IdleIsDone, DeadIsDone
<1>4. Log!Refuse(NewBarrier) BY DEF BarrierDead, Log!Refuse, NewBarrier
<1> QED BY <1>1, <1>3, <1>4

(* Gathered lines reach the file, or fail, together.                         *)
LEMMA FlushStep ==
  ASSUME IInv, FlushSucceeds \/ FlushFails
  PROVE  IInv' /\ \E last \in (flushed + 1)..Len(log), result \in {"written", "failed"} :
                     Log!Settle(last, result)
<1> USE DEF IInv
<1>1. PICK result \in {"written", "failed"} :
        /\ SettleAs(cur, result) /\ flushed' = cur
        /\ (outError' = outError /\ result = "written") \/ (outError' = TRUE /\ result = "failed")
        /\ UNCHANGED <<log, cur, taken, busy, error, boot, life>>
  BY DEF FlushSucceeds, FlushFails
<1>2. life # "dead" /\ flushed # cur /\ busy
  <2>1. Running /\ ~NothingPending BY DEF FlushSucceeds, FlushFails, FlushDue
  <2> QED BY <2>1 DEF Running, NothingPending, IdleIsDone, Stretches
<1>3. IInv'
  <2>1. Stretches' BY <1>1, SettledStatus DEF Stretches, Statuses
  <2>2. Gathered' BY <1>1 DEF Gathered, Stretches
  <2>3. Flags' /\ IdleIsDone' /\ DeadIsDone' BY <1>1, <1>2 DEF Flags, IdleIsDone, DeadIsDone
  <2> QED BY <2>1, <2>2, <2>3
<1>4. Log!Settle(cur, result)
  BY <1>1, <1>2 DEF Log!Settle, Log!IsWrite, Log!Writes, SettleAs, Gathered, Flags
<1>5. cur \in (flushed + 1)..Len(log) BY <1>2 DEF Stretches
<1> QED BY <1>1, <1>3, <1>4, <1>5

(* A replacement.                                                            *)
LEMMA ReplaceStep ==
  ASSUME IInv, ReplaceSucceeds \/ ReplaceFails
  PROVE  IInv' /\ \E last \in (flushed + 1)..Len(log), result \in {"written", "failed"} :
                     Log!Settle(last, result)
<1> USE DEF IInv
<1>1. PICK result \in {"written", "failed"} :
        /\ SettleAs(cur + 1, result)
        /\ outError' = FALSE
        /\ \/ error' = (error \/ outError) /\ result = "written"
           \/ error' = TRUE /\ result = "failed"
        /\ UNCHANGED <<log, taken, busy, boot, life>>
  BY DEF ReplaceSucceeds, ReplaceFails
<1>2. /\ life # "dead" /\ busy /\ flushed = cur /\ cur < taken
      /\ log[cur + 1].kind = "replace"
      /\ cur' = cur + 1 /\ flushed' = flushed + 1
  BY DEF ReplaceSucceeds, ReplaceFails, NextIs, NothingPending, Advance, Running
<1>3. IInv'
  <2>1. Stretches' BY <1>1, <1>2, SettledStatus DEF Stretches, Statuses
  <2>2. Gathered' BY <1>2 DEF Gathered, Stretches
  <2>3. Flags' /\ IdleIsDone' /\ DeadIsDone' BY <1>1, <1>2 DEF Flags, IdleIsDone, DeadIsDone
  <2> QED BY <2>1, <2>2, <2>3
<1>4. Log!Settle(cur + 1, result)
  BY <1>1, <1>2 DEF Log!Settle, Log!IsWrite, Log!Writes, SettleAs, Flags, Stretches
<1>5. cur + 1 \in (flushed + 1)..Len(log) BY <1>2 DEF Stretches
<1> QED BY <1>1, <1>3, <1>4, <1>5

(* A barrier of the batch is answered.                                       *)
LEMMA AnswerBarrierStep ==
  ASSUME IInv, AnswerBarrier PROVE IInv' /\ Log!Answer
<1> USE DEF IInv
<1>1. /\ life # "dead" /\ busy /\ flushed = cur /\ cur < taken
      /\ log[cur + 1].kind = "barrier"
      /\ cur' = cur + 1 /\ flushed' = flushed + 1
      /\ error' = FALSE /\ outError' = FALSE
      /\ status' = [status EXCEPT ![cur + 1] = Verdict]
      /\ UNCHANGED <<log, taken, busy, boot, life>>
  BY DEF AnswerBarrier, NextIs, NothingPending, Advance, Running
<1>2. IInv'
  <2>1. Stretches' BY <1>1 DEF Stretches, Statuses, Verdict
  <2>2. Gathered' BY <1>1 DEF Gathered, Stretches
  <2>3. Flags' /\ IdleIsDone' /\ DeadIsDone' BY <1>1 DEF Flags, IdleIsDone, DeadIsDone
  <2> QED BY <2>1, <2>2, <2>3
<1>3. Log!Answer
  BY <1>1 DEF Log!Answer, Log!IsWrite, Log!Writes, Log!Verdict, Verdict, Stretches
<1> QED BY <1>2, <1>3

(* The batch is taken, its lines are gathered, the error is published, the   *)
(* writer turns idle: nothing that SessionLog sees.                          *)
LEMMA BatchStep ==
  ASSUME IInv, TakeBatch \/ GatherLine \/ PublishError \/ EndBatch
  PROVE  IInv' /\ UNCHANGED Log!vars
<1> USE DEF IInv
<1>1. CASE TakeBatch
  BY <1>1 DEF TakeBatch, Running, Log!vars, Stretches, Flags, Gathered, IdleIsDone, DeadIsDone,
              PendingPath
<1>2. CASE GatherLine
  <2>1. Stretches' /\ Flags' /\ IdleIsDone' /\ DeadIsDone' /\ UNCHANGED Log!vars
    BY <1>2 DEF GatherLine, Running, Log!vars, Stretches, Flags, IdleIsDone, DeadIsDone
  <2>2. Gathered'
    BY <1>2 DEF GatherLine, Stretches, Gathered, PendingPath, Continues, NothingPending
  <2> QED BY <2>1, <2>2
<1>3. CASE PublishError
  BY <1>3 DEF PublishError, Running, NothingPending, Log!vars, Stretches, Flags, Gathered,
              IdleIsDone, DeadIsDone, PendingPath
<1>4. CASE EndBatch
  BY <1>4 DEF EndBatch, Running, NothingPending, Log!vars, Stretches, Flags, Gathered,
              IdleIsDone, DeadIsDone, PendingPath
<1> QED BY <1>1, <1>2, <1>3, <1>4

(* The thread dies: what it had taken is lost, queued barriers are told.     *)
LEMMA DieStep ==
  ASSUME IInv, Die
  PROVE  IInv' /\ \E told \in SUBSET ((flushed + 1)..Len(log)), alive \in BOOLEAN :
                     Log!Lose(told, alive)
<1> USE DEF IInv
<1> DEFINE told == {i \in (taken + 1)..Len(log) : ~IsWrite(i)}
<1>1. IInv'
  <2>1. Stretches' BY LostStatus DEF Die, DropAll, Stretches
  <2>2. Flags' BY DEF Die, Flags
  <2>3. Gathered' BY <2>1 DEF Die, DropAll, Gathered, Stretches
  <2>4. IdleIsDone' /\ DeadIsDone' BY DEF Die, DropAll, IdleIsDone, DeadIsDone
  <2> QED BY <2>1, <2>2, <2>3, <2>4
<1>2. told \in SUBSET ((flushed + 1)..Len(log)) BY DEF Stretches
<1>3. \A i \in told : ~Log!IsWrite(i) BY DEF Log!IsWrite, Log!Writes, IsWrite, Stretches, Entries
<1>4. Log!Lose(told, FALSE)
  BY <1>3 DEF Die, DropAll, Running, Log!Lose, LostFrom
<1> QED BY <1>1, <1>2, <1>4

(* The process ends and starts again: all that is not settled is lost; after *)
(* a dead writer there is nothing left to lose.                              *)
LEMMA CrashStep ==
  ASSUME IInv, Crash
  PROVE  /\ IInv'
         /\ \/ Log!Restart
            \/ \E told \in SUBSET ((flushed + 1)..Len(log)), alive \in BOOLEAN :
                 Log!Lose(told, alive)
<1> USE DEF IInv
<1>1. IInv'
  <2>1. Stretches' BY LostStatus DEF Crash, DropAll, Stretches
  <2>2. Flags'
    <3>1. boot' \in 1..MaxBoots BY SessionWriterAssumption DEF Crash, Flags
    <3> QED BY <3>1 DEF Crash, Flags
  <2>3. Gathered' BY <2>1 DEF Crash, DropAll, Gathered, Stretches
  <2>4. IdleIsDone' /\ DeadIsDone' BY DEF Crash, DropAll, IdleIsDone, DeadIsDone
  <2> QED BY <2>1, <2>2, <2>3, <2>4
<1>2. CASE life = "dead"
  <2>1. LostFrom({}) = status BY <1>2 DEF LostFrom, DeadIsDone, Stretches
  <2> QED BY <1>1, <1>2, <2>1 DEF Crash, DropAll, Log!Restart, DeadIsDone
<1>3. CASE life # "dead"
  <2>1. Log!Lose({}, TRUE) BY <1>3 DEF Crash, DropAll, Log!Lose, LostFrom
  <2> QED BY <1>1, <2>1
<1> QED BY <1>2, <1>3

(* Waiting, a discarded write and the drop of the writer.                    *)
LEMMA QuietStep ==
  ASSUME IInv,
         \/ \E p \in Producers, op \in Ops : PushDead(p, op) \/ WaitNotFull(p, op)
         \/ Close \/ UNCHANGED vars
  PROVE  IInv' /\ UNCHANGED Log!vars
BY SMTT(30) DEF PushDead, WaitNotFull, Close, vars, Log!vars, IInv, Stretches, Flags, Gathered,
       PendingPath, IdleIsDone, DeadIsDone

(* Every step keeps the invariant and is a step of SessionLog, or a stutter.*)
LEMMA StepIInv == IInv /\ [Next]_vars => IInv' /\ [Log!Next]_(Log!vars)
BY PushStep, BarrierQueuedStep, BarrierNowStep, BarrierDeadStep, FlushStep, ReplaceStep,
   AnswerBarrierStep, BatchStep, DieStep, CrashStep, QuietStep
   DEF Next, WriterStep, Queueing, Log!Next

-----------------------------------------------------------------------------
(* Torn lines.                                                               *)

(* A fresh file has no glued line, whatever else is in it.                   *)
LEMMA FreshUnglued ==
  /\ ~NoFile.glued
  /\ ~[NoFile EXCEPT !.there = TRUE].glued
  /\ \A torn : ~[NoFile EXCEPT !.there = TRUE, !.torn = torn].glued
  /\ \A lines : ~[NoFile EXCEPT !.there = TRUE, !.lines = lines].glued
<1>1. ~NoFile.glued BY DEF NoFile
<1>2. ~[NoFile EXCEPT !.there = TRUE].glued BY DEF NoFile
<1>3. ASSUME NEW torn PROVE ~[NoFile EXCEPT !.there = TRUE, !.torn = torn].glued BY DEF NoFile
<1>4. ASSUME NEW lines PROVE ~[NoFile EXCEPT !.there = TRUE, !.lines = lines].glued BY DEF NoFile
<1> QED BY <1>1, <1>2, <1>3, <1>4

(* Files may be torn at the start, none of them is glued.                   *)
LEMMA InitUnglued == Init => Unglued
<1> SUFFICES ASSUME Init PROVE Unglued OBVIOUS
<1>1. DOMAIN disk = Paths BY DEF Init
<1>2. ASSUME NEW path \in Paths PROVE ~disk[path].glued
  <2>1. disk[path] \in {NoFile, [NoFile EXCEPT !.there = TRUE],
                        [NoFile EXCEPT !.there = TRUE, !.torn = TRUE]}
    BY DEF Init
  <2> QED BY <2>1, FreshUnglued
<1>3. \A path \in Paths : open # path BY SessionWriterAssumption DEF Init
<1> QED BY <1>1, <1>2, <1>3 DEF Unglued

(* A write, complete or not, to a file that was left whole or is opened now. *)
LEMMA ExtendedUnglued ==
  ASSUME Unglued, NEW path \in Paths, NEW k, NEW torn \in BOOLEAN
  PROVE  /\ ~Extended(disk[path], NewlineFirst(path), k, torn).glued
         /\ Extended(disk[path], NewlineFirst(path), k, torn).torn = torn
<1>1. ~disk[path].glued /\ (disk[path].torn => NewlineFirst(path))
  BY DEF Unglued, NewlineFirst
<1> QED BY <1>1 DEF Extended

(* One file is written; what is left open afterwards is whole.               *)
LEMMA WrittenUnglued ==
  ASSUME Unglued, NEW path, NEW file,
         disk' = [disk EXCEPT ![path] = file],
         path \in Paths => ~file.glued,
         open' = NoPath \/ (open' = path /\ (path \in Paths => ~file.torn))
  PROVE  Unglued'
BY SessionWriterAssumption DEF Unglued

(* A write that stops short may leave a torn file, which is then closed.    *)
LEMMA ShortUnglued ==
  ASSUME Unglued, NEW path, WriteStopsShort(path), open' = NoPath PROVE Unglued'
<1>1. PICK k \in 0..(cur - flushed - 1), torn \in BOOLEAN :
        disk' = [disk EXCEPT ![path] = Extended(disk[path], NewlineFirst(path), k, torn)]
  BY DEF WriteStopsShort, Unglued
<1>2. path \in Paths => ~Extended(disk[path], NewlineFirst(path), k, torn).glued
  BY ExtendedUnglued
<1> QED BY <1>1, <1>2, WrittenUnglued

(* A complete write leaves the file whole.                                  *)
LEMMA WholeUnglued ==
  ASSUME Unglued, NEW path,
         disk' = [disk EXCEPT ![path] = Extended(@, NewlineFirst(path), cur - flushed, FALSE)],
         open' \in {NoPath, path}
  PROVE  Unglued'
<1> DEFINE file == Extended(disk[path], NewlineFirst(path), cur - flushed, FALSE)
<1>1. path \in Paths => ~file.glued /\ ~file.torn
  <2> HIDE DEF file
  <2> SUFFICES ASSUME path \in Paths PROVE ~file.glued /\ file.torn = FALSE OBVIOUS
  <2> QED BY ExtendedUnglued DEF file
<1>2. disk' = [disk EXCEPT ![path] = file] OBVIOUS
<1> HIDE DEF file
<1> QED BY <1>1, <1>2, WrittenUnglued

(* A file that is replaced starts afresh.                                   *)
LEMMA ReplacedUnglued ==
  ASSUME Unglued, NEW path, open' = NoPath,
         \/ disk' = [disk EXCEPT ![path] = Replaced]
         \/ ReplaceStopsShort(path)
  PROVE  Unglued'
<1>1. CASE disk' = [disk EXCEPT ![path] = Replaced]
  <2>1. ~Replaced.glued BY FreshUnglued DEF Replaced
  <2> QED BY <1>1, <2>1, WrittenUnglued
<1>2. CASE ReplaceStopsShort(path)
  <2>1. PICK torn \in BOOLEAN :
          disk' = [disk EXCEPT ![path] = [NoFile EXCEPT !.there = TRUE, !.torn = torn]]
    BY <1>2 DEF ReplaceStopsShort
  <2>2. ~[NoFile EXCEPT !.there = TRUE, !.torn = torn].glued BY FreshUnglued
  <2> QED BY <2>1, <2>2, WrittenUnglued
<1> QED BY <1>1, <1>2

(* No step glues two lines together.                                        *)
LEMMA StepUnglued == Unglued /\ [Next]_vars => Unglued'
<1> SUFFICES ASSUME Unglued, [Next]_vars PROVE Unglued' OBVIOUS
<1>1. CASE UNCHANGED <<disk, open>> BY <1>1 DEF Unglued
<1>2. CASE UNCHANGED disk /\ open' = NoPath BY <1>2, SessionWriterAssumption DEF Unglued
<1>3. CASE FlushSucceeds BY <1>3, WholeUnglued DEF FlushSucceeds
<1>4. CASE FlushFails BY <1>4, <1>2, ShortUnglued DEF FlushFails, HandleAfterError
<1>5. CASE ReplaceSucceeds BY <1>5, ReplacedUnglued DEF ReplaceSucceeds
<1>6. CASE ReplaceFails BY <1>6, <1>2, ReplacedUnglued DEF ReplaceFails
<1>7. CASE Crash
  <2>1. WriteCutShort /\ open' = NoPath BY <1>7 DEF Crash
  <2> QED BY <2>1, <1>2, ShortUnglued, WholeUnglued, ReplacedUnglued DEF WriteCutShort
<1>8. CASE Die BY <1>8, <1>2 DEF Die
<1>9. CASE TakeBatch \/ GatherLine \/ AnswerBarrier \/ PublishError \/ EndBatch
  BY <1>9, <1>1 DEF TakeBatch, GatherLine, AnswerBarrier, PublishError, EndBatch
<1>10. CASE BarrierDead \/ BarrierNow \/ BarrierQueued \/ Close \/ UNCHANGED vars
  BY <1>10, <1>1 DEF BarrierDead, BarrierNow, BarrierQueued, Close, vars
<1>11. CASE \E p \in Producers : Queueing(p)
  BY <1>11, <1>1 DEF Queueing, Push, PushDead, WaitNotFull
<1> QED BY <1>3, <1>4, <1>5, <1>6, <1>7, <1>8, <1>9, <1>10, <1>11 DEF Next, WriterStep

-----------------------------------------------------------------------------
(* The files and the queue.                                                  *)

OnDisk(path) == {disk[path].lines[k] : k \in DOMAIN disk[path].lines}

Increasing(lines) ==
  \A a, b \in DOMAIN lines : a < b /\ lines[b] # Junk => lines[a] < lines[b]

(* Only settled operations have reached a file, in their order.              *)
Horizon ==
  \A path \in Paths : /\ disk[path].lines \in Seq(Nat)
                      /\ \A n \in OnDisk(path) : n <= flushed
                      /\ Increasing(disk[path].lines)

(* What is settled has an outcome that fits its kind.  What is not was       *)
(* queued by this process, and it lost nothing while its writer lives.       *)
Outcomes ==
  \A i \in DOMAIN log :
    /\ status[i] = "queued" <=> i > flushed
    /\ status[i] \in {"written", "failed"} => IsWrite(i)
    /\ status[i] \in {"ok", "err"} => ~IsWrite(i)
    /\ log[i].boot <= boot
    /\ i > flushed => log[i].boot = boot
    /\ status[i] = "lost" /\ log[i].boot = boot => life = "dead"

(* A written operation is in its file until the next replacement.            *)
KeptIn(i) == i \in OnDisk(log[i].path) \/ ReplacedSince(i)

Kept == \A i \in DOMAIN log : status[i] = "written" => KeptIn(i)

(* No operation of a process is in a file ahead of an earlier line.          *)
Before(i, j) ==
  /\ i < j /\ log[i].boot = log[j].boot
  /\ log[i].kind = "append" /\ IsWrite(j) /\ log[i].path = log[j].path

InOrder ==
  \A i, j \in DOMAIN log :
    Before(i, j) /\ j \in OnDisk(log[j].path) => KeptIn(i) \/ status[i] = "failed"

FilesInv == Horizon /\ Outcomes /\ Kept /\ InOrder

(* Three sequences, one behind the other.                                    *)
Parts(q, s, t, u, m, n, l) ==
  /\ m <= n /\ Len(q) = n + l
  /\ \A a \in 1..m : q[a] = s[a]
  /\ \A a \in (m + 1)..n : q[a] = t[a - m]
  /\ \A a \in (n + 1)..(n + l) : q[a] = u[a - n]

(* What a sequence joined of three consists of.                              *)
LEMMA Joined ==
  ASSUME NEW S, NEW s \in Seq(S), NEW t \in Seq(S), NEW u \in Seq(S)
  PROVE  /\ (s \o t) \o u \in Seq(S)
         /\ Parts((s \o t) \o u, s, t, u, Len(s), Len(s) + Len(t), Len(u))
<1> DEFINE m == Len(s)
           n == Len(s) + Len(t)
<1>1. Len(s) \in Nat /\ Len(t) \in Nat /\ Len(u) \in Nat BY LenProperties
<1>2. /\ s \o t \in Seq(S) /\ Len(s \o t) = n
      /\ \A a \in 1..n : (s \o t)[a] = IF a <= m THEN s[a] ELSE t[a - m]
  BY ConcatProperties
<1>3. /\ (s \o t) \o u \in Seq(S) /\ Len((s \o t) \o u) = n + Len(u)
      /\ \A a \in 1..(n + Len(u)) :
           ((s \o t) \o u)[a] = IF a <= n THEN (s \o t)[a] ELSE u[a - n]
  BY <1>2, ConcatProperties
<1> DEFINE st == s \o t
           stu == (s \o t) \o u
           l == Len(u)
<1>6. m <= n /\ l \in Nat /\ m \in Nat /\ n \in Nat BY <1>1
<1> HIDE DEF st, stu, l, m, n
<1>4. \A a \in 1..n : st[a] = IF a <= m THEN s[a] ELSE t[a - m] BY <1>2 DEF st, m, n
<1>5. \A a \in 1..(n + l) : stu[a] = IF a <= n THEN st[a] ELSE u[a - n]
  BY <1>3 DEF st, stu, l, n
<1>7. ASSUME NEW a \in 1..m PROVE stu[a] = s[a] BY <1>4, <1>5, <1>6
<1>8. ASSUME NEW a \in (m + 1)..n PROVE stu[a] = t[a - m] BY <1>4, <1>5, <1>6
<1>9. ASSUME NEW a \in (n + 1)..(n + l) PROVE stu[a] = u[a - n] BY <1>4, <1>5, <1>6
<1>10. Len(stu) = n + l BY <1>3 DEF stu, n, l
<1>11. Parts(stu, s, t, u, m, n, l) BY <1>6, <1>7, <1>8, <1>9, <1>10 DEF Parts
<1> QED BY <1>3, <1>11 DEF stu, l, m, n

(* A file's lines after a write: the m lines there were, the remains of a    *)
(* torn one up to n, and k of the gathered lines.                            *)
Grown(lines, old, m, n, k) ==
  /\ m = Len(old) /\ m <= n
  /\ lines \in Seq(Nat) /\ Len(lines) = n + k
  /\ \A a \in 1..m : lines[a] = old[a]
  /\ \A a \in (m + 1)..n : lines[a] = Junk
  /\ \A a \in (n + 1)..(n + k) : lines[a] = flushed + (a - n)

(* The lines of a file that was written to.                                  *)
LEMMA ExtendedLines ==
  ASSUME Stretches, NEW f, f.lines \in Seq(Nat), NEW prefix \in BOOLEAN,
         NEW k \in 0..(cur - flushed), NEW torn
  PROVE  \E m, n \in Nat : Grown(Extended(f, prefix, k, torn).lines, f.lines, m, n, k)
<1> DEFINE junk == IF prefix THEN <<Junk>> ELSE <<>>
           more == SubSeq(Pending, 1, k)
           m == Len(f.lines)
           n == Len(f.lines) + Len(junk)
           lines == Extended(f, prefix, k, torn).lines
<1>1. lines = (f.lines \o junk) \o more BY DEF Extended
<1>2. m \in Nat /\ flushed \in Nat /\ cur \in Nat /\ k \in Nat
  BY LenProperties DEF Stretches
<1>3. junk \in Seq(Nat) /\ n \in Nat /\ \A a \in 1..(n - m) : junk[a] = Junk
  <2>1. CASE prefix BY <1>2, <2>1 DEF Junk
  <2>2. CASE ~prefix BY <1>2, <2>2
  <2> QED BY <2>1, <2>2
<1>4. more \in Seq(Nat) /\ Len(more) = k /\ \A a \in 1..k : more[a] = flushed + a
  <2>1. k \in Nat /\ k <= cur - flushed /\ flushed \in Nat /\ cur \in Nat BY DEF Stretches
  <2>2. \A a \in 1..k : Pending[a] = flushed + a BY <2>1 DEF Pending
  <2>3. \A a \in 1..k : Pending[a] \in Nat BY <2>1, <2>2
  <2> QED BY <2>1, <2>2, <2>3, SubSeqProperties
<1>5. m = Len(f.lines) /\ n = Len(f.lines) + Len(junk) OBVIOUS
<1> HIDE DEF junk, more, m, n, lines
<1>6. /\ lines \in Seq(Nat) /\ Len(lines) = n + k /\ m <= n
      /\ \A a \in 1..m : lines[a] = f.lines[a]
      /\ \A a \in (m + 1)..n : lines[a] = junk[a - m]
      /\ \A a \in (n + 1)..(n + k) : lines[a] = more[a - n]
  <2> DEFINE s == f.lines
  <2>1. s \in Seq(Nat) /\ lines = (s \o junk) \o more BY <1>1
  <2>2. m = Len(s) /\ n = Len(s) + Len(junk) /\ k = Len(more) BY <1>4, <1>5
  <2> HIDE DEF s
  <2>3. lines \in Seq(Nat) /\ Parts(lines, s, junk, more, Len(s), Len(s) + Len(junk), Len(more))
    BY <1>3, <1>4, <2>1, Joined
  <2>4. Parts(lines, s, junk, more, m, n, k) BY <2>2, <2>3
  <2> QED BY <2>3, <2>4 DEF Parts, s
<1>7. ASSUME NEW a \in (m + 1)..n PROVE lines[a] = Junk
  <2>1. a - m \in 1..(n - m) BY <1>2, <1>3
  <2> QED BY <1>3, <1>6, <2>1
<1>8. ASSUME NEW a \in (n + 1)..(n + k) PROVE lines[a] = flushed + (a - n)
  <2>1. a - n \in 1..k BY <1>2, <1>3
  <2> QED BY <1>4, <1>6, <2>1
<1>9. Grown(lines, f.lines, m, n, k) BY <1>5, <1>6, <1>7, <1>8 DEF Grown, m
<1> QED BY <1>2, <1>3, <1>9 DEF lines

(* A file gets the first k gathered lines, and perhaps the remains of a torn *)
(* one before them.                                                          *)
LEMMA LinesAdded ==
  ASSUME Stretches, Horizon, NEW path \in Paths, DOMAIN disk = Paths,
         NEW k \in 0..(cur - flushed), NEW torn \in BOOLEAN, NEW prefix \in BOOLEAN,
         disk' = [disk EXCEPT ![path] = Extended(disk[path], prefix, k, torn)],
         flushed' \in Nat, flushed + k <= flushed'
  PROVE  /\ Horizon'
         /\ \A i \in Nat : i \in OnDisk(path)' /\ i # Junk
                             => i \in OnDisk(path) \/ i \in (flushed + 1)..(flushed + k)
         /\ OnDisk(path) \subseteq OnDisk(path)'
         /\ (flushed + 1)..(flushed + k) \subseteq OnDisk(path)'
         /\ \A other \in Paths \ {path} : OnDisk(other)' = OnDisk(other)
<1> DEFINE f == disk[path]
           lines == disk[path].lines'
<1>1. disk'[path] = Extended(f, prefix, k, torn) /\ f.lines \in Seq(Nat) BY DEF Horizon
<1>2. PICK m, pre \in Nat : Grown(lines, f.lines, m, pre, k)
  <2>1. lines = Extended(f, prefix, k, torn).lines BY <1>1
  <2> HIDE DEF f, lines
  <2> QED BY <1>1, <2>1, ExtendedLines
<1>3. /\ flushed \in Nat /\ k \in Nat /\ DOMAIN f.lines = 1..m /\ DOMAIN lines = 1..(pre + k)
      /\ \A a \in 1..m : f.lines[a] \in Nat /\ f.lines[a] <= flushed
  <2>1. flushed \in Nat /\ k \in Nat BY DEF Stretches
  <2>2. DOMAIN f.lines = 1..m /\ DOMAIN lines = 1..(pre + k) BY <1>1, <1>2, LenProperties DEF Grown
  <2>3. ASSUME NEW a \in 1..m PROVE f.lines[a] \in Nat /\ f.lines[a] <= flushed
    <3>1. f.lines[a] \in OnDisk(path) BY <2>2 DEF OnDisk
    <3> QED BY <1>1, <2>2, <3>1, ElementOfSeq DEF Horizon
  <2> QED BY <2>1, <2>2, <2>3
<1>4. OnDisk(path)' = {lines[a] : a \in 1..(pre + k)} BY <1>3 DEF OnDisk
<1>5. OnDisk(path) = {f.lines[a] : a \in 1..m} BY <1>3 DEF OnDisk
<1>6. \A other \in Paths \ {path} : disk'[other] = disk[other] OBVIOUS
<1> HIDE DEF f, lines
<1>7. \A a \in 1..(pre + k) : \/ a \in 1..m
                              \/ a \in (m + 1)..pre
                              \/ a \in (pre + 1)..(pre + k)
  BY <1>2, <1>3 DEF Grown
<1>8. ASSUME NEW i \in Nat, i \in OnDisk(path)', i # Junk
      PROVE  i \in OnDisk(path) \/ i \in (flushed + 1)..(flushed + k)
  <2>1. PICK a \in 1..(pre + k) : i = lines[a] BY <1>4, <1>8
  <2>2. CASE a \in 1..m
    <3>1. lines[a] = f.lines[a] BY <1>2, <2>2 DEF Grown
    <3> QED BY <1>5, <2>1, <2>2, <3>1
  <2>3. CASE a \in (m + 1)..pre
    <3>1. lines[a] = Junk BY <1>2, <2>3 DEF Grown
    <3> QED BY <1>8, <2>1, <3>1
  <2>4. CASE a \in (pre + 1)..(pre + k)
    <3>1. i = flushed + (a - pre) BY <1>2, <2>1, <2>4 DEF Grown
    <3> QED BY <1>3, <2>4, <3>1
  <2> QED BY <1>7, <2>2, <2>3, <2>4
<1>9. OnDisk(path) \subseteq OnDisk(path)' BY <1>2, <1>3, <1>4, <1>5, SMTT(30) DEF Grown
<1>10. ASSUME NEW i \in (flushed + 1)..(flushed + k) PROVE i \in OnDisk(path)'
  <2>1. pre + (i - flushed) \in (pre + 1)..(pre + k) BY <1>3
  <2>2. lines[pre + (i - flushed)] = i BY <1>2, <1>3, <2>1 DEF Grown
  <2>3. pre + (i - flushed) \in 1..(pre + k) BY <1>2, <2>1 DEF Grown
  <2> QED BY <1>4, <2>2, <2>3
<1>11. Increasing(lines)
  <2> SUFFICES ASSUME NEW a \in 1..(pre + k), NEW b \in 1..(pre + k), a < b, lines[b] # Junk
               PROVE  lines[a] < lines[b]
    BY <1>3 DEF Increasing
  <2>1. b \notin (m + 1)..pre BY <1>2 DEF Grown
  <2>2. CASE b \in 1..m
    <3>1. a \in 1..m BY <1>2, <1>3, <2>2 DEF Grown
    <3>2. Increasing(f.lines) BY DEF Horizon, f
    <3> QED BY <1>2, <1>3, <2>2, <3>1, <3>2 DEF Increasing, Grown
  <2>3. CASE b \in (pre + 1)..(pre + k)
    <3>1. lines[b] = flushed + (b - pre) BY <1>2, <2>3 DEF Grown
    <3>2. CASE a \in 1..m
      <4>1. lines[a] \in Nat /\ lines[a] <= flushed BY <1>2, <1>3, <3>2 DEF Grown
      <4> QED BY <1>2, <1>3, <2>3, <3>1, <4>1 DEF Grown
    <3>3. CASE a \in (m + 1)..pre
      <4>1. lines[a] = 0 BY <1>2, <3>3 DEF Junk, Grown
      <4> QED BY <1>2, <1>3, <2>3, <3>1, <4>1 DEF Grown
    <3>4. CASE a \in (pre + 1)..(pre + k)
      <4>1. lines[a] = flushed + (a - pre) BY <1>2, <3>4 DEF Grown
      <4> QED BY <1>2, <1>3, <2>3, <3>1, <3>4, <4>1 DEF Grown
    <3> QED BY <1>7, <3>2, <3>3, <3>4
  <2> QED BY <1>7, <2>1, <2>2, <2>3
<1>12. \A n \in OnDisk(path)' : n <= flushed'
  <2> SUFFICES ASSUME NEW n \in OnDisk(path)' PROVE n <= flushed' OBVIOUS
  <2>1. n \in Nat BY <1>2, <1>3, <1>4 DEF Grown
  <2>2. CASE n = Junk BY <2>2 DEF Junk
  <2>3. CASE n # Junk
    <3>1. n \in OnDisk(path) \/ n \in (flushed + 1)..(flushed + k) BY <1>8, <2>1, <2>3
    <3> QED BY <1>3, <2>1, <3>1 DEF Horizon
  <2> QED BY <2>2, <2>3
<1>13. Horizon'
  <2>1. ASSUME NEW other \in Paths \ {path}
        PROVE  /\ disk[other].lines' \in Seq(Nat) /\ \A n \in OnDisk(other)' : n <= flushed'
               /\ Increasing(disk[other].lines)'
    <3>1. OnDisk(other)' = OnDisk(other) /\ disk[other].lines' = disk[other].lines
      BY <1>6 DEF OnDisk
    <3>2. \A n \in OnDisk(other) : n \in Nat /\ n <= flushed BY DEF Horizon, OnDisk
    <3> QED BY <1>3, <3>1, <3>2 DEF Horizon, Increasing
  <2>2. /\ disk[path].lines' \in Seq(Nat) /\ Increasing(disk[path].lines)'
    BY <1>2, <1>11 DEF lines, Increasing, Grown
  <2> QED BY <1>12, <2>1, <2>2 DEF Horizon
<1> QED BY <1>6, <1>8, <1>9, <1>10, <1>13 DEF OnDisk

(* The log only grows, and what is settled keeps its outcome.                *)
Grows ==
  /\ Len(log) <= Len(log') /\ flushed <= flushed'
  /\ \A i \in 1..Len(log) : log'[i] = log[i] /\ (i <= flushed => status'[i] = status[i])

(* A replacement that is over stays over.                                    *)
LEMMA ReplacedStays ==
  ASSUME Stretches, Stretches', Outcomes, Grows, NEW i \in 1..Len(log), ReplacedSince(i)
  PROVE  ReplacedSince(i)'
<1>1. PICK j \in (i + 1)..Len(log) :
        log[j].kind = "replace" /\ log[j].path = log[i].path /\ status[j] # "queued"
  BY DEF ReplacedSince
<1>2. Len(log) \in Nat /\ Len(log') \in Nat /\ j \in 1..Len(log) /\ j \in (i + 1)..Len(log')
  BY DEF Stretches, Grows
<1>3. j <= flushed
  <2>1. DOMAIN log = 1..Len(log) /\ j \in Nat /\ flushed \in Nat BY <1>2 DEF Stretches
  <2> QED BY <1>1, <1>2, <2>1 DEF Outcomes
<1>4. log'[j] = log[j] /\ log'[i] = log[i] /\ status'[j] = status[j] BY <1>2, <1>3 DEF Grows
<1> QED BY <1>1, <1>2, <1>4 DEF ReplacedSince

(* A line that is settled was written, failed, or was lost.                  *)
LEMMA SettledLine ==
  ASSUME Stretches, Outcomes, NEW i \in DOMAIN log, i <= flushed, log[i].kind = "append"
  PROVE  status[i] \in {"written", "failed", "lost"}
<1>1. status[i] \in Statuses /\ i \in Nat /\ flushed \in Nat BY DEF Stretches
<1> QED BY <1>1 DEF Statuses, Outcomes, IsWrite

(* A step that touches no file and writes nothing.                           *)
LEMMA QuietFiles ==
  ASSUME Stretches, Stretches', FilesInv, Grows, Outcomes', UNCHANGED disk,
         \A i \in DOMAIN log' : i > flushed => status'[i] # "written"
  PROVE  FilesInv'
<1>0. /\ DOMAIN log = 1..Len(log) /\ DOMAIN log' = 1..Len(log')
      /\ Len(log) \in Nat /\ Len(log') \in Nat
      /\ flushed \in Nat /\ flushed' \in Nat /\ flushed <= flushed' /\ flushed <= Len(log)
  BY DEF Stretches, Grows
<1>1. \A path : OnDisk(path)' = OnDisk(path) BY DEF OnDisk
<1>2. Horizon'
  <2>1. \A path \in Paths : \A n \in OnDisk(path) : n \in Nat /\ n <= flushed
    BY DEF FilesInv, Horizon, OnDisk
  <2> QED BY <1>0, <1>1, <2>1 DEF FilesInv, Horizon, Increasing
<1>3. ASSUME NEW i \in DOMAIN log', i <= flushed
      PROVE  /\ i \in DOMAIN log /\ log'[i] = log[i] /\ status'[i] = status[i]
             /\ KeptIn(i) => KeptIn(i)'
  <2>1. i \in 1..Len(log) BY <1>0, <1>3
  <2>2. log'[i] = log[i] /\ status'[i] = status[i] BY <1>3, <2>1 DEF Grows
  <2>3. ReplacedSince(i) => ReplacedSince(i)' BY <2>1, ReplacedStays DEF FilesInv
  <2> QED BY <1>0, <1>1, <2>1, <2>2, <2>3 DEF KeptIn
<1>4. Kept'
  <2> SUFFICES ASSUME NEW i \in DOMAIN log', status'[i] = "written" PROVE KeptIn(i)'
    BY DEF Kept
  <2>1. i <= flushed BY <1>0
  <2> QED BY <1>3, <2>1 DEF FilesInv, Kept
<1>5. InOrder'
  <2> SUFFICES ASSUME NEW i \in DOMAIN log', NEW j \in DOMAIN log', Before(i, j)',
                      j \in OnDisk(log[j].path)'
               PROVE  KeptIn(i)' \/ status'[i] = "failed"
    BY DEF InOrder
  <2>1. log'[j].path \in Paths BY DEF Stretches, Entries, Before, IsWrite
  <2>2. j <= flushed BY <1>1, <2>1 DEF FilesInv, Horizon
  <2>3. i <= flushed BY <1>0, <2>2 DEF Before
  <2>4. Before(i, j) BY <1>3, <2>2, <2>3 DEF Before, IsWrite
  <2>5. j \in OnDisk(log[j].path) BY <1>1, <1>3, <2>2
  <2> QED BY <1>3, <2>2, <2>3, <2>4, <2>5 DEF FilesInv, InOrder
<1> QED BY <1>2, <1>4, <1>5 DEF FilesInv

(* Gathered lines reach their file, the first k of them; nothing else is     *)
(* written.                                                                  *)
LEMMA AppendedFiles ==
  ASSUME IInv, Stretches', FilesInv, Grows, Outcomes', UNCHANGED log, life # "dead",
         DOMAIN disk = Paths, flushed # cur, NEW path, path = PendingPath,
         NEW k \in 0..(cur - flushed), NEW torn \in BOOLEAN,
         disk' = [disk EXCEPT ![path] = Extended(disk[path], NewlineFirst(path), k, torn)],
         flushed + k <= flushed',
         \A i \in DOMAIN log : status'[i] = "written" /\ i > flushed => i <= flushed + k
  PROVE  FilesInv'
<1>0. /\ DOMAIN log = 1..Len(log) /\ Len(log) \in Nat /\ k \in Nat
      /\ flushed \in Nat /\ cur \in Nat /\ flushed' \in Nat
      /\ flushed <= cur /\ cur <= Len(log) /\ k <= cur - flushed
  BY DEF IInv, Stretches
<1>1. path \in Paths
  <2>1. cur \in (flushed + 1)..cur /\ cur \in 1..Len(log) BY <1>0
  <2>2. log[cur].kind = "append" /\ log[cur] \in Entries
    BY <2>1 DEF IInv, Gathered, Stretches
  <2> QED BY <2>2 DEF PendingPath, Entries
<1>2. NewlineFirst(path) \in BOOLEAN BY DEF NewlineFirst
<1>3. /\ Horizon'
      /\ \A i \in Nat : i \in OnDisk(path)' /\ i # Junk
                => i \in OnDisk(path) \/ i \in (flushed + 1)..(flushed + k)
      /\ OnDisk(path) \subseteq OnDisk(path)'
      /\ (flushed + 1)..(flushed + k) \subseteq OnDisk(path)'
      /\ \A other \in Paths \ {path} : OnDisk(other)' = OnDisk(other)
  <2>1. Stretches /\ Horizon BY DEF IInv, FilesInv
  <2> QED BY <1>0, <1>1, <1>2, <2>1, LinesAdded
<1>4. \A i \in DOMAIN log : log[i].kind = "append" => log[i].path \in Paths
  BY DEF IInv, Stretches, Entries
<1>5. ASSUME NEW i \in DOMAIN log, log[i].path \in Paths, KeptIn(i) PROVE KeptIn(i)'
  <2>1. ReplacedSince(i) => ReplacedSince(i)' BY <1>0, ReplacedStays DEF IInv, FilesInv
  <2>2. OnDisk(log[i].path) \subseteq OnDisk(log[i].path)' BY <1>3, <1>5
  <2> QED BY <1>5, <2>1, <2>2 DEF KeptIn
<1>6. ASSUME NEW i \in (flushed + 1)..(flushed + k)
      PROVE  i \in DOMAIN log /\ log[i].kind = "append" /\ log[i].path = path /\ KeptIn(i)'
  <2>1. i \in (flushed + 1)..cur /\ i \in 1..Len(log) BY <1>0
  <2>2. log[i].kind = "append" /\ log[i].path = path BY <2>1 DEF IInv, Gathered
  <2> QED BY <1>0, <1>3, <2>1, <2>2 DEF KeptIn
<1>7. Kept'
  <2> SUFFICES ASSUME NEW i \in DOMAIN log, status'[i] = "written" PROVE KeptIn(i)'
    BY DEF Kept
  <2>1. CASE i <= flushed
    <3>1. status[i] = "written" BY <1>0, <2>1 DEF Grows
    <3>2. KeptIn(i) /\ IsWrite(i) BY <3>1 DEF FilesInv, Kept, Outcomes
    <3>3. log[i].path \in Paths BY <3>2 DEF IInv, Stretches, Entries, IsWrite
    <3> QED BY <1>5, <3>2, <3>3
  <2>2. CASE i > flushed
    <3>1. i \in (flushed + 1)..(flushed + k) BY <1>0, <2>2
    <3> QED BY <1>6, <3>1
  <2> QED BY <1>0, <2>1, <2>2
<1>8. InOrder'
  <2> SUFFICES ASSUME NEW i \in DOMAIN log, NEW j \in DOMAIN log, Before(i, j),
                      j \in OnDisk(log[j].path)'
               PROVE  KeptIn(i)' \/ status'[i] = "failed"
    BY DEF InOrder, Before, IsWrite
  <2>0. i \in Nat /\ j \in Nat /\ j # Junk /\ i < j /\ log[i].kind = "append"
        /\ log[i].path = log[j].path /\ log[i].path \in Paths /\ log[i].boot = log[j].boot
    BY <1>0, <1>4 DEF Before, Junk
  <2>1. CASE j \in OnDisk(log[j].path)
    <3>1. j <= flushed BY <2>0, <2>1 DEF FilesInv, Horizon
    <3>2. i <= flushed BY <1>0, <2>0, <3>1
    <3>3. status'[i] = status[i] BY <1>0, <3>2 DEF Grows
    <3>4. KeptIn(i) \/ status[i] = "failed" BY <2>1 DEF FilesInv, InOrder
    <3> QED BY <1>5, <2>0, <3>3, <3>4
  <2>2. CASE j \notin OnDisk(log[j].path)
    <3>1. log[j].path = path /\ j \in (flushed + 1)..(flushed + k)
      BY <1>3, <2>0, <2>2
    <3>2. CASE i > flushed
      <4>1. i \in (flushed + 1)..(flushed + k) BY <1>0, <2>0, <3>1, <3>2
      <4> QED BY <1>6, <4>1
    <3>3. CASE i <= flushed
      <4>1. status[i] \in {"written", "failed", "lost"}
        BY <2>0, <3>3, SettledLine DEF IInv, FilesInv
      <4>2. j > flushed BY <1>0, <3>1
      <4>3. status[i] # "lost" BY <2>0, <4>2 DEF FilesInv, Outcomes
      <4>4. status'[i] = status[i] BY <1>0, <3>3 DEF Grows
      <4>5. status[i] = "written" => KeptIn(i)' BY <1>5, <2>0 DEF FilesInv, Kept
      <4> QED BY <4>1, <4>3, <4>4, <4>5
    <3> QED BY <1>0, <2>0, <3>2, <3>3
  <2> QED BY <2>1, <2>2
<1> QED BY <1>3, <1>7, <1>8 DEF FilesInv

(* A whole file is written, cut short, or not yet begun; the lines before it *)
(* are replaced by what it holds.                                            *)
LEMMA ReplacedFiles ==
  ASSUME IInv, Stretches', FilesInv, Grows, Outcomes', UNCHANGED log,
         DOMAIN disk = Paths, flushed = cur, cur < taken, log[cur + 1].kind = "replace",
         NEW path, path = log[cur + 1].path,
         NEW file, disk' = [disk EXCEPT ![path] = file],
         file.lines \in {<<>>, <<cur + 1>>}, flushed < flushed',
         \A i \in DOMAIN log : status'[i] = "written" /\ i > flushed =>
                                 i = cur + 1 /\ file.lines = <<cur + 1>>
  PROVE  FilesInv'
<1>0. /\ DOMAIN log = 1..Len(log) /\ Len(log) \in Nat
      /\ flushed \in Nat /\ cur \in Nat /\ flushed' \in Nat /\ cur + 1 \in DOMAIN log
      /\ cur + 1 <= flushed'
  BY DEF IInv, Stretches
<1>1. path \in Paths
  <2>1. log[cur + 1] \in Entries BY <1>0 DEF IInv, Stretches
  <2> QED BY <2>1 DEF Entries
<1>2. disk'[path] = file /\ \A other \in Paths \ {path} : disk'[other] = disk[other]
  BY <1>1
<1>3. /\ OnDisk(path)' \subseteq {cur + 1}
      /\ file.lines = <<cur + 1>> => cur + 1 \in OnDisk(path)'
      /\ \A other \in Paths \ {path} : OnDisk(other)' = OnDisk(other)
  BY <1>2 DEF OnDisk
<1>4. status'[cur + 1] # "queued"
  BY <1>0 DEF Outcomes
<1>5. ASSUME NEW i \in DOMAIN log, i <= flushed, log[i].path = path PROVE ReplacedSince(i)'
  <2>1. cur + 1 \in (i + 1)..Len(log) BY <1>0, <1>5
  <2> QED BY <1>4, <1>5, <2>1 DEF ReplacedSince
<1>6. ASSUME NEW i \in DOMAIN log, i <= flushed, log[i].path \in Paths, KeptIn(i) PROVE KeptIn(i)'
  <2>1. ReplacedSince(i) => ReplacedSince(i)' BY <1>0, ReplacedStays DEF IInv, FilesInv
  <2> QED BY <1>3, <1>5, <1>6, <2>1 DEF KeptIn
<1>7. Horizon'
  <2>1. ASSUME NEW other \in Paths \ {path}
        PROVE  /\ disk[other].lines' \in Seq(Nat) /\ \A n \in OnDisk(other)' : n <= flushed'
               /\ Increasing(disk[other].lines)'
    <3>1. OnDisk(other)' = OnDisk(other) /\ disk[other].lines' = disk[other].lines
      BY <1>2, <1>3
    <3>2. \A n \in OnDisk(other) : n \in Nat /\ n <= flushed BY DEF FilesInv, Horizon, OnDisk
    <3> QED BY <1>0, <3>1, <3>2 DEF FilesInv, Horizon, Increasing
  <2>2. disk[path].lines' \in Seq(Nat) /\ Increasing(disk[path].lines)'
    <3>1. disk[path].lines' = file.lines BY <1>2
    <3>2. <<>> \in Seq(Nat) /\ Increasing(<<>>) BY DEF Increasing
    <3>3. <<cur + 1>> \in Seq(Nat) /\ Increasing(<<cur + 1>>)
      <4>1. Len(<<cur + 1>>) = 1 /\ <<cur + 1>> \in Seq(Nat) BY <1>0
      <4>2. DOMAIN <<cur + 1>> = 1..1 BY <4>1
      <4>3. \A a, b \in 1..1 : ~(a < b) OBVIOUS
      <4> QED BY <4>1, <4>2, <4>3 DEF Increasing
    <3>4. file.lines \in Seq(Nat) /\ Increasing(file.lines) BY <3>2, <3>3
    <3> QED BY <3>1, <3>4 DEF Increasing
  <2>3. \A n \in OnDisk(path)' : n <= flushed' BY <1>0, <1>3
  <2> QED BY <2>1, <2>2, <2>3 DEF Horizon
<1>8. Kept'
  <2> SUFFICES ASSUME NEW i \in DOMAIN log, status'[i] = "written" PROVE KeptIn(i)'
    BY DEF Kept
  <2>1. CASE i <= flushed
    <3>1. status[i] = "written" BY <1>0, <2>1 DEF Grows
    <3>2. KeptIn(i) /\ IsWrite(i) BY <3>1 DEF FilesInv, Kept, Outcomes
    <3>3. log[i].path \in Paths BY <3>2 DEF IInv, Stretches, Entries, IsWrite
    <3> QED BY <1>6, <2>1, <3>2, <3>3
  <2>2. CASE i > flushed
    <3>1. i = cur + 1 /\ cur + 1 \in OnDisk(path)' BY <1>3, <2>2
    <3> QED BY <3>1 DEF KeptIn
  <2> QED BY <1>0, <2>1, <2>2
<1>9. InOrder'
  <2> SUFFICES ASSUME NEW i \in DOMAIN log, NEW j \in DOMAIN log, Before(i, j),
                      j \in OnDisk(log[j].path)'
               PROVE  KeptIn(i)' \/ status'[i] = "failed"
    BY DEF InOrder, Before, IsWrite
  <2>0. i \in Nat /\ j \in Nat /\ i < j /\ log[i].path = log[j].path /\ log[i].path \in Paths
    BY <1>0 DEF Before, IInv, Stretches, Entries
  <2>1. CASE log[j].path = path
    <3>1. j = cur + 1 BY <1>3, <2>1
    <3>2. i <= flushed BY <1>0, <2>0, <3>1
    <3> QED BY <1>5, <2>0, <2>1, <3>2 DEF KeptIn
  <2>2. CASE log[j].path # path
    <3>1. j \in OnDisk(log[j].path) BY <1>3, <2>0, <2>2
    <3>2. j <= flushed BY <2>0, <3>1 DEF FilesInv, Horizon
    <3>3. i <= flushed BY <1>0, <2>0, <3>2
    <3>4. status'[i] = status[i] BY <1>0, <3>3 DEF Grows
    <3>5. KeptIn(i) \/ status[i] = "failed" BY <3>1 DEF FilesInv, InOrder
    <3> QED BY <1>6, <2>0, <3>3, <3>4, <3>5
  <2> QED BY <2>1, <2>2
<1> QED BY <1>7, <1>8, <1>9 DEF FilesInv

(* An operation is queued, or a barrier is answered at once.                 *)
LEMMA JoinedOutcomes ==
  ASSUME Stretches, Outcomes, NEW e \in Entries, e.boot = boot, NEW st \in Statuses,
         log' = Append(log, e), status' = Append(status, st), UNCHANGED <<boot, life>>,
         boot \in Nat,
         \/ st = "queued" /\ flushed' = flushed
         \/ st \in {"ok", "err"} /\ e.kind = "barrier" /\ flushed = Len(log)
            /\ flushed' = flushed + 1
  PROVE  Outcomes' /\ Grows
<1>1. /\ log \in Seq(Entries) /\ status \in Seq(Statuses) /\ Len(status) = Len(log)
      /\ Len(log) \in Nat /\ flushed \in Nat /\ flushed <= Len(log) /\ DOMAIN log = 1..Len(log)
  BY DEF Stretches
<1>2. /\ DOMAIN log' = 1..(Len(log) + 1) /\ Len(log') = Len(log) + 1
      /\ \A i \in 1..Len(log) : log'[i] = log[i] /\ status'[i] = status[i]
      /\ log'[Len(log) + 1] = e /\ status'[Len(log) + 1] = st
  BY <1>1
<1>3. Grows BY <1>1, <1>2 DEF Grows
<1>4. ASSUME NEW i \in 1..Len(log)
      PROVE  /\ status'[i] = "queued" <=> i > flushed'
             /\ status'[i] \in {"written", "failed"} => IsWrite(i)'
             /\ status'[i] \in {"ok", "err"} => ~IsWrite(i)'
             /\ log'[i].boot <= boot'
             /\ i > flushed' => log'[i].boot = boot'
             /\ status'[i] = "lost" /\ log'[i].boot = boot' => life' = "dead"
  BY <1>1, <1>2 DEF Outcomes, IsWrite
<1>5. /\ status'[Len(log) + 1] = "queued" <=> Len(log) + 1 > flushed'
      /\ status'[Len(log) + 1] \in {"written", "failed"} => e.kind # "barrier"
      /\ status'[Len(log) + 1] \in {"ok", "err"} => e.kind = "barrier"
      /\ e.boot <= boot
      /\ status'[Len(log) + 1] # "lost"
  BY <1>1, <1>2
<1>6. ASSUME NEW i \in {Len(log) + 1}
      PROVE  /\ status'[i] = "queued" <=> i > flushed'
             /\ status'[i] \in {"written", "failed"} => IsWrite(i)'
             /\ status'[i] \in {"ok", "err"} => ~IsWrite(i)'
             /\ log'[i].boot <= boot'
             /\ i > flushed' => log'[i].boot = boot'
             /\ status'[i] = "lost" /\ log'[i].boot = boot' => life' = "dead"
  BY <1>2, <1>5 DEF IsWrite
<1>7. \A i \in DOMAIN log' : i \in 1..Len(log) \/ i \in {Len(log) + 1} BY <1>1, <1>2
<1> QED BY <1>3, <1>4, <1>6, <1>7 DEF Outcomes

(* A run of writes is settled.                                               *)
LEMMA SettledOutcomes ==
  ASSUME Stretches, Outcomes, NEW last \in flushed..Len(log), NEW result \in {"written", "failed"},
         SettleAs(last, result), \A i \in (flushed + 1)..last : IsWrite(i),
         flushed' = last, UNCHANGED <<log, boot, life>>
  PROVE  Outcomes' /\ Grows
BY DEF Stretches, Outcomes, Grows, SettleAs, IsWrite

(* A barrier of the batch is answered.                                       *)
LEMMA AnsweredOutcomes ==
  ASSUME Stretches, Outcomes, NEW st \in {"ok", "err"}, flushed < Len(log), ~IsWrite(flushed + 1),
         status' = [status EXCEPT ![flushed + 1] = st],
         flushed' = flushed + 1, UNCHANGED <<log, boot, life>>
  PROVE  Outcomes' /\ Grows
BY DEF Stretches, Outcomes, Grows, IsWrite

(* What was not settled is lost, by the thread's death or the process's.     *)
LEMMA LostOutcomes ==
  ASSUME Stretches, Outcomes, NEW told, \A i \in told : ~IsWrite(i),
         status' = LostFrom(told), flushed' = Len(log), UNCHANGED log,
         boot \in Nat, (boot' = boot /\ life' = "dead") \/ boot' = boot + 1
  PROVE  Outcomes' /\ Grows
<1>1. \A e \in Entries : e.boot \in Int BY SessionWriterAssumption DEF Entries
<1>2. \A i \in DOMAIN log : log[i].boot \in Int BY <1>1 DEF Stretches
<1> QED BY <1>2 DEF Stretches, Outcomes, Grows, LostFrom, IsWrite

(* Nothing is queued or settled.                                             *)
LEMMA SameOutcomes ==
  ASSUME Stretches, Outcomes, UNCHANGED <<log, status, flushed, boot>>,
         life' = life \/ life # "dead"
  PROVE  Outcomes' /\ Grows
BY DEF Stretches, Outcomes, Grows, IsWrite

(* At the start there are no lines.                                          *)
LEMMA InitFiles == Init => FilesInv
<1> SUFFICES ASSUME Init PROVE FilesInv OBVIOUS
<1>1. ASSUME NEW path \in Paths PROVE disk[path].lines = <<>>
  <2>1. disk[path] \in {NoFile, [NoFile EXCEPT !.there = TRUE],
                        [NoFile EXCEPT !.there = TRUE, !.torn = TRUE]}
    BY DEF Init
  <2>2. NoFile.lines = <<>> /\ [NoFile EXCEPT !.there = TRUE].lines = <<>>
        /\ [NoFile EXCEPT !.there = TRUE, !.torn = TRUE].lines = <<>>
    BY DEF NoFile
  <2> QED BY <2>1, <2>2
<1>2. Horizon
  <2>1. <<>> \in Seq(Nat) /\ DOMAIN <<>> = {} OBVIOUS
  <2>2. \A path \in Paths : OnDisk(path) = {} BY <1>1, <2>1 DEF OnDisk
  <2>3. \A path \in Paths : Increasing(disk[path].lines) BY <1>1, <2>1 DEF Increasing
  <2> QED BY <1>1, <2>1, <2>2, <2>3 DEF Horizon
<1>3. Outcomes /\ Kept /\ InOrder BY DEF Init, Outcomes, Kept, InOrder
<1> QED BY <1>2, <1>3 DEF FilesInv

(* A write that stops short of its last line, or one that reaches it.        *)
LEMMA PartWritten ==
  ASSUME IInv, Stretches', Unglued, FilesInv, Grows, Outcomes', UNCHANGED log, life # "dead",
         flushed # cur, cur <= flushed',
         \/ UNCHANGED disk
         \/ WriteStopsShort(PendingPath)
         \/ disk' = [disk EXCEPT ![PendingPath] =
                       Extended(@, NewlineFirst(PendingPath), cur - flushed, FALSE)],
         \A i \in DOMAIN log : i > flushed => status'[i] # "written"
  PROVE  FilesInv'
<1>1. flushed \in Nat /\ cur \in Nat /\ flushed' \in Nat /\ flushed <= cur
      /\ DOMAIN log = 1..Len(log) /\ Stretches
  BY DEF IInv, Stretches
<1>2. DOMAIN disk = Paths BY DEF Unglued
<1>3. CASE UNCHANGED disk BY <1>1, <1>3, QuietFiles
<1>4. ASSUME NEW k \in 0..(cur - flushed), NEW torn \in BOOLEAN, NEW path, path = PendingPath,
             disk' = [disk EXCEPT ![path] = Extended(disk[path], NewlineFirst(path), k, torn)]
      PROVE  FilesInv'
  <2>1. flushed + k <= flushed' BY <1>1
  <2> QED BY <1>2, <1>4, <2>1, AppendedFiles
<1>5. CASE WriteStopsShort(PendingPath)
  <2>1. PICK k \in 0..(cur - flushed - 1), torn \in BOOLEAN :
          disk' = [disk EXCEPT ![PendingPath] =
                     Extended(disk[PendingPath], NewlineFirst(PendingPath), k, torn)]
    BY <1>5 DEF WriteStopsShort
  <2>2. k \in 0..(cur - flushed) BY <1>1
  <2> QED BY <1>4, <2>1, <2>2
<1>6. CASE disk' = [disk EXCEPT ![PendingPath] =
                      Extended(@, NewlineFirst(PendingPath), cur - flushed, FALSE)]
  <2>1. cur - flushed \in 0..(cur - flushed) BY <1>1
  <2> QED BY <1>4, <1>6, <2>1
<1> QED BY <1>3, <1>5, <1>6

(* The gathered lines are written, or fail.                                  *)
LEMMA FlushFiles ==
  ASSUME IInv, Stretches', Unglued, FilesInv, FlushSucceeds \/ FlushFails PROVE FilesInv'
<1>1. /\ life # "dead" /\ flushed # cur /\ flushed' = cur /\ UNCHANGED <<log, boot, life>>
      /\ Stretches /\ DOMAIN log = 1..Len(log)
  <2>1. Running /\ FlushDue /\ flushed' = cur /\ UNCHANGED <<log, boot, life>>
    BY DEF FlushSucceeds, FlushFails
  <2>2. Stretches /\ DOMAIN log = 1..Len(log) BY DEF IInv, Stretches
  <2> QED BY <2>1, <2>2 DEF Running, FlushDue, NothingPending
<1>2. flushed \in Nat /\ cur \in Nat /\ flushed' \in Nat /\ cur \in flushed..Len(log)
  BY <1>1 DEF Stretches
<1>3. \A i \in (flushed + 1)..cur : IsWrite(i) BY DEF IInv, Gathered, IsWrite
<1>4. PICK result \in {"written", "failed"} :
        SettleAs(cur, result) /\ (FlushFails => result = "failed")
  BY DEF FlushSucceeds, FlushFails
<1>5. Outcomes' /\ Grows BY <1>1, <1>2, <1>3, <1>4, SettledOutcomes DEF FilesInv
<1>6. CASE FlushSucceeds
  <2>1. disk' = [disk EXCEPT ![PendingPath] =
                   Extended(disk[PendingPath], NewlineFirst(PendingPath), cur - flushed, FALSE)]
    BY <1>6 DEF FlushSucceeds
  <2>2. cur - flushed \in 0..(cur - flushed) /\ flushed + (cur - flushed) = cur
        /\ cur - flushed \in Nat
    BY <1>2
  <2>3. \A i \in DOMAIN log : status'[i] = "written" /\ i > flushed => i <= flushed + (cur - flushed)
    <3> SUFFICES ASSUME NEW i \in DOMAIN log, i > flushed, i > cur PROVE status'[i] # "written"
      BY <1>1, <1>2, <2>2
    <3>1. status[i] = "queued" BY DEF FilesInv, Outcomes
    <3> QED BY <1>1, <1>2, <1>4, <3>1 DEF SettleAs
  <2>4. DOMAIN disk = Paths BY DEF Unglued
  <2>5. \A path, k : path = PendingPath /\ k = cur - flushed =>
          disk' = [disk EXCEPT ![path] = Extended(disk[path], NewlineFirst(path), k, FALSE)]
    BY <2>1
  <2>6. \A k : k = cur - flushed => flushed + k <= flushed' /\ k \in 0..(cur - flushed)
    BY <1>1, <1>2, <2>2
  <2> QED BY <1>1, <1>5, <2>3, <2>4, <2>5, <2>6, AppendedFiles
<1>7. CASE FlushFails
  <2>1. \A i \in DOMAIN log : i > flushed => status'[i] # "written"
    <3> SUFFICES ASSUME NEW i \in DOMAIN log, i > flushed PROVE status'[i] # "written" OBVIOUS
    <3>1. status[i] = "queued" BY DEF FilesInv, Outcomes
    <3> QED BY <1>1, <1>2, <1>4, <1>7, <3>1 DEF SettleAs
  <2>2. UNCHANGED disk \/ WriteStopsShort(PendingPath) BY <1>7 DEF FlushFails
  <2>3. cur <= flushed' BY <1>1, <1>2
  <2> QED BY <1>1, <1>2, <1>5, <2>1, <2>2, <2>3, PartWritten
<1> QED BY <1>6, <1>7

(* What is on the files when a whole-file write ends, or is cut short.       *)
LEMMA PartReplaced ==
  ASSUME IInv, Stretches', Unglued, FilesInv, Grows, Outcomes', UNCHANGED log,
         flushed = cur, cur < taken, log[cur + 1].kind = "replace", flushed < flushed',
         \/ disk' = [disk EXCEPT ![log[cur + 1].path] = Replaced]
         \/ /\ ReplaceStopsShort(log[cur + 1].path)
            /\ status'[cur + 1] # "written",
         \A i \in DOMAIN log : i > flushed /\ i # cur + 1 => status'[i] # "written"
  PROVE  FilesInv'
<1>1. DOMAIN disk = Paths BY DEF Unglued
<1> DEFINE Leaves(file) == /\ file.lines \in {<<>>, <<cur + 1>>}
                           /\ file.lines = <<>> => status'[cur + 1] # "written"
                           /\ disk' = [disk EXCEPT ![log[cur + 1].path] = file]
<1>2. \E file : Leaves(file)
  <2>1. CASE disk' = [disk EXCEPT ![log[cur + 1].path] = Replaced]
    <3>1. Replaced.lines = <<cur + 1>> /\ <<cur + 1>> # <<>> BY DEF Replaced, NoFile
    <3>2. Leaves(Replaced) BY <2>1, <3>1
    <3> HIDE DEF Leaves
    <3> QED BY <3>2
  <2>2. CASE ReplaceStopsShort(log[cur + 1].path) /\ status'[cur + 1] # "written"
    <3>1. PICK torn \in BOOLEAN : disk' = [disk EXCEPT ![log[cur + 1].path] =
                                             [NoFile EXCEPT !.there = TRUE, !.torn = torn]]
      BY <2>2 DEF ReplaceStopsShort
    <3>2. [NoFile EXCEPT !.there = TRUE, !.torn = torn].lines = <<>> BY DEF NoFile
    <3>3. Leaves([NoFile EXCEPT !.there = TRUE, !.torn = torn]) BY <2>2, <3>1, <3>2
    <3> HIDE DEF Leaves
    <3> QED BY <3>3
  <2> QED BY <2>1, <2>2
<1>3. PICK file : Leaves(file) BY <1>2
<1>4. \A i \in DOMAIN log : status'[i] = "written" /\ i > flushed =>
                              i = cur + 1 /\ file.lines = <<cur + 1>>
  BY <1>3
<1>5. \A path : path = log[cur + 1].path => disk' = [disk EXCEPT ![path] = file] BY <1>3
<1> QED BY <1>1, <1>3, <1>4, <1>5, ReplacedFiles

(* A whole file is written, or fails.                                        *)
LEMMA ReplaceFiles ==
  ASSUME IInv, Stretches', Unglued, FilesInv, ReplaceSucceeds \/ ReplaceFails PROVE FilesInv'
<1>1. /\ flushed = cur /\ cur < taken /\ log[cur + 1].kind = "replace"
      /\ flushed' = flushed + 1 /\ UNCHANGED <<log, boot, life>>
      /\ Stretches /\ DOMAIN log = 1..Len(log)
  BY DEF ReplaceSucceeds, ReplaceFails, NextIs, NothingPending, Advance, IInv, Stretches
<1>2. flushed \in Nat /\ cur \in Nat /\ flushed < flushed' /\ cur + 1 \in flushed..Len(log)
      /\ flushed' = cur + 1
  BY <1>1 DEF Stretches
<1>3. \A i \in (flushed + 1)..(cur + 1) : IsWrite(i) BY <1>1, <1>2 DEF IsWrite
<1>4. PICK result \in {"written", "failed"} :
        SettleAs(cur + 1, result) /\ (ReplaceFails => result = "failed")
  BY DEF ReplaceSucceeds, ReplaceFails
<1>5. Outcomes' /\ Grows BY <1>1, <1>2, <1>3, <1>4, SettledOutcomes DEF FilesInv
<1>6. ASSUME NEW i \in DOMAIN log, i > flushed, i # cur + 1 \/ ReplaceFails
      PROVE  status'[i] # "written"
  <2>1. status[i] = "queued" BY <1>6 DEF FilesInv, Outcomes
  <2> QED BY <1>1, <1>2, <1>4, <1>6, <2>1 DEF SettleAs
<1>7. cur + 1 \in DOMAIN log /\ cur + 1 > flushed BY <1>1, <1>2
<1>8. CASE ReplaceSucceeds
  <2>1. disk' = [disk EXCEPT ![log[cur + 1].path] = Replaced] BY <1>8 DEF ReplaceSucceeds
  <2> QED BY <1>1, <1>2, <1>5, <1>6, <2>1, PartReplaced
<1>9. CASE ReplaceFails /\ UNCHANGED disk
  BY <1>1, <1>5, <1>6, <1>9, QuietFiles
<1>10. CASE ReplaceFails /\ ReplaceStopsShort(log[cur + 1].path)
  BY <1>1, <1>2, <1>5, <1>6, <1>7, <1>10, PartReplaced
<1> QED BY <1>8, <1>9, <1>10 DEF ReplaceFails

(* The process ends, perhaps in the middle of a write.                       *)
LEMMA CrashFiles ==
  ASSUME IInv, Stretches', Unglued, FilesInv, Crash PROVE FilesInv'
<1>1. /\ Stretches /\ DOMAIN log = 1..Len(log) /\ boot \in Nat
      /\ status' = LostFrom({}) /\ flushed' = Len(log) /\ boot' = boot + 1 /\ UNCHANGED log
      /\ WriteCutShort
  BY DEF Crash, DropAll, IInv, Stretches, Flags
<1>2. Outcomes' /\ Grows BY <1>1, LostOutcomes DEF FilesInv
<1>3. ASSUME NEW i \in DOMAIN log, i > flushed PROVE status'[i] # "written"
  <2>1. flushed \in Nat /\ i \in Nat BY <1>1 DEF Stretches
  <2> QED BY <1>1, <1>3, <2>1 DEF LostFrom
<1>4. flushed \in Nat /\ cur \in Nat /\ Len(log) \in Nat /\ cur <= flushed' /\ taken <= Len(log)
      /\ taken \in Nat
  BY <1>1 DEF Stretches
<1>5. CASE UNCHANGED disk BY <1>1, <1>2, <1>3, <1>5, QuietFiles
<1>6. CASE /\ Running /\ FlushDue
           /\ \/ WriteStopsShort(PendingPath)
              \/ disk' = [disk EXCEPT ![PendingPath] =
                            Extended(@, NewlineFirst(PendingPath), cur - flushed, FALSE)]
  <2>1. life # "dead" /\ flushed # cur BY <1>6 DEF Running, FlushDue, NothingPending
  <2> QED BY <1>1, <1>2, <1>3, <1>4, <1>6, <2>1, PartWritten
<1>7. CASE /\ NextIs("replace")
           /\ \/ ReplaceStopsShort(log[cur + 1].path)
              \/ disk' = [disk EXCEPT ![log[cur + 1].path] = Replaced]
  <2>1. flushed = cur /\ cur < taken /\ log[cur + 1].kind = "replace" /\ flushed < flushed'
        /\ cur + 1 \in DOMAIN log /\ cur + 1 > flushed
    BY <1>1, <1>4, <1>7 DEF NextIs, NothingPending
  <2> QED BY <1>1, <1>2, <1>3, <1>7, <2>1, PartReplaced
<1> QED BY <1>1, <1>5, <1>6, <1>7 DEF WriteCutShort

(* The writer thread dies.                                                   *)
LEMMA DieFiles ==
  ASSUME IInv, Stretches', FilesInv, Die PROVE FilesInv'
<1> DEFINE told == {i \in (taken + 1)..Len(log) : ~IsWrite(i)}
<1>1. /\ Stretches /\ DOMAIN log = 1..Len(log) /\ boot \in Nat
      /\ status' = LostFrom(told) /\ flushed' = Len(log) /\ life' = "dead"
      /\ UNCHANGED <<log, disk, boot>>
  BY DEF Die, DropAll, IInv, Stretches, Flags
<1>2. \A i \in told : ~IsWrite(i) OBVIOUS
<1> HIDE DEF told
<1>3. Outcomes' /\ Grows BY <1>1, <1>2, LostOutcomes DEF FilesInv
<1>4. ASSUME NEW i \in DOMAIN log, i > flushed PROVE status'[i] # "written"
  <2>1. flushed \in Nat BY <1>1 DEF Stretches
  <2> QED BY <1>1, <1>4, <2>1 DEF LostFrom
<1> QED BY <1>1, <1>3, <1>4, QuietFiles

(* Operations are queued, barriers answered.                                 *)
LEMMA QueueFiles ==
  ASSUME IInv, Stretches', FilesInv,
         \/ \E p \in Producers, op \in Ops : Push(p, op)
         \/ BarrierDead \/ BarrierNow \/ BarrierQueued \/ AnswerBarrier
  PROVE  FilesInv'
<1>0. Stretches /\ Flags /\ DOMAIN log = 1..Len(log) /\ Len(log) \in Nat /\ flushed \in Nat
      /\ flushed <= Len(log)
  BY DEF IInv, Stretches
<1>1. ASSUME NEW e \in Entries, e.boot = boot, NEW st \in {"queued", "ok", "err"},
             log' = Append(log, e), status' = Append(status, st),
             UNCHANGED <<boot, life, disk>>,
             \/ st = "queued" /\ flushed' = flushed
             \/ st \in {"ok", "err"} /\ e.kind = "barrier" /\ flushed = Len(log)
                /\ flushed' = flushed + 1
      PROVE  FilesInv'
  <2>1. st \in Statuses BY DEF Statuses
  <2>2. boot \in Nat BY <1>0 DEF Flags
  <2>3. Outcomes' /\ Grows BY <1>0, <1>1, <2>1, <2>2, JoinedOutcomes DEF FilesInv
  <2>4. ASSUME NEW i \in DOMAIN log', i > flushed PROVE status'[i] # "written"
    <3>1. Len(log') = Len(log) + 1 /\ DOMAIN log' = 1..(Len(log) + 1) BY <1>0, <1>1 DEF Stretches
    <3>2. CASE i \in 1..Len(log)
      <4>1. status[i] = "queued" BY <1>0, <2>4, <3>2 DEF FilesInv, Outcomes
      <4> QED BY <1>0, <1>1, <3>2, <4>1 DEF Stretches
    <3>3. CASE i = Len(log) + 1 BY <1>0, <1>1, <3>3 DEF Stretches
    <3> QED BY <1>0, <3>1, <3>2, <3>3
  <2> QED BY <1>0, <1>1, <2>3, <2>4, QuietFiles
<1>2. NewBarrier \in Entries /\ NewBarrier.boot = boot /\ NewBarrier.kind = "barrier"
  BY <1>0, NewBarrierType DEF NewBarrier
<1>3. ASSUME NEW p \in Producers, NEW op \in Ops, Push(p, op) PROVE FilesInv'
  <2> DEFINE e == [kind |-> op.kind, path |-> op.path, boot |-> boot]
  <2>1. e \in Entries /\ e.boot = boot BY <1>0 DEF Flags, Ops, Entries
  <2>2. log' = Append(log, e) /\ status' = Append(status, "queued")
        /\ UNCHANGED <<boot, life, disk, flushed>>
    BY <1>3 DEF Push
  <2> QED BY <1>1, <2>1, <2>2
<1>4. CASE BarrierDead
  <2>1. flushed = Len(log) BY <1>4 DEF BarrierDead, IInv, DeadIsDone
  <2> QED BY <1>1, <1>2, <1>4, <2>1 DEF BarrierDead
<1>5. CASE BarrierNow
  <2>1. flushed = Len(log) BY <1>5 DEF BarrierNow, QueueEmpty, IInv, IdleIsDone
  <2>2. status' = Append(status, IF error THEN "err" ELSE "ok") BY <1>5 DEF BarrierNow
  <2> QED BY <1>1, <1>2, <1>5, <2>1, <2>2 DEF BarrierNow
<1>6. CASE BarrierQueued BY <1>1, <1>2, <1>6 DEF BarrierQueued
<1>7. CASE AnswerBarrier
  <2>1. /\ flushed = cur /\ cur < taken /\ log[cur + 1].kind = "barrier"
        /\ flushed' = flushed + 1 /\ status' = [status EXCEPT ![flushed + 1] = Verdict]
        /\ Verdict \in {"ok", "err"} /\ UNCHANGED <<log, boot, life, disk>>
    BY <1>7 DEF AnswerBarrier, NextIs, NothingPending, Advance, Verdict
  <2>2. flushed < Len(log) /\ ~IsWrite(flushed + 1) BY <2>1 DEF IInv, Stretches, IsWrite
  <2>3. Outcomes' /\ Grows BY <1>0, <2>1, <2>2, AnsweredOutcomes DEF FilesInv
  <2>4. ASSUME NEW i \in DOMAIN log, i > flushed PROVE status'[i] # "written"
    <3>1. status[i] = "queued" BY <2>4 DEF FilesInv, Outcomes
    <3> QED BY <1>0, <2>1, <3>1 DEF Stretches
  <2> QED BY <1>0, <2>1, <2>3, <2>4, QuietFiles
<1> QED BY <1>3, <1>4, <1>5, <1>6, <1>7

(* Every step keeps the files true to the queue.                             *)
LEMMA StepFiles == IInv /\ Unglued /\ FilesInv /\ [Next]_vars => FilesInv'
<1> SUFFICES ASSUME IInv, Unglued, FilesInv, [Next]_vars PROVE FilesInv' OBVIOUS
<1>1. Stretches' /\ Stretches BY StepIInv DEF IInv
<1>2. CASE UNCHANGED <<log, status, flushed, boot, disk>> /\ (life' = life \/ life # "dead")
  <2>1. Outcomes' /\ Grows BY <1>1, <1>2, SameOutcomes DEF FilesInv
  <2>2. \A i \in DOMAIN log' : i > flushed => status'[i] # "written"
    BY <1>2 DEF FilesInv, Outcomes
  <2> QED BY <1>1, <1>2, <2>1, <2>2, QuietFiles
<1>3. CASE TakeBatch \/ GatherLine \/ PublishError \/ EndBatch \/ Close \/ UNCHANGED vars
  BY <1>2, <1>3 DEF TakeBatch, GatherLine, PublishError, EndBatch, Close, vars
<1>4. CASE \E p \in Producers, op \in Ops : PushDead(p, op) \/ WaitNotFull(p, op)
  BY <1>2, <1>4 DEF PushDead, WaitNotFull
<1> QED BY <1>1, <1>3, <1>4, QueueFiles, FlushFiles, ReplaceFiles, DieFiles, CrashFiles
        DEF Next, WriterStep, Queueing

-----------------------------------------------------------------------------
(* What a reader should know of.                                             *)

(* The inductive invariant holds in every reachable state.                   *)
THEOREM Invariance == Spec => []IInv
BY InitIInv, StepIInv, PTL DEF Spec

(* The writer keeps the promise of SessionLog: operations are settled in     *)
(* queue order, none is skipped, a flush is answered after all that precedes *)
(* it and says whether a write failed, a crash or the death of the thread    *)
(* loses all that is unsettled and nothing else.                             *)
THEOREM Implementation == Spec => ImplementsSessionLog
<1>1. Init => Log!Init BY DEF Init, Log!Init
<1>2. Spec => Log!Spec BY <1>1, StepIInv, Invariance, PTL DEF Spec, Log!Spec
<1> QED BY <1>2 DEF ImplementsSessionLog

(* No line is ever glued onto a torn one, whether a crash of this process or *)
(* of an earlier one tore it, or a write that failed half way.               *)
THEOREM NoLineGlued == Spec => [](\A path \in Paths : ~disk[path].glued)
<1>1. Unglued => \A path \in Paths : ~disk[path].glued BY DEF Unglued
<1> QED BY <1>1, InitUnglued, StepUnglued, PTL DEF Spec

(* The files follow the queue: their lines stand in the order they were      *)
(* queued, a line that was written stays until its file is replaced, and     *)
(* none is ahead of an earlier one of the same process that did not fail,    *)
(* whatever failed, tore, died or was started again in between.              *)
THEOREM FilesFollowTheQueueAlways == Spec => []FilesFollowTheQueue
<1>1. IInv /\ Unglued /\ FilesInv => FilesFollowTheQueue
  <2> SUFFICES ASSUME IInv, Unglued, FilesInv PROVE FilesFollowTheQueue OBVIOUS
  <2>1. \A path \in Paths : ~disk[path].glued BY DEF Unglued
  <2>2. \A path \in Paths : \A a, b \in DOMAIN disk[path].lines :
          a < b /\ disk[path].lines[b] # Junk => disk[path].lines[a] < disk[path].lines[b]
    BY DEF FilesInv, Horizon, Increasing
  <2>3. \A i : Present(i) <=> i \in OnDisk(log[i].path) BY DEF Present, OnDisk
  <2> QED BY <2>1, <2>2, <2>3 DEF FilesFollowTheQueue, FilesInv, Kept, InOrder, KeptIn, Before
<1>2. Spec => [](IInv /\ Unglued /\ FilesInv)
  BY InitIInv, InitUnglued, InitFiles, Invariance, StepUnglued, StepFiles, PTL DEF Spec
<1> QED BY <1>1, <1>2, PTL
=============================================================================
