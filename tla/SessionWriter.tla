---------------------------- MODULE SessionWriter ----------------------------
(***************************************************************************)
(* hoocode-runtime's FileWriter (session_io.rs): producers queue lines,    *)
(* whole-file contents and flush barriers; one thread takes the queue as a *)
(* batch, gathers consecutive lines of a path into one write, and answers  *)
(* the barriers.  The writer thread may be abandoned or panic, the whole   *)
(* process may die mid-write and start again on the same files, and every  *)
(* system call may fail.                                                   *)
(*                                                                         *)
(* Operations are numbered as they are queued (log).  The queue, the batch *)
(* and the gathered lines are stretches of that log:                       *)
(*   1..flushed settled, flushed+1..cur gathered in Output.pending,        *)
(*   cur+1..taken left of the batch, taken+1..Len(log) in Queue.ops.       *)
(***************************************************************************)
EXTENDS Naturals, Sequences, FiniteSets

CONSTANTS Producers,     \* threads that queue writes
          Paths,         \* session files
          NoPath,        \* no open file, and the path of a barrier
          MaxEntries,    \* SESSION_QUEUE_MAX_ENTRIES
          MaxBytes,      \* SESSION_QUEUE_MAX_BYTES
          ReplaceBytes,  \* size of a whole-file write; a line counts one
          MaxOps,        \* bound on the operations queued
          MaxBoots       \* bound on the process starts

ASSUME SessionWriterAssumption ==
  /\ NoPath \notin Paths
  /\ MaxEntries \in Nat \ {0} /\ MaxBytes \in Nat \ {0} /\ ReplaceBytes \in Nat \ {0}
  /\ MaxOps \in Nat /\ MaxBoots \in Nat \ {0}

VARIABLES
  log, status,    \* queued operations and what became of them
  boot,           \* which start of the process this is
  flushed, cur, taken,
  entries, bytes, \* Queue.entries and Queue.bytes
  busy,           \* Queue.busy
  error,          \* Queue.error, as a flag
  life,           \* open, closed (Drop), or dead (DeathWatch)
  outError,       \* Output.error, as a flag
  open,           \* path of Output.open
  disk,           \* the files
  producer,       \* where each producer is
  want            \* the operation a producer is about to queue

queueVars == <<log, status, entries, bytes>>
writerVars == <<flushed, cur, taken, busy, error, outError, open, disk>>
producerVars == <<producer, want>>
vars == <<queueVars, writerVars, producerVars, boot, life>>

Kinds == {"append", "replace", "barrier"}
Entries == [kind : {"append", "replace"}, path : Paths, boot : 1..MaxBoots]
             \cup [kind : {"barrier"}, path : {NoPath}, boot : 1..MaxBoots]

Size(kind) == IF kind = "append" THEN 1 ELSE ReplaceBytes

(* A file: its whole lines (the number of the operation that wrote each, 0   *)
(* for the remains of a torn one), whether it ends in a torn line, and       *)
(* whether a line was ever glued onto a torn one.                            *)
Junk == 0
Files == [there : BOOLEAN, lines : Seq(Nat), torn : BOOLEAN, glued : BOOLEAN]
NoFile == [there |-> FALSE, lines |-> <<>>, torn |-> FALSE, glued |-> FALSE]

Nothing == [kind |-> "barrier", path |-> NoPath]

Init ==
  /\ log = <<>> /\ status = <<>> /\ boot = 1
  /\ flushed = 0 /\ cur = 0 /\ taken = 0
  /\ entries = 0 /\ bytes = 0
  /\ busy = FALSE /\ error = FALSE /\ life = "open"
  /\ outError = FALSE /\ open = NoPath
  /\ disk \in [Paths -> {NoFile, [NoFile EXCEPT !.there = TRUE],
                         [NoFile EXCEPT !.there = TRUE, !.torn = TRUE]}]
  /\ producer = [p \in Producers |-> "idle"]
  /\ want = [p \in Producers |-> Nothing]

-----------------------------------------------------------------------------
(* Producers: append_line and replace.                                      *)

IsWrite(i) == log[i].kind # "barrier"
QueueEmpty == taken = Len(log)

Ops == [kind : {"append", "replace"}, path : Paths]

(* A producer calls, or is back from its wait.                               *)
Calling(p, op) ==
  \/ producer[p] = "idle" /\ life = "open" /\ Len(log) < MaxOps
  \/ producer[p] = "asking" /\ op = want[p]

Full(size) == entries + 1 > MaxEntries \/ bytes + size > MaxBytes

\* Mutation of MustWait: also an operation that can never fit waits.
MustWaitToFit(size) == life # "dead" /\ Full(size)

MustWait(size) == life # "dead" /\ ~QueueEmpty /\ Full(size)

Returns(p) ==
  /\ producer' = [producer EXCEPT ![p] = "idle"]
  /\ want' = [want EXCEPT ![p] = Nothing]

Push(p, op) ==
  LET size == Size(op.kind)
  IN /\ Calling(p, op)
     /\ life # "dead" /\ ~MustWait(size)
     /\ log' = Append(log, [kind |-> op.kind, path |-> op.path, boot |-> boot])
     /\ status' = Append(status, "queued")
     /\ entries' = entries + 1
     /\ bytes' = bytes + size
     /\ Returns(p)
     /\ UNCHANGED <<writerVars, boot, life>>

(* The writer thread is gone: the operation is discarded.                    *)
PushDead(p, op) ==
  /\ Calling(p, op) /\ life = "dead"
  /\ Returns(p)
  /\ UNCHANGED <<queueVars, writerVars, boot, life>>

WaitNotFull(p, op) ==
  /\ Calling(p, op)
  /\ MustWait(Size(op.kind))
  /\ producer' = [producer EXCEPT ![p] = "waiting"]
  /\ want' = [want EXCEPT ![p] = op]
  /\ UNCHANGED <<queueVars, writerVars, boot, life>>

Woken == [p \in Producers |-> IF producer[p] = "waiting" THEN "asking" ELSE producer[p]]

-----------------------------------------------------------------------------
(* barrier(): answered at once by a dead or an idle writer, else queued.     *)

NewBarrier == [kind |-> "barrier", path |-> NoPath, boot |-> boot]

BarrierDead ==
  /\ life = "dead" /\ Len(log) < MaxOps
  /\ log' = Append(log, NewBarrier)
  /\ status' = Append(status, "err")
  /\ taken' = taken + 1 /\ cur' = cur + 1 /\ flushed' = flushed + 1
  /\ UNCHANGED <<entries, bytes, busy, error, outError, open, disk, producerVars, boot, life>>

BarrierNow ==
  /\ life = "open" /\ Len(log) < MaxOps
  /\ QueueEmpty /\ ~busy
  /\ log' = Append(log, NewBarrier)
  /\ status' = Append(status, IF error THEN "err" ELSE "ok")
  /\ error' = FALSE
  /\ taken' = taken + 1 /\ cur' = cur + 1 /\ flushed' = flushed + 1
  /\ UNCHANGED <<entries, bytes, busy, outError, open, disk, producerVars, boot, life>>

BarrierQueued ==
  /\ life = "open" /\ Len(log) < MaxOps
  /\ ~(QueueEmpty /\ ~busy)
  /\ log' = Append(log, NewBarrier)
  /\ status' = Append(status, "queued")
  /\ UNCHANGED <<entries, bytes, writerVars, producerVars, boot, life>>

(* Drop of the FileWriter: no producer and no waiter can be in a call.       *)
Close ==
  /\ life = "open"
  /\ \A p \in Producers : producer[p] = "idle"
  /\ life' = "closed"
  /\ UNCHANGED <<queueVars, writerVars, producerVars, boot>>

-----------------------------------------------------------------------------
(* The writer thread.                                                       *)

Running == life # "dead"

\* Mutation of SomethingQueued: barriers do not count.
SomeEntryQueued == entries > 0

SomethingQueued == ~QueueEmpty

TakeBatch ==
  /\ Running /\ ~busy /\ ~outError
  /\ SomethingQueued
  /\ busy' = TRUE
  /\ taken' = Len(log)
  /\ entries' = 0 /\ bytes' = 0
  /\ producer' = Woken
  /\ UNCHANGED <<log, status, flushed, cur, error, outError, open, disk, want, boot, life>>

NothingPending == flushed = cur
PendingPath == log[cur].path

\* Mutation of Continues: the path of the next line is not compared.
ContinuesAnyFile(i) == log[i].kind = "append"

Continues(i) == log[i].kind = "append" /\ (~NothingPending => log[i].path = PendingPath)

GatherLine ==
  /\ Running /\ busy
  /\ cur < taken /\ Continues(cur + 1)
  /\ cur' = cur + 1
  /\ UNCHANGED <<queueVars, flushed, taken, busy, error, outError, open, disk,
                 producerVars, boot, life>>

Pending == [k \in 1..(cur - flushed) |-> flushed + k]

(* What a write of the first k gathered lines leaves: behind a newline of    *)
(* its own when the writer has just opened the file on a torn line.          *)
Extended(f, prefix, k, torn) ==
  [there |-> TRUE,
   lines |-> f.lines \o (IF prefix THEN <<Junk>> ELSE <<>>) \o SubSeq(Pending, 1, k),
   torn  |-> torn,
   glued |-> f.glued \/ (f.torn /\ ~prefix)]

NewlineFirst(path) == open # path /\ disk[path].torn

HandleAfterError(path) == NoPath

SettleAs(last, result) ==
  status' = [i \in 1..Len(log) |-> IF i \in (flushed + 1)..last THEN result ELSE status[i]]

FlushDue == ~NothingPending /\ (cur < taken => ~Continues(cur + 1))

FlushSucceeds ==
  /\ Running /\ FlushDue
  /\ disk[PendingPath].there
  /\ disk' = [disk EXCEPT ![PendingPath] =
                Extended(@, NewlineFirst(PendingPath), cur - flushed, FALSE)]
  /\ open' = PendingPath
  /\ SettleAs(cur, "written")
  /\ flushed' = cur
  /\ UNCHANGED <<log, entries, bytes, cur, taken, busy, error, outError, producerVars, boot,
                 life>>

(* A write that stops short of its last line.  FlushFails: the open failed   *)
(* or nothing was written, or the write stopped short.                       *)
WriteStopsShort(path) ==
  \E k \in 0..(cur - flushed - 1), torn \in BOOLEAN :
    disk' = [disk EXCEPT ![path] = Extended(@, NewlineFirst(path), k, torn)]

FlushFails ==
  /\ Running /\ FlushDue
  /\ \/ UNCHANGED disk
     \/ disk[PendingPath].there /\ WriteStopsShort(PendingPath)
  /\ open' = HandleAfterError(PendingPath)
  /\ outError' = TRUE
  /\ SettleAs(cur, "failed")
  /\ flushed' = cur
  /\ UNCHANGED <<log, entries, bytes, cur, taken, busy, error, producerVars, boot, life>>

NextIs(kind) == cur < taken /\ NothingPending /\ log[cur + 1].kind = kind

Advance == cur' = cur + 1 /\ flushed' = flushed + 1

(* Op::Replace: write_whole creates or truncates the file, then writes it;   *)
(* it may get no further than that, or than a part of the contents.          *)
Replaced == [NoFile EXCEPT !.there = TRUE, !.lines = <<cur + 1>>]

ReplaceStopsShort(path) ==
  \E torn \in BOOLEAN :
    disk' = [disk EXCEPT ![path] = [NoFile EXCEPT !.there = TRUE, !.torn = torn]]

ReplaceSucceeds ==
  LET path == log[cur + 1].path
  IN /\ Running /\ busy /\ NextIs("replace")
     /\ disk' = [disk EXCEPT ![path] = Replaced]
     /\ open' = NoPath
     /\ error' = (error \/ outError) /\ outError' = FALSE
     /\ SettleAs(cur + 1, "written")
     /\ Advance
     /\ UNCHANGED <<log, entries, bytes, taken, busy, producerVars, boot, life>>

ReplaceFails ==
  LET path == log[cur + 1].path
  IN /\ Running /\ busy /\ NextIs("replace")
     /\ UNCHANGED disk \/ ReplaceStopsShort(path)
     /\ open' = NoPath
     /\ error' = TRUE /\ outError' = FALSE
     /\ SettleAs(cur + 1, "failed")
     /\ Advance
     /\ UNCHANGED <<log, entries, bytes, taken, busy, producerVars, boot, life>>

Verdict == IF error \/ outError THEN "err" ELSE "ok"

AnswerBarrier ==
  /\ Running /\ busy /\ NextIs("barrier")
  /\ status' = [status EXCEPT ![cur + 1] = Verdict]
  /\ error' = FALSE /\ outError' = FALSE
  /\ Advance
  /\ UNCHANGED <<log, entries, bytes, taken, busy, open, disk, producerVars, boot, life>>

(* The end of a batch: the last flush is done, its error is published, and   *)
(* only then the writer is idle again.                                       *)
PublishError ==
  /\ Running /\ outError
  /\ cur = taken /\ NothingPending
  /\ error' = TRUE /\ outError' = FALSE
  /\ UNCHANGED <<queueVars, flushed, cur, taken, busy, open, disk, producerVars, boot, life>>

\* Mutation of EndBatch: the writer turns idle before it publishes its error.
EndBatchEarly ==
  /\ Running /\ busy
  /\ cur = taken /\ NothingPending
  /\ busy' = FALSE
  /\ producer' = Woken
  /\ UNCHANGED <<queueVars, flushed, cur, taken, error, outError, open, disk, want, boot,
                 life>>

EndBatch ==
  /\ Running /\ busy
  /\ cur = taken /\ NothingPending /\ ~outError
  /\ busy' = FALSE
  /\ producer' = Woken
  /\ UNCHANGED <<queueVars, flushed, cur, taken, error, outError, open, disk, want, boot,
                 life>>

(* The thread ends: by a panic in a batch, or, once the FileWriter is gone,  *)
(* drained or abandoned.  DeathWatch answers the barriers still in Queue.ops;*)
(* what the thread had taken goes with it.                                   *)
LostFrom(answered) ==
  [i \in 1..Len(log) |-> IF i <= flushed THEN status[i]
                         ELSE IF i \in answered THEN "err" ELSE "lost"]

DropAll == flushed' = Len(log) /\ cur' = Len(log) /\ taken' = Len(log)

Die ==
  /\ Running /\ (busy \/ life = "closed")
  /\ life' = "dead"
  /\ status' = LostFrom({i \in (taken + 1)..Len(log) : ~IsWrite(i)})
  /\ entries' = 0 /\ bytes' = 0 /\ busy' = FALSE
  /\ DropAll
  /\ outError' = FALSE /\ open' = NoPath
  /\ producer' = Woken
  /\ UNCHANGED <<log, error, disk, want, boot>>

(* The process ends, perhaps in the middle of a write or just after one, and *)
(* starts again on the same files.                                           *)
WriteCutShort ==
  \/ UNCHANGED disk
  \/ /\ Running /\ FlushDue /\ disk[PendingPath].there
     /\ \/ WriteStopsShort(PendingPath)
        \/ disk' = [disk EXCEPT ![PendingPath] =
                      Extended(@, NewlineFirst(PendingPath), cur - flushed, FALSE)]
  \/ /\ Running /\ NextIs("replace")
     /\ \/ ReplaceStopsShort(log[cur + 1].path)
        \/ disk' = [disk EXCEPT ![log[cur + 1].path] = Replaced]

Crash ==
  /\ boot < MaxBoots
  /\ WriteCutShort
  /\ status' = LostFrom({})
  /\ boot' = boot + 1
  /\ life' = "open"
  /\ entries' = 0 /\ bytes' = 0 /\ busy' = FALSE
  /\ DropAll
  /\ error' = FALSE /\ outError' = FALSE /\ open' = NoPath
  /\ producer' = [p \in Producers |-> "idle"]
  /\ want' = [p \in Producers |-> Nothing]
  /\ UNCHANGED log

-----------------------------------------------------------------------------
WriterStep ==
  \/ TakeBatch \/ GatherLine \/ FlushSucceeds \/ FlushFails
  \/ ReplaceSucceeds \/ ReplaceFails \/ AnswerBarrier \/ PublishError \/ EndBatch

Queueing(p) == \E op \in Ops : Push(p, op) \/ PushDead(p, op) \/ WaitNotFull(p, op)

Returning(p) == producer[p] = "asking" /\ Queueing(p)

Next ==
  \/ WriterStep
  \/ \E p \in Producers : Queueing(p)
  \/ BarrierDead \/ BarrierNow \/ BarrierQueued
  \/ Close \/ Die \/ Crash

Spec == Init /\ [][Next]_vars

(* The writer thread and a thread that push woke keep running; nothing has to   *)
(* be asked, and neither a panic nor a crash has to come.                    *)
LiveSpec == Spec /\ WF_vars(WriterStep) /\ \A p \in Producers : WF_vars(Returning(p))

-----------------------------------------------------------------------------
Statuses == {"queued", "written", "failed", "ok", "err", "lost"}

TypeOK ==
  /\ log \in Seq(Entries)
  /\ status \in Seq(Statuses) /\ Len(status) = Len(log)
  /\ boot \in 1..MaxBoots
  /\ taken \in 0..Len(log) /\ cur \in 0..taken /\ flushed \in 0..cur
  /\ entries \in Nat /\ bytes \in Nat
  /\ busy \in BOOLEAN /\ error \in BOOLEAN /\ outError \in BOOLEAN
  /\ life \in {"open", "closed", "dead"}
  /\ open \in Paths \cup {NoPath}
  /\ disk \in [Paths -> Files]
  /\ producer \in [Producers -> {"idle", "asking", "waiting"}]
  /\ want \in [Producers -> [kind : Kinds, path : Paths \cup {NoPath}]]

(* A session file is its lines in the order they were queued, every written  *)
(* line since the last replacement still in it, and no line in it ahead of   *)
(* an earlier one of the same process that did not fail.  No line is glued   *)
(* onto a torn one, however the torn one came about: a crash of this process *)
(* or of an earlier one, or a write that failed half way.                    *)
Present(i) == \E k \in DOMAIN disk[log[i].path].lines : disk[log[i].path].lines[k] = i

ReplacedSince(i) ==
  \E j \in (i + 1)..Len(log) :
    log[j].kind = "replace" /\ log[j].path = log[i].path /\ status[j] # "queued"

FilesFollowTheQueue ==
  /\ \A path \in Paths : ~disk[path].glued
  /\ \A path \in Paths : \A a, b \in DOMAIN disk[path].lines :
       a < b /\ disk[path].lines[b] # Junk => disk[path].lines[a] < disk[path].lines[b]
  /\ \A i \in DOMAIN log : status[i] = "written" => Present(i) \/ ReplacedSince(i)
  /\ \A i, j \in DOMAIN log :
       /\ i < j /\ log[i].boot = log[j].boot
       /\ log[i].kind = "append" /\ IsWrite(j) /\ log[i].path = log[j].path
       /\ Present(j) /\ ~ReplacedSince(i)
       => Present(i) \/ status[i] = "failed"

(* The writer implements the promise of SessionLog.                          *)
Log == INSTANCE SessionLog WITH upTo <- flushed,
                                failure <- life # "dead" /\ (error \/ outError),
                                open <- life # "dead"

ImplementsSessionLog == Log!Spec

(* Whoever waits for the writer is answered: a producer gets its room or is  *)
(* told the writer is gone, a flush gets its verdict or is lost with the     *)
(* writer.  The operations are finitely many, so nobody is left waiting.     *)
Waiting ==
  \/ \E p \in Producers : producer[p] # "idle"
  \/ \E i \in DOMAIN log : log[i].kind = "barrier" /\ status[i] = "queued"

CallersAnswered == Waiting ~> ~Waiting

=============================================================================
