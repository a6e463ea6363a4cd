----------------------------- MODULE SessionFiles -----------------------------
(***************************************************************************)
(* hoocode-code-session's SessionManager (manager.rs): a conversation is   *)
(* an append-only tree of entries with a leaf that moves, kept in memory   *)
(* and in a JSONL file.  The file is not begun before the first assistant  *)
(* message; from then on each entry is one appended line, queued for the   *)
(* session writer.  A restart reads the file back, /fork copies a branch   *)
(* into a new file, the subagent pool writes run records beside the        *)
(* manager, and a compaction is prepared from the branch, summarized, and  *)
(* appended where the leaf is by then.                                     *)
(*                                                                         *)
(* The writer is a queue here whose head is written or lost (SessionWriter *)
(* has its threads and torn lines).  Reads wait for the queue; that they   *)
(* go on after a deadline of one second is left out.  An entry has its id, *)
(* parent and kind; settings entries are left out, labels are set, not     *)
(* cleared, and every line parses.                                         *)
(***************************************************************************)
EXTENDS CutPoint, SequencesExt

CONSTANTS Files,       \* session files, in the order they are created
          MaxEntries,  \* bound on the entries ever made
          MaxMoves,    \* bound on navigations, forks and restarts
          MaxFaults    \* bound on writes that fail

ASSUME SessionFilesAssumption ==
  /\ IsFiniteSet(Files) /\ Files # {} /\ Files = 1..Cardinality(Files)
  /\ MaxEntries \in Nat \ {0} /\ MaxMoves \in Nat /\ MaxFaults \in Nat

VARIABLES
  entries,  \* the manager's entries
  leaf,     \* leaf_id, 0 for None
  flushed,  \* the file is begun: entries go to it one by one
  file,     \* session_file
  disk,     \* lines of each file; <<>> where there is none
  queued,   \* writes queued for the session writer
  minted,   \* ids given out
  record,   \* a run record about to be queued: its file and its parent
  compacting, \* a compaction being summarized
  moved,    \* the leaf was moved while it was
  strays,   \* compactions that were applied after that
  moves,    \* navigations, forks and restarts
  faults,   \* writes that failed
  holes     \* entries that failed writes and forks left out of a file

managerVars == <<entries, leaf, flushed, file>>
writerVars == <<disk, queued, faults>>
filesVars == <<managerVars, writerVars, minted, record, compacting, moved, strays, moves, holes>>

Entry(id, parent, kind) == [id |-> id, parent |-> parent, kind |-> kind, ref |-> 0, sum |-> {}]
Header == Entry(0, 0, "header")
NoRecord == [file |-> 0, parent |-> 0]
NoCompaction == [ref |-> 0, sum |-> {}]

EntryKinds == InContext \cup {"label", "compaction", "record"}
EntryIds == 1..MaxEntries
Entries == [id : EntryIds, parent : 0..MaxEntries, kind : EntryKinds, ref : 0..MaxEntries,
            sum : SUBSET EntryIds]
Lines == Entries \cup {Header}
Writes == [file : Files, whole : BOOLEAN, lines : Seq(Lines)]

IdsOf(es) == {es[i].id : i \in DOMAIN es}
Conversation(es) == Only(es, EntryKinds \ {"record"})
Distinct(es) == \A i, j \in DOMAIN es : es[i].id = es[j].id => i = j
Answered(es) == \E i \in DOMAIN es : es[i].kind = "assistant"

(* branch: the way from the root to an entry, as far as parents are known.   *)
Branch(es, from) ==
  LET walk[i \in 0..Len(es)] ==
        [next \in 0..MaxEntries |->
           IF i = 0 THEN <<>>
           ELSE IF es[i].id = next THEN Append(walk[i - 1][es[i].parent], es[i])
           ELSE walk[i - 1][next]]
  IN walk[Len(es)][from]

Current == Branch(entries, leaf)

(* build_index: where a session that was read back continues.                *)
LeafOf(es) == IF Conversation(es) = <<>> THEN 0 ELSE Last(Conversation(es)).id

(* load_session_file.                                                        *)
Load(lines) == IF lines # <<>> /\ Head(lines) = Header THEN Tail(lines) ELSE <<>>

Written(lines, write) == IF write.whole THEN write.lines ELSE lines \o write.lines

(* The lines of file f once the writes have been made.                       *)
After(lines, writes, f) ==
  LET made[k \in 0..Len(writes)] ==
        IF k = 0 THEN lines
        ELSE IF writes[k].file = f THEN Written(made[k - 1], writes[k])
        ELSE made[k - 1]
  IN made[Len(writes)]

Settled(f) == After(disk[f], queued, f)

(* A new session, or one opened whose file has no assistant message yet.     *)
FilesInit ==
  /\ entries \in {<<>>, <<Entry(1, 0, "user")>>}
  /\ leaf = LeafOf(entries)
  /\ flushed = (entries # <<>>)
  /\ file = 1
  /\ disk = [f \in Files |-> IF f = 1 /\ flushed THEN <<Header>> \o entries ELSE <<>>]
  /\ queued = <<>>
  /\ minted = Len(entries)
  /\ record = NoRecord /\ compacting = NoCompaction /\ moved = FALSE /\ strays = {}
  /\ moves = 0 /\ faults = 0 /\ holes = {}

-----------------------------------------------------------------------------
(* append and persist.                                                       *)

Append1(f, lines) == [file |-> f, whole |-> FALSE, lines |-> lines]
Replace(f, es) == [file |-> f, whole |-> TRUE, lines |-> <<Header>> \o es]

\* Mutation of Begun: a file stays begun though entries were not written.
BegunBefore(es) == flushed \/ Answered(es)

(* Whether the next entry is written alone.                                   *)
Begun(es) == Answered(es)

\* Mutation of Persisted: the file is begun with the entry at hand alone.
PersistedAlone(e) ==
  IF ~Answered(entries') THEN <<>> ELSE <<Append1(file, <<e>>)>>

(* What the append of e queues.                                              *)
Persisted(e) ==
  IF ~Answered(entries') THEN <<>>
  ELSE IF flushed THEN <<Append1(file, <<e>>)>> ELSE <<Replace(file, entries')>>

Add(e) ==
  /\ minted < MaxEntries
  /\ minted' = e.id
  /\ entries' = Append(entries, e)
  /\ leaf' = e.id
  /\ flushed' = Begun(entries')
  /\ queued' = queued \o Persisted(e)
  /\ UNCHANGED <<file, disk, faults, record, holes>>

New(kind) == Entry(minted + 1, leaf, kind)

(* The messages of a run: a tool result follows its call, an assistant       *)
(* message a user message or a tool result.                                  *)
MayFollow(kind) ==
  LET said == Only(Current, InContext)
      last == IF said = <<>> THEN "none" ELSE Last(said).kind
  IN CASE kind = "user"      -> TRUE
       [] kind = "assistant" -> last \in {"user", "tool", "summary"}
       [] kind = "tool"      -> last \in {"assistant", "tool"}

AppendMessage(kind) ==
  /\ MayFollow(kind)
  /\ Add(New(kind))
  /\ UNCHANGED <<compacting, moved, strays, moves>>

Label(target) ==
  /\ target \in IdsOf(entries)
  /\ Add([New("label") EXCEPT !.ref = target])
  /\ UNCHANGED <<compacting, moved, strays, moves>>

-----------------------------------------------------------------------------
(* Compactions: prepared from the branch, applied where the leaf is then.    *)

PrepareCompaction ==
  /\ compacting = NoCompaction
  /\ CanCompact(Current)
  /\ compacting' = Compaction(Current)
  /\ moved' = FALSE
  /\ UNCHANGED <<managerVars, writerVars, minted, record, strays, moves, holes>>

ApplyCompaction ==
  /\ compacting # NoCompaction
  /\ Add([New("compaction") EXCEPT !.ref = compacting.ref, !.sum = compacting.sum])
  /\ compacting' = NoCompaction
  /\ strays' = IF moved THEN strays \cup {minted'} ELSE strays
  /\ UNCHANGED <<moved, moves>>

(* The summary failed or was cancelled.                                      *)
DropCompaction ==
  /\ compacting # NoCompaction
  /\ compacting' = NoCompaction
  /\ UNCHANGED <<managerVars, writerVars, minted, record, moved, strays, moves, holes>>

-----------------------------------------------------------------------------
(* navigate_tree.  A user message is taken back: the leaf is its parent,     *)
(* which must be known.                                                      *)

MayMove == moves < MaxMoves /\ moves' = moves + 1

NewLeaf(e) == IF e.kind = "user" THEN e.parent ELSE e.id

MayGoTo(e) == e.kind # "record" /\ e.id # leaf /\ NewLeaf(e) \in IdsOf(entries) \cup {0}

Navigate(e) ==
  /\ MayMove
  /\ MayGoTo(e)
  /\ leaf' = NewLeaf(e)
  /\ moved' = TRUE
  /\ UNCHANGED <<entries, flushed, file, writerVars, minted, record, compacting, strays, holes>>

(* branch_with_summary, when there is something to summarize.                *)
NavigateSummarized(e) ==
  /\ MayMove
  /\ MayGoTo(e)
  /\ leaf \notin IdsOf(Branch(entries, e.id)) \cup {0}
  /\ Add([New("summary") EXCEPT !.parent = NewLeaf(e)])
  /\ moved' = TRUE
  /\ UNCHANGED <<compacting, strays>>

-----------------------------------------------------------------------------
(* The session writer.                                                       *)

WriteOne ==
  /\ queued # <<>>
  /\ disk' = [disk EXCEPT ![Head(queued).file] = Written(@, Head(queued))]
  /\ queued' = Tail(queued)
  /\ UNCHANGED <<managerVars, faults, minted, record, compacting, moved, strays, moves, holes>>

WriteFails ==
  /\ queued # <<>> /\ faults < MaxFaults
  /\ faults' = faults + 1
  /\ queued' = Tail(queued)
  /\ holes' = holes \cup IdsOf(Head(queued).lines)
  /\ UNCHANGED <<managerVars, disk, minted, record, compacting, moved, strays, moves>>

-----------------------------------------------------------------------------
(* append_custom_entry_to_file: a subagent run, begun by a tool call, is     *)
(* recorded in its parent's session file.  The file is read, then the record *)
(* is queued.                                                                *)

ReadForRecord(f) ==
  /\ record = NoRecord /\ queued = <<>> /\ minted < MaxEntries
  /\ Answered(Load(disk[f]))
  /\ record' = [file |-> f, parent |-> LeafOf(Load(disk[f]))]
  /\ UNCHANGED <<managerVars, writerVars, minted, compacting, moved, strays, moves, holes>>

QueueRecord ==
  /\ record # NoRecord /\ minted < MaxEntries
  /\ minted' = minted + 1
  /\ queued' = Append(queued, Append1(record.file, <<Entry(minted + 1, record.parent, "record")>>))
  /\ record' = NoRecord
  /\ UNCHANGED <<managerVars, disk, faults, compacting, moved, strays, moves, holes>>

-----------------------------------------------------------------------------
(* set_session_file.  A file that cannot be read as a session is overwritten *)
(* with an empty one.                                                        *)

\* Mutation of AfterOpen: a compaction goes on in the session put in place.
AfterOpenKept == compacting

(* A compaction being summarized is the old session's.                       *)
AfterOpen == NoCompaction

Open(f, lines) ==
  /\ file' = f
  /\ entries' = Load(lines)
  /\ leaf' = LeafOf(Load(lines))
  /\ flushed' = (lines # <<>>)
  /\ compacting' = AfterOpen /\ moved' = FALSE
  /\ UNCHANGED strays

Restart ==
  /\ MayMove
  /\ Open(file, disk[file])
  /\ queued' = IF disk[file] # <<>> /\ Load(disk[file]) = <<>> THEN <<Replace(file, <<>>)>> ELSE <<>>
  /\ record' = NoRecord
  /\ UNCHANGED <<disk, faults, minted, holes>>

-----------------------------------------------------------------------------
(* /fork: create_branched_session on the file read back, then the new file   *)
(* is opened.                                                                *)

LabelIds(path) == {e.ref : e \in {x \in ToSet(Load(disk[file])) : x.kind = "label"}} \cap IdsOf(path)

\* Mutation of Forked: the path keeps its labels' places but not its run.
ForkedTail(path) == IF path = <<>> THEN <<>> ELSE Tail(path)

(* The path without its labels, and a chain of new labels behind it.         *)
Forked(path) ==
  LET kept   == Only(path, EntryKinds \ {"label"})
      target == SetToSeq(LabelIds(kept))
      above(i) == IF i = 1 THEN (IF kept = <<>> THEN 0 ELSE Last(kept).id) ELSE minted + i - 1
  IN kept \o [i \in DOMAIN target |->
                [Entry(minted + i, above(i), "label") EXCEPT !.ref = target[i]]]

(* /fork goes before a user message, /clone to the leaf.                     *)
Forkable == {leaf} \cup {e.parent : e \in {x \in ToSet(entries) : x.kind = "user"}}

Fork(to) ==
  LET path == Branch(Load(disk[file]), to)
      copy == Forked(path)
  IN /\ MayMove
     /\ queued = <<>> /\ file + 1 \in Files
     /\ to \in Forkable \cap IdsOf(Load(disk[file]))
     /\ minted + Cardinality(LabelIds(path)) <= MaxEntries
     /\ disk' = [disk EXCEPT ![file + 1] = IF Answered(copy) THEN <<Header>> \o copy ELSE <<>>]
     /\ Open(file + 1, disk'[file + 1])
     /\ minted' = minted + Cardinality(LabelIds(path))
     /\ holes' = holes \cup {e.id : e \in {x \in ToSet(path) : x.kind = "label"}}
     /\ UNCHANGED <<queued, faults, record>>

(* /new, and a fork before the first message.                                *)
NewSession ==
  /\ MayMove
  /\ file + 1 \in Files
  /\ Open(file + 1, <<>>)
  /\ UNCHANGED <<writerVars, record, minted, holes>>

-----------------------------------------------------------------------------
FilesNext ==
  \/ \E kind \in MessageKinds : AppendMessage(kind)
  \/ \E target \in EntryIds : Label(target)
  \/ PrepareCompaction \/ ApplyCompaction \/ DropCompaction
  \/ \E e \in ToSet(entries) : Navigate(e) \/ NavigateSummarized(e)
  \/ WriteOne \/ WriteFails
  \/ (\E f \in Files : ReadForRecord(f)) \/ QueueRecord
  \/ Restart
  \/ NewSession \/ \E to \in EntryIds : Fork(to)

FilesSpec == FilesInit /\ [][FilesNext]_filesVars

-----------------------------------------------------------------------------
(* Types; a file is begun when an assistant message has been appended.       *)
FilesTypeOK ==
  /\ entries \in Seq(Entries) /\ Distinct(entries)
  /\ leaf \in IdsOf(entries) \cup {0}
  /\ flushed \in BOOLEAN /\ (Answered(entries) => flushed)
  /\ file \in Files
  /\ disk \in [Files -> Seq(Lines)]
  /\ queued \in Seq(Writes)
  /\ minted \in 0..MaxEntries
  /\ record \in {NoRecord} \cup [file : Files, parent : 0..MaxEntries]
  /\ compacting \in [ref : 0..MaxEntries, sum : SUBSET EntryIds]
  /\ moved \in BOOLEAN /\ moves \in 0..MaxMoves /\ faults \in 0..MaxFaults
  /\ strays \subseteq EntryIds /\ holes \subseteq 0..MaxEntries

(* Run records never fork the conversation and are never continued from      *)
(* (manager.rs:1422-1428).                                                   *)
RecordsBeside ==
  LET records == {e.id : e \in {x \in ToSet(entries) \cup ToSet(Load(Settled(file))) :
                                  x.kind = "record"}}
  IN /\ leaf \notin records
     /\ \A e \in ToSet(Settled(file)) \cup ToSet(entries) : e.parent \notin records

(* Every branch goes back to its root: a parent is an earlier entry, unless  *)
(* its write failed or it was a label that a fork left out.                  *)
PathsRooted ==
  \A i \in DOMAIN entries :
    entries[i].parent \in {0} \cup IdsOf(SubSeq(entries, 1, i - 1)) \cup holes

(* The file of a session holds the whole conversation and nothing else of    *)
(* it once the queue is written, from the first assistant message on: a      *)
(* session file opened before it has one is written anew then.  And what it  *)
(* holds is a tree: every branch goes back to its root, past the records.    *)
FileHoldsSession ==
  /\ faults = 0 /\ Answered(entries) =>
       Conversation(Load(Settled(file))) = Conversation(entries)
  /\ RecordsBeside /\ PathsRooted

(* A restart at any moment, with any part of the queue lost, finds the       *)
(* conversation as it was at an earlier moment.                              *)
RestartFindsPrefix ==
  [][file' = file /\ faults = 0 =>
       \/ IsPrefix(Conversation(entries), Conversation(entries'))
       \/ IsPrefix(Conversation(entries'), Conversation(entries))]_filesVars

(* A compaction keeps a part of its own branch, though messages, labels and  *)
(* other compactions came while it was summarized; navigating away meanwhile *)
(* makes it lose what it kept.                                               *)
CompactionOnPath ==
  [][\A e \in ToSet(entries') \ ToSet(entries) :
       e.kind = "compaction" /\ compacting # NoCompaction /\ compacting' = NoCompaction /\ ~moved
         => e.ref \in IdsOf(Branch(entries, leaf))]_filesVars

(* No compaction of the branch was moved away from while it was summarized.  *)
Sound(path) == strays \cap IdsOf(path) = {}

(* A tool result is shown to the model after its call, also when a           *)
(* compaction has cut the conversation.                                      *)
ResultFollowsCall ==
  holes = {} /\ Sound(Current) =>
    \A i \in DOMAIN Context(Current) :
      Context(Current)[i].kind = "tool" =>
        i > 1 /\ Context(Current)[i - 1].kind \in {"assistant", "tool"}

(* A compaction forgets nothing that was in its context: each message of the *)
(* branch since the last boundary is kept, or is in the summary.             *)
NothingSkipped ==
  CanCompact(Current) =>
    LET c == Compaction(Current)
        start == Boundary(Current)
        keptFrom == Min({i \in DOMAIN Current : Current[i].id = c.ref})
    IN Ids(Current, start, keptFrom - 1) \subseteq c.sum

(* The branch up to an entry is duplicated by a fork (runtime.rs:459-460),   *)
(* if it has an assistant message and no label between its entries.          *)
ForkDuplicates ==
  [][\A to \in EntryIds :
       Fork(to) /\ faults = 0 =>
         LET path == Branch(entries, to)
         IN \/ Context(Branch(entries', leaf')) = Context(path)
            \/ \E e \in ToSet(path) : e.kind = "label"
            \/ ~Answered(path)]_filesVars

(* A summary has, directly or through an earlier one, every message of its   *)
(* branch that is not kept ("an empty summary would silently drop the        *)
(* history being compacted", compaction.rs:601).                             *)
SummaryCovers ==
  \A i \in DOMAIN entries :
    LET e == entries[i]
        path == Branch(entries, e.id)
        kept == {j \in DOMAIN path : path[j].id = e.ref}
    IN e.kind = "compaction" /\ kept # {} /\ Sound(path) => Ids(path, 1, Min(kept) - 1) \subseteq e.sum
=============================================================================
