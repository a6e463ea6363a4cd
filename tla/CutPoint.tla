------------------------------- MODULE CutPoint -------------------------------
(***************************************************************************)
(* What hoocode-agent-compaction decides about a branch of a session       *)
(* (compaction.rs): which entries a compaction keeps and which messages    *)
(* its summary takes in.  A branch is a sequence of entries from the root  *)
(* to the leaf; of an entry, its kind, its id, the entry a compaction      *)
(* keeps from (ref) and the messages its summary has (sum) matter.  A      *)
(* message counts one token; bash and custom messages are left out, which  *)
(* are cut like branch summaries.                                          *)
(***************************************************************************)
EXTENDS Integers, Sequences, FiniteSets, FiniteSetsExt

CONSTANT KeepRecent   \* settings.keep_recent_tokens

ASSUME CutPointAssumption == KeepRecent \in Nat

MessageKinds == {"user", "assistant", "tool"}
InContext == MessageKinds \cup {"summary"}      \* what the model is shown
CutKinds == {"user", "assistant", "summary"}
TurnKinds == {"user", "summary"}

(* The entries of these kinds, in their order.                               *)
Only(path, kinds) ==
  LET picked[i \in 0..Len(path)] ==
        IF i = 0 THEN <<>>
        ELSE IF path[i].kind \in kinds THEN Append(picked[i - 1], path[i])
        ELSE picked[i - 1]
  IN picked[Len(path)]

Ids(path, from, to) == {path[i].id : i \in {j \in from..to : path[j].kind \in InContext}}

\* Mutation of CutPoints: a tool result is as good as any message.
CutPointsAny(path, start) == {i \in start..Len(path) : path[i].kind \in InContext}

(* find_valid_cut_points.                                                    *)
CutPoints(path, start) == {i \in start..Len(path) : path[i].kind \in CutKinds}

(* The newest message from which on KeepRecent tokens are kept; 0 if the     *)
(* branch is shorter.                                                        *)
Enough(path, start) ==
  LET counted(i) == Cardinality({j \in i..Len(path) : path[j].kind \in MessageKinds})
  IN Max({0} \cup {i \in start..Len(path) : path[i].kind \in MessageKinds /\ counted(i) >= KeepRecent})

(* The closest valid point at or after it, else the first one.               *)
Chosen(path, start) ==
  LET after == {c \in CutPoints(path, start) : c >= Enough(path, start)}
  IN IF Enough(path, start) = 0 \/ after = {} THEN Min(CutPoints(path, start)) ELSE Min(after)

(* The settings and labels just before the cut are kept as well.             *)
WithSettings(path, start, cut) ==
  Min({k \in start..cut : \A j \in k..(cut - 1) : path[j].kind \notin MessageKinds \cup {"compaction"}})

(* find_cut_point: the first entry to keep.                                  *)
Cut(path, start) ==
  IF CutPoints(path, start) = {} THEN start
  ELSE WithSettings(path, start, Chosen(path, start))

(* The entry that starts the turn the cut splits; 0 if it splits none.       *)
SplitTurn(path, start, cut) ==
  IF path[cut].kind = "user" THEN 0
  ELSE Max({0} \cup {j \in start..cut : path[j].kind \in TurnKinds})

-----------------------------------------------------------------------------
(* prepare_compaction.                                                       *)

LastCompaction(path) == Max({0} \cup {i \in DOMAIN path : path[i].kind = "compaction"})

(* What the latest compaction of the branch kept from; the entry after it if *)
(* that is not on the branch.                                                *)
Boundary(path) ==
  LET c == LastCompaction(path)
      kept == {i \in DOMAIN path : path[i].id = path[c].ref}
  IN IF c = 0 THEN 1 ELSE IF kept = {} THEN c + 1 ELSE Min(kept)

CanCompact(path) == path # <<>> /\ LastCompaction(path) # Len(path)

(* The messages a new summary takes in, and those of the turn it splits.     *)
\* Mutation of HistoryEnd: the history of a split turn ends at the cut less one.
HistoryEndShort(turn, cut) == IF turn # 0 THEN turn - 1 ELSE cut

HistoryEnd(turn, cut) == IF turn # 0 THEN turn ELSE cut

(* compact: a split turn is summarized apart, and its history is only looked *)
(* at if it has a message.                                                   *)
Compaction(path) ==
  LET start   == Boundary(path)
      cut     == Cut(path, start)
      turn    == SplitTurn(path, start, cut)
      history == Ids(path, start, HistoryEnd(turn, cut) - 1)
      prefix  == IF turn = 0 THEN {} ELSE Ids(path, turn, cut - 1)
      earlier == IF LastCompaction(path) = 0 THEN {} ELSE path[LastCompaction(path)].sum
  IN [ref |-> path[cut].id,
      sum |-> prefix \cup (IF turn # 0 /\ prefix # {} /\ history = {} THEN {}
                           ELSE history \cup earlier)]

-----------------------------------------------------------------------------
(* build_session_context: the last compaction's summary, what it kept and    *)
(* what came after it.                                                       *)
Context(path) ==
  LET c     == LastCompaction(path)
      kept  == {i \in 1..(c - 1) : path[i].id = path[c].ref}
      shown(from, to) == Only(SubSeq(path, from, to), InContext)
  IN IF c = 0 THEN shown(1, Len(path))
     ELSE <<path[c]>> \o (IF kept = {} THEN <<>> ELSE shown(Min(kept), c - 1))
                      \o shown(c + 1, Len(path))
=============================================================================
