----------------------------- MODULE SessionProofs -----------------------------
(***************************************************************************)
(* Proofs about the session: SessionFiles for any number of files,         *)
(* entries, navigations, restarts and lost writes, and CodingSession for   *)
(* any number of requests, runs, retries and aborts.                       *)
(*                                                                         *)
(* What Only, Branch and After compute for every input is proved by        *)
(* induction over the set of the inputs that have the property (Induct,    *)
(* SeqInduct), which needs no theorem with an operator for its parameter.  *)
(* The state's invariant has four layers, each proved from those before    *)
(* it: ids and types, paths, the file, and what the model is shown.        *)
(***************************************************************************)
EXTENDS CodingSession, SessionFiles, WellFoundedInduction, FiniteSetTheorems,
        FunctionTheorems, SequenceTheorems, TLAPS

(* Naturals by induction, over the set of those that have a property.        *)
LEMMA Induct ==
  ASSUME NEW n \in Nat, NEW T, 0 \in T, \A i \in 1..n : i - 1 \in T => i \in T
  PROVE  0..n \subseteq T
<1> SUFFICES ASSUME NEW j \in 0..n, j \notin T PROVE FALSE
  OBVIOUS
<1> DEFINE Missing == {i \in 0..n : i \notin T}
           Less == OpToRel(<, Nat)
<1>1. IsWellFoundedOn(Less, Nat) BY NatLessThanWellFounded
<1>2. Missing \subseteq Nat /\ Missing # {} OBVIOUS
<1>3. PICK i \in Missing : \A k \in Missing : <<k, i>> \notin Less
  <2> HIDE DEF Missing, Less
  <2> QED BY <1>1, <1>2, WFMin
<1> HIDE DEF Less
<1>4. i \in 1..n BY <1>3
<1>5. i - 1 \in T
  <2> SUFFICES ASSUME i - 1 \notin T PROVE FALSE OBVIOUS
  <2>1. i - 1 \in Missing BY <1>4
  <2>2. <<i - 1, i>> \in Less BY <1>4 DEF Less, OpToRel
  <2> QED BY <1>3, <2>1, <2>2
<1> QED BY <1>3, <1>4, <1>5

(* g starts with b and goes on as F says.                                    *)
Follows(g, n, S, b, F) ==
  g \in [0..n -> S] /\ g[0] = b /\ \A i \in 1..n : g[i] = F[<<g[i - 1], i>>]

(* A function on an initial segment of the naturals may be defined by        *)
(* recursion.                                                                *)
LEMMA Recursion ==
  ASSUME NEW n \in Nat, NEW S, NEW b \in S, NEW F \in [S \X (1..n) -> S]
  PROVE  \E g : Follows(g, n, S, b, F)
<1> DEFINE Defined(m) == \E g \in [0..m -> S] :
                           g[0] = b /\ \A i \in 1..m : g[i] = F[<<g[i - 1], i>>]
           T == {m \in 0..n : Defined(m)}
<1>1. 0 \in T
  <2> DEFINE g == [i \in 0..0 |-> b]
  <2>1. g \in [0..0 -> S] /\ g[0] = b /\ 1..0 = {} OBVIOUS
  <2> HIDE DEF g
  <2>2. Defined(0) BY <2>1
  <2> QED BY <2>2
<1>2. ASSUME NEW m \in 1..n, m - 1 \in T PROVE m \in T
  <2>1. PICK g \in [0..(m - 1) -> S] :
          g[0] = b /\ \A i \in 1..(m - 1) : g[i] = F[<<g[i - 1], i>>]
    BY <1>2
  <2> DEFINE h == [i \in 0..m |-> IF i = m THEN F[<<g[m - 1], m>>] ELSE g[i]]
  <2>2. F[<<g[m - 1], m>>] \in S
    <3>1. g[m - 1] \in S BY m - 1 \in 0..(m - 1)
    <3> QED BY <3>1
  <2>3. h \in [0..m -> S]
    <3>1. \A i \in 0..m : i # m => g[i] \in S BY \A i \in 0..m : i # m => i \in 0..(m - 1)
    <3> QED BY <2>2, <3>1
  <2>4. h[0] = b BY <2>1
  <2>5. ASSUME NEW i \in 1..m PROVE h[i] = F[<<h[i - 1], i>>]
    <3>1. i - 1 \in 0..m /\ i - 1 # m /\ h[i - 1] = g[i - 1] OBVIOUS
    <3>2. CASE i = m BY <3>1, <3>2
    <3>3. CASE i # m
      <4>1. i \in 1..(m - 1) /\ h[i] = g[i] BY <3>3
      <4> QED BY <2>1, <3>1, <4>1
    <3> QED BY <3>2, <3>3
  <2> HIDE DEF h
  <2>6. Defined(m) BY <2>3, <2>4, <2>5
  <2> QED BY <2>6
<1> HIDE DEF T
<1>3. 0..n \subseteq T BY <1>1, <1>2, Induct
<1>4. n \in 0..n OBVIOUS
<1>5. n \in T BY <1>3, <1>4
<1>6. Defined(n)
  <2> HIDE DEF Defined
  <2> QED BY <1>5 DEF T
<1> QED BY <1>6 DEF Follows

-----------------------------------------------------------------------------
(* Sequences.                                                                *)

(* The initial parts of a sequence.                                          *)
LEMMA InitialParts ==
  ASSUME NEW S, NEW s \in Seq(S)
  PROVE  /\ SubSeq(s, 1, 0) = <<>> /\ SubSeq(s, 1, Len(s)) = s
         /\ \A i \in 1..Len(s) : /\ SubSeq(s, 1, i - 1) \in Seq(S) /\ s[i] \in S
                                 /\ SubSeq(s, 1, i) = Append(SubSeq(s, 1, i - 1), s[i])
<1>1. SubSeq(s, 1, 0) = <<>> OBVIOUS
<1>2. SubSeq(s, 1, Len(s)) = s OBVIOUS
<1>3. ASSUME NEW i \in 1..Len(s)
      PROVE  /\ SubSeq(s, 1, i - 1) \in Seq(S) /\ s[i] \in S
             /\ SubSeq(s, 1, i) = Append(SubSeq(s, 1, i - 1), s[i])
  <2>1. s[i] \in S OBVIOUS
  <2>2. SubSeq(s, 1, i - 1) \in Seq(S) /\ Len(SubSeq(s, 1, i - 1)) = i - 1 OBVIOUS
  <2>3. SubSeq(s, 1, i) \in Seq(S) /\ Len(SubSeq(s, 1, i)) = i OBVIOUS
  <2>4. \A j \in 1..i : SubSeq(s, 1, i)[j] = Append(SubSeq(s, 1, i - 1), s[i])[j] OBVIOUS
  <2> QED BY <2>1, <2>2, <2>3, <2>4, SeqEqual
<1> QED BY <1>1, <1>2, <1>3

(* Sequences by induction, over the set of those that have a property.       *)
LEMMA SeqInduct ==
  ASSUME NEW S, NEW T, T \subseteq Seq(S), <<>> \in T, \A s \in T, e \in S : Append(s, e) \in T
  PROVE  Seq(S) \subseteq T
<1> SUFFICES ASSUME NEW s \in Seq(S) PROVE s \in T
  OBVIOUS
<1> DEFINE I == {i \in 0..Len(s) : SubSeq(s, 1, i) \in T}
<1>1. /\ SubSeq(s, 1, 0) = <<>> /\ SubSeq(s, 1, Len(s)) = s
      /\ \A i \in 1..Len(s) : /\ SubSeq(s, 1, i - 1) \in Seq(S) /\ s[i] \in S
                              /\ SubSeq(s, 1, i) = Append(SubSeq(s, 1, i - 1), s[i])
  BY InitialParts
<1>2. Len(s) \in Nat OBVIOUS
<1>3. 0 \in I
  <2>1. SubSeq(s, 1, 0) \in T BY <1>1, Zenon
  <2> QED BY <2>1, <1>2
<1>4. ASSUME NEW i \in 1..Len(s), i - 1 \in I PROVE i \in I
  <2>1. SubSeq(s, 1, i) \in T BY <1>1, <1>4
  <2> QED BY <2>1, <1>2
<1> HIDE DEF I
<1>5. 0..Len(s) \subseteq I BY <1>2, <1>3, <1>4, Induct
<1>6. Len(s) \in 0..Len(s) BY <1>2
<1>7. Len(s) \in I BY <1>5, <1>6
<1> QED BY <1>1, <1>7 DEF I

(* Two functions that take the same steps are the same.                      *)
StepsAgree(g, h, n) ==
  g[0] = h[0] /\ \A i \in 1..n : g[i - 1] = h[i - 1] => g[i] = h[i]

(* So they agree everywhere.                                                 *)
LEMMA SameSteps ==
  ASSUME NEW n \in Nat, NEW g, NEW h, StepsAgree(g, h, n)
  PROVE  \A i \in 0..n : g[i] = h[i]
<1> DEFINE T == {i \in 0..n : g[i] = h[i]}
<1>1. 0 \in T BY DEF StepsAgree
<1>2. ASSUME NEW i \in 1..n, i - 1 \in T PROVE i \in T BY <1>2 DEF StepsAgree
<1> HIDE DEF T
<1>3. 0..n \subseteq T BY <1>1, <1>2, Induct
<1> QED BY <1>3 DEF T

-----------------------------------------------------------------------------
(* The entries of some kinds.                                                *)

(* What is picked from the first entries of a path.                          *)
Picks(g, S, path, kinds) ==
  /\ g \in [0..Len(path) -> Seq(S)] /\ g[0] = <<>>
  /\ \A i \in 1..Len(path) :
       g[i] = IF path[i].kind \in kinds THEN Append(g[i - 1], path[i]) ELSE g[i - 1]

(* Only picks from the left.                                                 *)
LEMMA OnlyIs ==
  ASSUME NEW S, NEW path \in Seq(S), NEW kinds
  PROVE  \E g : Picks(g, S, path, kinds) /\ Only(path, kinds) = g[Len(path)]
<1> DEFINE n == Len(path)
           W == Seq(S)
           Next1(s, i) == IF path[i].kind \in kinds THEN Append(s, path[i]) ELSE s
           F == [p \in W \X (1..n) |-> Next1(p[1], p[2])]
           Picked(f) == f = [i \in 0..n |-> IF i = 0 THEN <<>> ELSE Next1(f[i - 1], i)]
           picked == CHOOSE f : Picked(f)
<1>1. n \in Nat /\ <<>> \in W OBVIOUS
<1>2. F \in [W \X (1..n) -> W] OBVIOUS
<1>3. PICK g : Follows(g, n, W, <<>>, F)
  <2> HIDE DEF F, n, W
  <2> QED BY <1>1, <1>2, Recursion
<1>4. g \in [0..n -> W] /\ g[0] = <<>> BY <1>3 DEF Follows
<1>5. ASSUME NEW i \in 1..n PROVE g[i] = Next1(g[i - 1], i)
  <2>1. g[i - 1] \in W BY <1>1, <1>4
  <2>2. g[i] = F[<<g[i - 1], i>>] BY <1>3 DEF Follows
  <2> QED BY <2>1, <2>2
<1> HIDE DEF n, F, W, Next1
<1>6. Picked(g)
  <2>1. g = [i \in 0..n |-> g[i]] BY <1>4
  <2>2. ASSUME NEW i \in 0..n PROVE g[i] = IF i = 0 THEN <<>> ELSE Next1(g[i - 1], i)
    <3>1. i = 0 \/ i \in 1..n BY <1>1
    <3> QED BY <1>1, <1>4, <1>5, <3>1
  <2> QED BY <2>1, <2>2, Zenon
<1>7. Picked(picked) BY <1>6, Zenon
<1>8. Only(path, kinds) = picked[n] BY DEF Only, n, Next1
<1> HIDE DEF picked
<1>9. \A i \in 0..n : picked[i] = g[i]
  <2>1. picked[0] = g[0] BY <1>1, <1>4, <1>7
  <2>2. ASSUME NEW i \in 1..n, picked[i - 1] = g[i - 1] PROVE picked[i] = g[i]
    <3>1. i \in 0..n /\ i # 0 BY <1>1
    <3>2. picked[i] = Next1(picked[i - 1], i) BY <1>7, <3>1
    <3> QED BY <1>5, <2>2, <3>2
  <2>3. StepsAgree(picked, g, n) BY <2>1, <2>2 DEF StepsAgree
  <2> QED BY <1>1, <2>3, SameSteps
<1>10. Only(path, kinds) = g[n] BY <1>1, <1>8, <1>9
<1>11. Picks(g, S, path, kinds) BY <1>4, <1>5 DEF Picks, n, W, Next1
<1> QED BY <1>10, <1>11 DEF n

(* Picking from a sequence with one more entry.                              *)
LEMMA OnlyAppend ==
  ASSUME NEW S, NEW path \in Seq(S), NEW e \in S, NEW kinds
  PROVE  /\ Only(path, kinds) \in Seq(S)
         /\ Only(Append(path, e), kinds) = IF e.kind \in kinds
                                           THEN Append(Only(path, kinds), e)
                                           ELSE Only(path, kinds)
<1> DEFINE n == Len(path)
           longer == Append(path, e)
<1>0. longer \in Seq(S) OBVIOUS
<1>1. n \in Nat /\ Len(longer) = n + 1 /\ longer[n + 1] = e
      /\ \A i \in 1..n : longer[i] = path[i]
  OBVIOUS
<1> HIDE DEF longer
<1>2. PICK g : Picks(g, S, path, kinds) /\ Only(path, kinds) = g[n] BY OnlyIs
<1>3. PICK h : Picks(h, S, longer, kinds) /\ Only(longer, kinds) = h[n + 1]
  BY <1>0, <1>1, OnlyIs
<1>4. \A i \in 1..(n + 1) :
        h[i] = IF longer[i].kind \in kinds THEN Append(h[i - 1], longer[i]) ELSE h[i - 1]
  BY <1>1, <1>3 DEF Picks
<1>5. \A i \in 0..n : g[i] = h[i]
  <2>1. g[0] = h[0] BY <1>2, <1>3 DEF Picks
  <2>2. ASSUME NEW i \in 1..n, g[i - 1] = h[i - 1] PROVE g[i] = h[i]
    <3>1. i \in 1..(n + 1) /\ longer[i] = path[i] BY <1>1
    <3>2. g[i] = IF path[i].kind \in kinds THEN Append(g[i - 1], path[i]) ELSE g[i - 1]
      BY <1>2 DEF Picks
    <3> QED BY <1>4, <2>2, <3>1, <3>2
  <2>3. StepsAgree(g, h, n) BY <2>1, <2>2 DEF StepsAgree
  <2> QED BY <1>1, <2>3, SameSteps
<1>6. n + 1 \in 1..(n + 1) /\ (n + 1) - 1 = n /\ n \in 0..n BY <1>1
<1>7. h[n + 1] = IF e.kind \in kinds THEN Append(h[n], e) ELSE h[n] BY <1>1, <1>4, <1>6
<1>8. g[n] \in Seq(S) BY <1>2, <1>6 DEF Picks
<1> QED BY <1>2, <1>3, <1>5, <1>6, <1>7, <1>8 DEF longer

(* Picking from nothing.                                                     *)
LEMMA OnlyEmpty ==
  ASSUME NEW kinds PROVE Only(<<>>, kinds) = <<>>
<1> DEFINE none == <<>>
<1>1. none \in Seq({}) /\ Len(none) = 0 OBVIOUS
<1> HIDE DEF none
<1>2. PICK g : Picks(g, {}, none, kinds) /\ Only(none, kinds) = g[Len(none)] BY <1>1, OnlyIs
<1>3. g[0] = <<>> BY <1>2 DEF Picks
<1> QED BY <1>1, <1>2, <1>3 DEF none

-----------------------------------------------------------------------------
(* Branches.                                                                 *)

AnyId == 0..MaxEntries

(* The branches of the first entries.                                        *)
Walks(g, es) ==
  /\ g \in [0..Len(es) -> [AnyId -> Seq(Entries)]] /\ g[0] = [x \in AnyId |-> <<>>]
  /\ \A i \in 1..Len(es), x \in AnyId :
       g[i][x] = IF es[i].id = x THEN Append(g[i - 1][es[i].parent], es[i]) ELSE g[i - 1][x]

(* The fields of an entry.                                                   *)
LEMMA EntryFields ==
  ASSUME NEW e \in Entries
  PROVE  /\ e.id \in EntryIds /\ e.id \in AnyId /\ e.parent \in AnyId /\ e.kind \in EntryKinds
         /\ e.ref \in AnyId /\ e.sum \subseteq EntryIds /\ e # Header /\ e.id # 0
BY SessionFilesAssumption DEF Entries, AnyId, EntryIds, Header, Entry, EntryKinds, InContext,
   MessageKinds

(* Branch walks from the right.                                              *)
LEMMA BranchIs ==
  ASSUME NEW es \in Seq(Entries)
  PROVE  \E g : Walks(g, es) /\ \A x \in AnyId : Branch(es, x) = g[Len(es)][x]
<1> DEFINE n == Len(es)
           W == [AnyId -> Seq(Entries)]
           none == [x \in AnyId |-> <<>>]
           Longer(s, i, x) == IF es[i].id = x THEN Append(s[es[i].parent], es[i]) ELSE s[x]
           F == [p \in W \X (1..n) |-> [x \in AnyId |-> Longer(p[1], p[2], x)]]
           Walked(f) == f = [i \in 0..n |-> [next \in AnyId |->
                               IF i = 0 THEN <<>>
                               ELSE IF es[i].id = next
                                    THEN Append(f[i - 1][es[i].parent], es[i])
                               ELSE f[i - 1][next]]]
           walked == CHOOSE f : Walked(f)
<1>1. n \in Nat /\ none \in W /\ \A i \in 1..n : es[i] \in Entries OBVIOUS
<1>2. \A i \in 1..n : es[i].parent \in AnyId /\ es[i].id \in AnyId BY <1>1, EntryFields
<1>3. \A s \in W, i \in 1..n, x \in AnyId : Longer(s, i, x) \in Seq(Entries)
  <2> TAKE s \in W, i \in 1..n, x \in AnyId
  <2>1. es[i].parent \in AnyId BY <1>2
  <2>2. s[es[i].parent] \in Seq(Entries) /\ s[x] \in Seq(Entries) BY <2>1
  <2> QED BY <1>1, <2>2
<1>4. F \in [W \X (1..n) -> W]
  <2> HIDE DEF Longer
  <2> QED BY <1>3
<1>5. PICK g : Follows(g, n, W, none, F)
  <2> HIDE DEF F, n, W, none
  <2> QED BY <1>1, <1>4, Recursion
<1>6. g \in [0..n -> W] /\ g[0] = none BY <1>5 DEF Follows
<1>7. \A i \in 1..n, x \in AnyId : g[i][x] = Longer(g[i - 1], i, x)
  <2> TAKE i \in 1..n, x \in AnyId
  <2> HIDE DEF Longer, W, none, n
  <2>1. g[i - 1] \in W BY <1>1, <1>6
  <2>2. g[i] = F[<<g[i - 1], i>>] BY <1>5 DEF Follows
  <2> QED BY <2>1, <2>2
<1>8. \A x \in AnyId : g[0][x] = <<>> BY <1>6
<1>9. Walked(g)
  <2>1. g = [i \in 0..n |-> g[i]] BY <1>6
  <2>2. ASSUME NEW i \in 0..n
        PROVE  g[i] = [next \in AnyId |->
                         IF i = 0 THEN <<>>
                         ELSE IF es[i].id = next THEN Append(g[i - 1][es[i].parent], es[i])
                         ELSE g[i - 1][next]]
    <3>1. i = 0 \/ i \in 1..n BY <1>1
    <3>2. g[i] = [next \in AnyId |-> g[i][next]] BY <1>6
    <3>3. ASSUME NEW next \in AnyId
          PROVE  g[i][next] = IF i = 0 THEN <<>>
                              ELSE IF es[i].id = next
                                   THEN Append(g[i - 1][es[i].parent], es[i])
                              ELSE g[i - 1][next]
      BY <1>1, <1>7, <1>8, <3>1
    <3> QED BY <3>2, <3>3, Zenon
  <2> HIDE DEF n
  <2> QED BY <2>1, <2>2, Zenon
<1>10. Walked(walked) BY <1>9, Zenon
<1>11. \A x \in AnyId : Branch(es, x) = walked[n][x] BY DEF Branch, AnyId
<1> HIDE DEF walked
<1>12. \A i \in 0..n :
         walked[i] = [x \in AnyId |->
                        IF i = 0 THEN <<>>
                        ELSE IF es[i].id = x THEN Append(walked[i - 1][es[i].parent], es[i])
                        ELSE walked[i - 1][x]]
  <2> HIDE DEF n
  <2> QED BY <1>10, Zenon
<1> HIDE DEF Walked
<1>13. \A i \in 0..n : walked[i] = g[i]
  <2>1. walked[0] = g[0]
    <3>1. 0 \in 0..n BY <1>1
    <3> HIDE DEF n
    <3>2. walked[0] = [x \in AnyId |->
                         IF 0 = 0 THEN <<>>
                         ELSE IF es[0].id = x THEN Append(walked[0 - 1][es[0].parent], es[0])
                         ELSE walked[0 - 1][x]]
      BY <1>12, <3>1, Zenon
    <3> QED BY <1>6, <3>2
  <2>2. ASSUME NEW i \in 1..n, walked[i - 1] = g[i - 1] PROVE walked[i] = g[i]
    <3>1. i \in 0..n /\ i # 0 BY <1>1
    <3>2. walked[i] = [x \in AnyId |-> Longer(walked[i - 1], i, x)] BY <1>12, <3>1
    <3>3. g[i] = [x \in AnyId |-> g[i][x]] BY <1>6, <3>1
    <3> HIDE DEF Longer
    <3> QED BY <1>7, <2>2, <3>2, <3>3
  <2>3. StepsAgree(walked, g, n) BY <2>1, <2>2 DEF StepsAgree
  <2> QED BY <1>1, <2>3, SameSteps
<1>14. \A x \in AnyId : Branch(es, x) = g[n][x] BY <1>1, <1>11, <1>13
<1>15. Walks(g, es) BY <1>6, <1>7 DEF Walks
<1> QED BY <1>14, <1>15

(* The branches of no entries.                                               *)
LEMMA BranchEmpty ==
  ASSUME NEW x \in AnyId PROVE Branch(<<>>, x) = <<>>
<1> DEFINE none == <<>>
<1>1. none \in Seq(Entries) /\ Len(none) = 0 OBVIOUS
<1> HIDE DEF none
<1>2. PICK g : Walks(g, none) /\ \A y \in AnyId : Branch(none, y) = g[Len(none)][y]
  BY <1>1, BranchIs
<1>3. g[0][x] = <<>> BY <1>2 DEF Walks
<1> QED BY <1>1, <1>2, <1>3 DEF none

(* One more entry lengthens the branch of its parent, and leaves the others  *)
(* alone.                                                                    *)
LEMMA BranchAppend ==
  ASSUME NEW es \in Seq(Entries), NEW e \in Entries, NEW x \in AnyId
  PROVE  /\ Branch(es, x) \in Seq(Entries)
         /\ Branch(Append(es, e), x) = IF e.id = x THEN Append(Branch(es, e.parent), e)
                                       ELSE Branch(es, x)
<1> DEFINE n == Len(es)
           longer == Append(es, e)
<1>0. longer \in Seq(Entries) OBVIOUS
<1>1. n \in Nat /\ Len(longer) = n + 1 /\ longer[n + 1] = e /\ \A i \in 1..n : longer[i] = es[i]
  OBVIOUS
<1> HIDE DEF longer
<1>2. PICK g : Walks(g, es) /\ \A y \in AnyId : Branch(es, y) = g[n][y] BY BranchIs
<1>3. PICK h : Walks(h, longer) /\ \A y \in AnyId : Branch(longer, y) = h[n + 1][y]
  BY <1>0, <1>1, BranchIs
<1>4. \A i \in 1..(n + 1), y \in AnyId :
        h[i][y] = IF longer[i].id = y THEN Append(h[i - 1][longer[i].parent], longer[i])
                  ELSE h[i - 1][y]
  BY <1>1, <1>3 DEF Walks
<1>5. \A i \in 0..n : g[i] \in [AnyId -> Seq(Entries)] BY <1>2 DEF Walks
<1>6. \A i \in 0..(n + 1) : h[i] \in [AnyId -> Seq(Entries)] BY <1>1, <1>3 DEF Walks
<1>7. \A i \in 0..n : g[i] = h[i]
  <2>1. g[0] = h[0] BY <1>2, <1>3 DEF Walks
  <2>2. ASSUME NEW i \in 1..n, g[i - 1] = h[i - 1] PROVE g[i] = h[i]
    <3>1. i \in 1..(n + 1) /\ longer[i] = es[i] BY <1>1
    <3>2. \A y \in AnyId : g[i][y] = IF es[i].id = y THEN Append(g[i - 1][es[i].parent], es[i])
                                     ELSE g[i - 1][y]
      BY <1>2 DEF Walks
    <3>3. \A y \in AnyId : g[i][y] = h[i][y] BY <1>4, <2>2, <3>1, <3>2
    <3>4. i \in 0..n /\ i \in 0..(n + 1) BY <1>1
    <3> QED BY <1>5, <1>6, <3>3, <3>4
  <2>3. StepsAgree(g, h, n) BY <2>1, <2>2 DEF StepsAgree
  <2> QED BY <1>1, <2>3, SameSteps
<1>8. n + 1 \in 1..(n + 1) /\ (n + 1) - 1 = n /\ n \in 0..n BY <1>1
<1>9. h[n + 1][x] = IF e.id = x THEN Append(h[n][e.parent], e) ELSE h[n][x] BY <1>1, <1>4, <1>8
<1>10. e.parent \in AnyId BY EntryFields
<1>11. g[n][x] \in Seq(Entries) BY <1>5, <1>8
<1> QED BY <1>2, <1>3, <1>7, <1>8, <1>9, <1>10, <1>11 DEF longer

-----------------------------------------------------------------------------
(* Writes.                                                                   *)

(* What a write makes of a file.                                             *)
LEMMA WrittenIs ==
  ASSUME NEW lines \in Seq(Lines), NEW w \in Writes
  PROVE  /\ w.file \in Files /\ w.whole \in BOOLEAN /\ w.lines \in Seq(Lines)
         /\ Written(lines, w) \in Seq(Lines)
         /\ ToSet(Written(lines, w)) \subseteq ToSet(lines) \cup ToSet(w.lines)
<1>1. w.file \in Files /\ w.whole \in BOOLEAN /\ w.lines \in Seq(Lines) BY DEF Writes
<1>2. lines \o w.lines \in Seq(Lines) /\ Len(lines \o w.lines) = Len(lines) + Len(w.lines)
  BY <1>1
<1>3. ASSUME NEW i \in DOMAIN (lines \o w.lines)
      PROVE  (lines \o w.lines)[i] \in ToSet(lines) \cup ToSet(w.lines)
  BY <1>1, <1>2 DEF ToSet
<1> QED BY <1>1, <1>2, <1>3 DEF Written, ToSet

(* The lines of a file while the writes are made.                            *)
Makes(g, lines, writes, f) ==
  /\ g \in [0..Len(writes) -> Seq(Lines)] /\ g[0] = lines
  /\ \A i \in 1..Len(writes) :
       g[i] = IF writes[i].file = f THEN Written(g[i - 1], writes[i]) ELSE g[i - 1]

(* After makes the writes in their order.                                    *)
LEMMA AfterIs ==
  ASSUME NEW lines \in Seq(Lines), NEW writes \in Seq(Writes), NEW f
  PROVE  \E g : Makes(g, lines, writes, f) /\ After(lines, writes, f) = g[Len(writes)]
<1> DEFINE n == Len(writes)
           W == Seq(Lines)
           Next1(s, i) == IF writes[i].file = f THEN Written(s, writes[i]) ELSE s
           F == [p \in W \X (1..n) |-> Next1(p[1], p[2])]
           Made(g) == g = [k \in 0..n |-> IF k = 0 THEN lines ELSE Next1(g[k - 1], k)]
           made == CHOOSE g : Made(g)
<1>1. n \in Nat /\ lines \in W /\ \A i \in 1..n : writes[i] \in Writes OBVIOUS
<1>2. \A s \in W, i \in 1..n : Next1(s, i) \in W
  <2> TAKE s \in W, i \in 1..n
  <2>1. Written(s, writes[i]) \in W BY <1>1, WrittenIs
  <2> QED BY <2>1
<1>3. F \in [W \X (1..n) -> W]
  <2> HIDE DEF Next1, W, n
  <2> QED BY <1>2
<1>4. PICK g : Follows(g, n, W, lines, F)
  <2> HIDE DEF F, n, W
  <2> QED BY <1>1, <1>3, Recursion
<1>5. g \in [0..n -> W] /\ g[0] = lines BY <1>4 DEF Follows
<1>6. ASSUME NEW i \in 1..n PROVE g[i] = Next1(g[i - 1], i)
  <2> HIDE DEF Next1, W, n
  <2>1. g[i - 1] \in W BY <1>1, <1>5
  <2>2. g[i] = F[<<g[i - 1], i>>] BY <1>4 DEF Follows
  <2> QED BY <2>1, <2>2
<1> HIDE DEF n, F, W, Next1
<1>7. Made(g)
  <2>1. g = [i \in 0..n |-> g[i]] BY <1>5
  <2>2. ASSUME NEW i \in 0..n PROVE g[i] = IF i = 0 THEN lines ELSE Next1(g[i - 1], i)
    <3>1. i = 0 \/ i \in 1..n BY <1>1
    <3> QED BY <1>1, <1>5, <1>6, <3>1
  <2> QED BY <2>1, <2>2, Zenon
<1>8. Made(made) BY <1>7, Zenon
<1>9. After(lines, writes, f) = made[n] BY DEF After, n, Next1
<1> HIDE DEF made
<1>10. \A i \in 0..n : made[i] = g[i]
  <2>1. made[0] = g[0] BY <1>1, <1>5, <1>8
  <2>2. ASSUME NEW i \in 1..n, made[i - 1] = g[i - 1] PROVE made[i] = g[i]
    <3>1. i \in 0..n /\ i # 0 BY <1>1
    <3>2. made[i] = Next1(made[i - 1], i) BY <1>8, <3>1
    <3> QED BY <1>6, <2>2, <3>2
  <2>3. StepsAgree(made, g, n) BY <2>1, <2>2 DEF StepsAgree
  <2> QED BY <1>1, <2>3, SameSteps
<1>11. After(lines, writes, f) = g[n] BY <1>1, <1>9, <1>10
<1>12. Makes(g, lines, writes, f) BY <1>5, <1>6 DEF Makes, n, W, Next1
<1> QED BY <1>11, <1>12 DEF n

(* A file no write is made to.                                               *)
LEMMA AfterNone ==
  ASSUME NEW lines \in Seq(Lines), NEW f PROVE After(lines, <<>>, f) = lines
<1> DEFINE none == <<>>
<1>1. none \in Seq(Writes) /\ Len(none) = 0 OBVIOUS
<1> HIDE DEF none
<1>2. PICK g : Makes(g, lines, none, f) /\ After(lines, none, f) = g[Len(none)] BY <1>1, AfterIs
<1>3. g[0] = lines BY <1>2 DEF Makes
<1> QED BY <1>1, <1>2, <1>3 DEF none

(* One more write is made of what the others made.                           *)
LEMMA AfterAppend ==
  ASSUME NEW lines \in Seq(Lines), NEW writes \in Seq(Writes), NEW w \in Writes, NEW f
  PROVE  /\ After(lines, writes, f) \in Seq(Lines)
         /\ After(lines, Append(writes, w), f) =
              IF w.file = f THEN Written(After(lines, writes, f), w) ELSE After(lines, writes, f)
<1> DEFINE n == Len(writes)
           longer == Append(writes, w)
<1>0. longer \in Seq(Writes) OBVIOUS
<1>1. n \in Nat /\ Len(longer) = n + 1 /\ longer[n + 1] = w
      /\ \A i \in 1..n : longer[i] = writes[i]
  OBVIOUS
<1> HIDE DEF longer
<1>2. PICK g : Makes(g, lines, writes, f) /\ After(lines, writes, f) = g[n] BY AfterIs
<1>3. PICK h : Makes(h, lines, longer, f) /\ After(lines, longer, f) = h[n + 1]
  BY <1>0, <1>1, AfterIs
<1>4. \A i \in 1..(n + 1) :
        h[i] = IF longer[i].file = f THEN Written(h[i - 1], longer[i]) ELSE h[i - 1]
  BY <1>1, <1>3 DEF Makes
<1>5. \A i \in 0..n : g[i] = h[i]
  <2>1. g[0] = h[0] BY <1>2, <1>3 DEF Makes
  <2>2. ASSUME NEW i \in 1..n, g[i - 1] = h[i - 1] PROVE g[i] = h[i]
    <3>1. i \in 1..(n + 1) /\ longer[i] = writes[i] BY <1>1
    <3>2. g[i] = IF writes[i].file = f THEN Written(g[i - 1], writes[i]) ELSE g[i - 1]
      BY <1>2 DEF Makes
    <3> QED BY <1>4, <2>2, <3>1, <3>2
  <2>3. StepsAgree(g, h, n) BY <2>1, <2>2 DEF StepsAgree
  <2> QED BY <1>1, <2>3, SameSteps
<1>6. n + 1 \in 1..(n + 1) /\ (n + 1) - 1 = n /\ n \in 0..n BY <1>1
<1>7. h[n + 1] = IF w.file = f THEN Written(h[n], w) ELSE h[n] BY <1>1, <1>4, <1>6
<1>8. g[n] \in Seq(Lines) BY <1>2, <1>6 DEF Makes
<1> QED BY <1>2, <1>3, <1>5, <1>6, <1>7, <1>8 DEF longer

-----------------------------------------------------------------------------
(* What the walks have in them.                                              *)

(* The elements of a sequence with one more, and of two sequences.           *)
LEMMA ToSetAppend ==
  ASSUME NEW S, NEW s \in Seq(S), NEW e
  PROVE  ToSet(Append(s, e)) = ToSet(s) \cup {e}
<1>1. Len(s) \in Nat /\ DOMAIN Append(s, e) = 1..(Len(s) + 1) /\ Append(s, e)[Len(s) + 1] = e
      /\ DOMAIN s = 1..Len(s) /\ \A i \in 1..Len(s) : Append(s, e)[i] = s[i]
  OBVIOUS
<1>2. \A i \in 1..(Len(s) + 1) : i \in 1..Len(s) \/ i = Len(s) + 1 BY <1>1
<1>3. ASSUME NEW i \in 1..Len(s) PROVE s[i] \in ToSet(Append(s, e))
  <2>1. i \in 1..(Len(s) + 1) BY <1>1
  <2> QED BY <1>1, <2>1 DEF ToSet
<1>4. e \in ToSet(Append(s, e))
  <2>1. Len(s) + 1 \in 1..(Len(s) + 1) BY <1>1
  <2> QED BY <1>1, <2>1 DEF ToSet
<1>5. ToSet(Append(s, e)) \subseteq ToSet(s) \cup {e} BY <1>1, <1>2 DEF ToSet
<1>6. ToSet(s) \subseteq ToSet(Append(s, e)) BY <1>1, <1>3 DEF ToSet
<1> QED BY <1>4, <1>5, <1>6

(* The elements of two sequences.                                            *)
LEMMA ToSetConcat ==
  ASSUME NEW S, NEW s \in Seq(S), NEW t \in Seq(S)
  PROVE  ToSet(s \o t) = ToSet(s) \cup ToSet(t)
<1> DEFINE n == Len(s)
           m == Len(t)
<1>1. n \in Nat /\ m \in Nat /\ DOMAIN (s \o t) = 1..(n + m) /\ DOMAIN s = 1..n /\ DOMAIN t = 1..m
      /\ (\A i \in 1..n : (s \o t)[i] = s[i]) /\ (\A i \in 1..m : (s \o t)[n + i] = t[i])
  OBVIOUS
<1> HIDE DEF n, m
<1>2. \A i \in 1..(n + m) : i \in 1..n \/ (i - n \in 1..m /\ n + (i - n) = i) BY <1>1
<1>3. \A i \in 1..n : i \in 1..(n + m) BY <1>1
<1>4. \A i \in 1..m : n + i \in 1..(n + m) BY <1>1
<1>5. ToSet(s \o t) \subseteq ToSet(s) \cup ToSet(t)
  <2> SUFFICES ASSUME NEW i \in 1..(n + m) PROVE (s \o t)[i] \in ToSet(s) \cup ToSet(t)
    BY <1>1 DEF ToSet
  <2>1. CASE i \in 1..n BY <1>1, <2>1 DEF ToSet
  <2>2. CASE i - n \in 1..m /\ n + (i - n) = i
    <3>1. (s \o t)[i] = t[i - n] BY <1>1, <2>2
    <3> QED BY <1>1, <2>2, <3>1 DEF ToSet
  <2> QED BY <1>2, <2>1, <2>2
<1>6. ToSet(s) \subseteq ToSet(s \o t)
  <2> SUFFICES ASSUME NEW i \in 1..n PROVE s[i] \in ToSet(s \o t) BY <1>1 DEF ToSet
  <2> QED BY <1>1, <1>3 DEF ToSet
<1>7. ToSet(t) \subseteq ToSet(s \o t)
  <2> SUFFICES ASSUME NEW i \in 1..m PROVE t[i] \in ToSet(s \o t) BY <1>1 DEF ToSet
  <2> QED BY <1>1, <1>4 DEF ToSet
<1> QED BY <1>5, <1>6, <1>7

(* The ids of a sequence are those of its elements.                          *)
LEMMA IdsAre ==
  ASSUME NEW es PROVE IdsOf(es) = {e.id : e \in ToSet(es)}
BY DEF IdsOf, ToSet

(* What is picked is what has one of the kinds.                              *)
LEMMA OnlyElements ==
  ASSUME NEW S, NEW path \in Seq(S), NEW kinds
  PROVE  /\ Only(path, kinds) \in Seq(S)
         /\ ToSet(Only(path, kinds)) = {e \in ToSet(path) : e.kind \in kinds}
<1> DEFINE P(s) == ToSet(Only(s, kinds)) = {e \in ToSet(s) : e.kind \in kinds}
           T == {s \in Seq(S) : P(s)}
<1>1. <<>> \in T
  <2>1. ToSet(<<>>) = {} BY DEF ToSet
  <2>2. P(<<>>) BY <2>1, OnlyEmpty
  <2> QED BY <2>2
<1>2. ASSUME NEW s \in T, NEW e \in S PROVE Append(s, e) \in T
  <2>1. ToSet(Append(s, e)) = ToSet(s) \cup {e} BY ToSetAppend
  <2>2. CASE e.kind \in kinds
    <3>1. Only(Append(s, e), kinds) = Append(Only(s, kinds), e) /\ Only(s, kinds) \in Seq(S)
      BY <2>2, OnlyAppend
    <3>2. ToSet(Append(Only(s, kinds), e)) = ToSet(Only(s, kinds)) \cup {e} BY <3>1, ToSetAppend
    <3>3. P(Append(s, e)) BY <1>2, <2>1, <2>2, <3>1, <3>2
    <3> QED BY <3>3
  <2>3. CASE e.kind \notin kinds
    <3>1. Only(Append(s, e), kinds) = Only(s, kinds) BY <2>3, OnlyAppend
    <3>2. P(Append(s, e)) BY <1>2, <2>1, <2>3, <3>1
    <3> QED BY <3>2
  <2> QED BY <2>2, <2>3
<1>3. T \subseteq Seq(S) OBVIOUS
<1>4. path \in T
  <2> HIDE DEF T
  <2>1. Seq(S) \subseteq T BY <1>1, <1>2, <1>3, SeqInduct
  <2> QED BY <2>1
<1>5. Only(path, kinds) \in Seq(S)
  <2>1. CASE path = <<>> BY <2>1, OnlyEmpty
  <2>2. CASE path # <<>>
    <3>1. PICK q \in Seq(S), e \in S : path = Append(q, e) BY <2>2, SequenceEmptyOrAppend
    <3>2. Only(q, kinds) \in Seq(S) BY <3>1, OnlyAppend
    <3> QED BY <3>1, <3>2, OnlyAppend
  <2> QED BY <2>1, <2>2
<1> QED BY <1>4, <1>5

(* Picking from two sequences.                                               *)
LEMMA OnlyConcat ==
  ASSUME NEW S, NEW path \in Seq(S), NEW rest \in Seq(S), NEW kinds
  PROVE  Only(path \o rest, kinds) = Only(path, kinds) \o Only(rest, kinds)
<1> DEFINE P(t) == Only(path \o t, kinds) = Only(path, kinds) \o Only(t, kinds)
           T == {t \in Seq(S) : P(t)}
<1>0. Only(path, kinds) \in Seq(S) BY OnlyElements
<1>1. <<>> \in T
  <2>1. path \o <<>> = path /\ Only(path, kinds) \o <<>> = Only(path, kinds) BY <1>0
  <2>2. P(<<>>) BY <2>1, OnlyEmpty
  <2> QED BY <2>2
<1>2. ASSUME NEW t \in T, NEW e \in S PROVE Append(t, e) \in T
  <2>1. path \o Append(t, e) = Append(path \o t, e) /\ path \o t \in Seq(S)
        /\ Append(t, e) \in Seq(S)
    OBVIOUS
  <2>0. path \o t \in Seq(S) OBVIOUS
  <2>2. Only(t, kinds) \in Seq(S) BY OnlyElements
  <2>3. CASE e.kind \in kinds
    <3>1. Only(path \o Append(t, e), kinds) = Append(Only(path \o t, kinds), e)
          /\ Only(Append(t, e), kinds) = Append(Only(t, kinds), e)
      <4>1. Only(Append(t, e), kinds) = Append(Only(t, kinds), e) BY <2>3, OnlyAppend
      <4>2. Only(Append(path \o t, e), kinds) = Append(Only(path \o t, kinds), e)
        BY <2>0, <2>3, OnlyAppend
      <4> QED BY <2>1, <4>1, <4>2, Zenon
    <3>2. Only(path, kinds) \o Append(Only(t, kinds), e) =
            Append(Only(path, kinds) \o Only(t, kinds), e)
      BY <1>0, <2>2
    <3>3. P(Append(t, e)) BY <1>2, <3>1, <3>2
    <3> QED BY <2>1, <3>3
  <2>4. CASE e.kind \notin kinds
    <3>1. Only(path \o Append(t, e), kinds) = Only(path \o t, kinds)
          /\ Only(Append(t, e), kinds) = Only(t, kinds)
      <4>1. Only(Append(t, e), kinds) = Only(t, kinds) BY <2>4, OnlyAppend
      <4>2. Only(Append(path \o t, e), kinds) = Only(path \o t, kinds)
        <5> DEFINE q == path \o t
        <5>1. q \in Seq(S) BY <2>0
        <5> HIDE DEF q
        <5>2. Only(Append(q, e), kinds) = Only(q, kinds) BY <2>4, <5>1, OnlyAppend
        <5> QED BY <5>2 DEF q
      <4> QED BY <2>1, <4>1, <4>2, Zenon
    <3>2. P(Append(t, e)) BY <1>2, <3>1
    <3> QED BY <2>1, <3>2
  <2> QED BY <2>3, <2>4
<1>3. T \subseteq Seq(S) OBVIOUS
<1> HIDE DEF T
<1>4. Seq(S) \subseteq T BY <1>1, <1>2, <1>3, SeqInduct
<1> QED BY <1>4 DEF T

(* A sequence of these kinds only is picked whole.                           *)
LEMMA OnlyAll ==
  ASSUME NEW S, NEW path \in Seq(S), NEW kinds, \A e \in ToSet(path) : e.kind \in kinds
  PROVE  Only(path, kinds) = path
<1> DEFINE P(s) == (\A e \in ToSet(s) : e.kind \in kinds) => Only(s, kinds) = s
           T == {s \in Seq(S) : P(s)}
<1>1. <<>> \in T BY OnlyEmpty
<1>2. ASSUME NEW s \in T, NEW e \in S PROVE Append(s, e) \in T
  <2>1. ToSet(Append(s, e)) = ToSet(s) \cup {e} BY ToSetAppend
  <2>2. Only(Append(s, e), kinds) = IF e.kind \in kinds THEN Append(Only(s, kinds), e)
                                    ELSE Only(s, kinds)
    BY OnlyAppend
  <2>3. P(Append(s, e)) BY <1>2, <2>1, <2>2
  <2> QED BY <2>3
<1>3. T \subseteq Seq(S) OBVIOUS
<1> HIDE DEF T
<1>4. Seq(S) \subseteq T BY <1>1, <1>2, <1>3, SeqInduct
<1> QED BY <1>4 DEF T

(* One more entry keeps the ids distinct if its id is new.                   *)
LEMMA DistinctAppend ==
  ASSUME NEW S, NEW s \in Seq(S), NEW e
  PROVE  Distinct(Append(s, e)) <=> Distinct(s) /\ e.id \notin IdsOf(s)
<1> DEFINE n == Len(s)
           longer == Append(s, e)
<1>1. n \in Nat /\ DOMAIN longer = 1..(n + 1) /\ longer[n + 1] = e
      /\ DOMAIN s = 1..n /\ \A i \in 1..n : longer[i] = s[i]
  OBVIOUS
<1> HIDE DEF n, longer
<1>2. \A i \in 1..(n + 1) : i \in 1..n \/ i = n + 1 BY <1>1
<1>3. \A i \in 1..n : i \in 1..(n + 1) /\ i # n + 1 BY <1>1
<1>4. n + 1 \in 1..(n + 1) BY <1>1
<1>5. ASSUME Distinct(longer) PROVE Distinct(s) /\ e.id \notin IdsOf(s)
  BY <1>1, <1>3, <1>4, <1>5 DEF Distinct, IdsOf
<1>6. ASSUME Distinct(s), e.id \notin IdsOf(s) PROVE Distinct(longer)
  BY <1>1, <1>2, <1>6 DEF Distinct, IdsOf
<1> QED BY <1>5, <1>6 DEF longer

(* Picking keeps ids distinct.                                               *)
LEMMA OnlyDistinct ==
  ASSUME NEW S, NEW path \in Seq(S), NEW kinds, Distinct(path)
  PROVE  Distinct(Only(path, kinds))
<1> DEFINE P(s) == Distinct(s) => Distinct(Only(s, kinds))
           T == {s \in Seq(S) : P(s)}
<1>1. <<>> \in T
  <2>1. Only(<<>>, kinds) = <<>> BY OnlyEmpty
  <2>2. P(<<>>) BY <2>1, Zenon
  <2> QED BY <2>2
<1>2. ASSUME NEW s \in T, NEW e \in S PROVE Append(s, e) \in T
  <2>1. Only(Append(s, e), kinds) = IF e.kind \in kinds THEN Append(Only(s, kinds), e)
                                    ELSE Only(s, kinds)
    BY OnlyAppend
  <2>2. Only(s, kinds) \in Seq(S) /\ ToSet(Only(s, kinds)) \subseteq ToSet(s) BY OnlyElements
  <2>3. IdsOf(Only(s, kinds)) \subseteq IdsOf(s) BY <2>2, IdsAre
  <2>4. Distinct(Append(s, e)) => Distinct(s) /\ e.id \notin IdsOf(s) BY DistinctAppend
  <2>5. Distinct(Only(s, kinds)) /\ e.id \notin IdsOf(s) => Distinct(Append(Only(s, kinds), e))
    BY <2>2, <2>3, DistinctAppend
  <2> HIDE DEF Distinct
  <2>6. P(Append(s, e)) BY <1>2, <2>1, <2>4, <2>5
  <2> QED BY <2>6
<1>3. T \subseteq Seq(S) OBVIOUS
<1> HIDE DEF T
<1>4. Seq(S) \subseteq T BY <1>1, <1>2, <1>3, SeqInduct, ZenonT(40)
<1> QED BY <1>4 DEF T

(* The beginnings of a sequence.                                             *)
LEMMA PrefixConcat ==
  ASSUME NEW S, NEW s \in Seq(S), NEW t \in Seq(S)
  PROVE  IsPrefix(s, s \o t) /\ IsPrefix(s, s)
<1>1. Len(s) \in Nat /\ Len(t) \in Nat /\ Len(s \o t) = Len(s) + Len(t) OBVIOUS
<1>2. SubSeq(s \o t, 1, Len(s)) = s /\ SubSeq(s, 1, Len(s)) = s OBVIOUS
<1> QED BY <1>1, <1>2 DEF IsPrefix

(* What a sequence goes on with after its beginning.                         *)
LEMMA PrefixRest ==
  ASSUME NEW S, NEW s \in Seq(S), NEW t \in Seq(S), IsPrefix(s, t)
  PROVE  \E u \in Seq(S) : t = s \o u
<1> DEFINE n == Len(s)
           m == Len(t)
           u == SubSeq(t, n + 1, m)
<1>1. n \in Nat /\ m \in Nat /\ n <= m /\ SubSeq(s, 1, n) = s BY DEF IsPrefix
<1>2. s = SubSeq(t, 1, n) BY <1>1 DEF IsPrefix
<1>3. u \in Seq(S) BY <1>1
<1>4. SubSeq(t, 1, n) \o u = SubSeq(t, 1, m)
  <2>1. 1 \in 1..(m + 1) /\ n \in 0..m /\ m \in n..m /\ n \in (1 - 1)..m BY <1>1
  <2> HIDE DEF n
  <2> QED BY <1>1, <2>1, ConcatAdjacentSubSeq
<1>5. SubSeq(t, 1, m) = t OBVIOUS
<1> QED BY <1>2, <1>3, <1>4, <1>5

(* A beginning of a beginning.                                               *)
LEMMA PrefixTransitive ==
  ASSUME NEW S, NEW r \in Seq(S), NEW s \in Seq(S), NEW t \in Seq(S),
         IsPrefix(r, s), IsPrefix(s, t)
  PROVE  IsPrefix(r, t)
<1>1. PICK u \in Seq(S) : s = r \o u BY PrefixRest
<1>2. PICK v \in Seq(S) : t = s \o v BY PrefixRest
<1>3. t = r \o (u \o v) /\ u \o v \in Seq(S) BY <1>1, <1>2
<1> QED BY <1>3, PrefixConcat

-----------------------------------------------------------------------------
(* What branches are.                                                        *)

(* A branch has entries only, and ends with the one it is the branch of.     *)
LEMMA BranchElements ==
  ASSUME NEW es \in Seq(Entries), NEW x \in AnyId
  PROVE  /\ Branch(es, x) \in Seq(Entries) /\ ToSet(Branch(es, x)) \subseteq ToSet(es)
         /\ x \notin IdsOf(es) => Branch(es, x) = <<>>
         /\ x \in IdsOf(es) => Branch(es, x) # <<>> /\ Last(Branch(es, x)).id = x
<1> DEFINE P(s, y) == /\ Branch(s, y) \in Seq(Entries) /\ ToSet(Branch(s, y)) \subseteq ToSet(s)
                      /\ y \notin IdsOf(s) => Branch(s, y) = <<>>
                      /\ y \in IdsOf(s) => Branch(s, y) # <<>> /\ Last(Branch(s, y)).id = y
           T == {s \in Seq(Entries) : \A y \in AnyId : P(s, y)}
<1>1. <<>> \in T
  <2>1. ToSet(<<>>) = {} /\ IdsOf(<<>>) = {} /\ <<>> \in Seq(Entries) BY DEF IdsOf, ToSet
  <2>2. \A y \in AnyId : Branch(<<>>, y) = <<>> BY BranchEmpty
  <2>3. \A y \in AnyId : P(<<>>, y) BY <2>1, <2>2
  <2> QED BY <2>1, <2>3
<1>2. ASSUME NEW s \in T, NEW e \in Entries PROVE Append(s, e) \in T
  <2>1. ToSet(Append(s, e)) = ToSet(s) \cup {e} BY ToSetAppend
  <2>2. IdsOf(Append(s, e)) = IdsOf(s) \cup {e.id} BY <2>1, IdsAre
  <2>3. ASSUME NEW y \in AnyId PROVE P(Append(s, e), y)
    <3>1. Branch(Append(s, e), y) = IF e.id = y THEN Append(Branch(s, e.parent), e)
            ELSE Branch(s, y)
      BY BranchAppend
    <3>2. CASE e.id # y BY <1>2, <2>1, <2>2, <3>1, <3>2
    <3>3. CASE e.id = y
      <4>1. e.parent \in AnyId BY EntryFields
      <4>2. Branch(s, e.parent) \in Seq(Entries) /\ ToSet(Branch(s, e.parent)) \subseteq ToSet(s)
        BY <1>2, <4>1
      <4> DEFINE q == Branch(s, e.parent)
      <4>3. Append(q, e) \in Seq(Entries) /\ Append(q, e) # <<>> /\ Last(Append(q, e)) = e
        <5>1. q \in Seq(Entries) BY <4>2
        <5> HIDE DEF q
        <5>2. Append(q, e) \in Seq(Entries) /\ Len(q) \in Nat /\ Len(Append(q, e)) = Len(q) + 1
          BY <5>1
        <5>3. Append(q, e)[Len(q) + 1] = e BY <5>1
        <5>4. Append(q, e) # <<>> BY <5>2
        <5> QED BY <5>2, <5>3, <5>4 DEF Last
      <4>4. ToSet(Append(q, e)) = ToSet(q) \cup {e} BY <4>2, ToSetAppend
      <4> QED BY <2>1, <2>2, <3>1, <3>3, <4>2, <4>3, <4>4
    <3> QED BY <3>2, <3>3
  <2> HIDE DEF P
  <2> QED BY <2>3
<1>3. T \subseteq Seq(Entries) OBVIOUS
<1> HIDE DEF T
<1>4. Seq(Entries) \subseteq T BY <1>1, <1>2, <1>3, SeqInduct
<1> QED BY <1>4 DEF T

(* A branch has an entry once.                                               *)
LEMMA BranchDistinct ==
  ASSUME NEW es \in Seq(Entries), NEW x \in AnyId, Distinct(es)
  PROVE  Distinct(Branch(es, x))
<1> DEFINE P(s) == Distinct(s) => \A y \in AnyId : Distinct(Branch(s, y))
           T == {s \in Seq(Entries) : P(s)}
<1>1. <<>> \in T
  <2>1. \A y \in AnyId : Branch(<<>>, y) = <<>> BY BranchEmpty
  <2>2. P(<<>>) BY <2>1 DEF Distinct
  <2> QED BY <2>2
<1>2. ASSUME NEW s \in T, NEW e \in Entries PROVE Append(s, e) \in T
  <2>1. ASSUME Distinct(Append(s, e)), NEW y \in AnyId PROVE Distinct(Branch(Append(s, e), y))
    <3>1. Distinct(s) /\ e.id \notin IdsOf(s) BY <2>1, DistinctAppend
    <3>2. \A z \in AnyId : Distinct(Branch(s, z)) BY <1>2, <3>1
    <3>3. e.parent \in AnyId BY EntryFields
    <3>4. Branch(s, e.parent) \in Seq(Entries) /\ ToSet(Branch(s, e.parent)) \subseteq ToSet(s)
      BY <3>3, BranchElements
    <3>5. IdsOf(Branch(s, e.parent)) \subseteq IdsOf(s) BY <3>4, IdsAre
    <3>6. Distinct(Append(Branch(s, e.parent), e)) BY <3>1, <3>2, <3>3, <3>4, <3>5, DistinctAppend
    <3>7. Branch(Append(s, e), y) = IF e.id = y THEN Append(Branch(s, e.parent), e)
            ELSE Branch(s, y)
      BY BranchAppend
    <3> HIDE DEF Distinct
    <3> QED BY <3>2, <3>6, <3>7
  <2>2. P(Append(s, e)) BY <2>1, Zenon
  <2> QED BY <2>2
<1>3. T \subseteq Seq(Entries) OBVIOUS
<1> HIDE DEF T
<1>4. Seq(Entries) \subseteq T BY <1>1, <1>2, <1>3, SeqInduct
<1> QED BY <1>4 DEF T

(* What comes after an entry does not change its branch.                     *)
LEMMA BranchConcat ==
  ASSUME NEW es \in Seq(Entries), NEW more \in Seq(Entries), NEW x \in AnyId, x \notin IdsOf(more)
  PROVE  Branch(es \o more, x) = Branch(es, x)
<1> DEFINE P(t) == x \notin IdsOf(t) => Branch(es \o t, x) = Branch(es, x)
           T == {t \in Seq(Entries) : P(t)}
<1>1. <<>> \in T
  <2>1. es \o <<>> = es OBVIOUS
  <2>2. P(<<>>) BY <2>1
  <2> QED BY <2>2
<1>2. ASSUME NEW t \in T, NEW e \in Entries PROVE Append(t, e) \in T
  <2>1. es \o Append(t, e) = Append(es \o t, e) /\ es \o t \in Seq(Entries)
        /\ Append(t, e) \in Seq(Entries)
    OBVIOUS
  <2>2. IdsOf(Append(t, e)) = IdsOf(t) \cup {e.id} BY ToSetAppend, IdsAre
  <2>3. Branch(Append(es \o t, e), x) = IF e.id = x THEN Append(Branch(es \o t, e.parent), e)
                                        ELSE Branch(es \o t, x)
    BY <2>1, BranchAppend
  <2>4. P(Append(t, e))
    <3> SUFFICES ASSUME x \notin IdsOf(Append(t, e))
                 PROVE  Branch(es \o Append(t, e), x) = Branch(es, x)
      BY Zenon
    <3>1. e.id # x /\ x \notin IdsOf(t) BY <2>2
    <3>2. Branch(es \o t, x) = Branch(es, x) BY <1>2, <3>1
    <3> QED BY <2>1, <2>3, <3>1, <3>2, Zenon
  <2> QED BY <2>1, <2>4
<1>3. T \subseteq Seq(Entries) OBVIOUS
<1> HIDE DEF T
<1>4. Seq(Entries) \subseteq T BY <1>1, <1>2, <1>3, SeqInduct
<1> QED BY <1>4 DEF T

(* The conversation goes on with what is no run record.                      *)
LEMMA ConversationAppend ==
  ASSUME NEW es \in Seq(Entries), NEW e \in Entries
  PROVE  /\ Conversation(es) \in Seq(Entries)
         /\ Conversation(Append(es, e)) = IF e.kind # "record" THEN Append(Conversation(es), e)
                                          ELSE Conversation(es)
<1> DEFINE kinds == EntryKinds \ {"record"}
<1>1. e.kind \in kinds <=> e.kind # "record" BY EntryFields
<1> HIDE DEF kinds
<1>2. Only(es, kinds) \in Seq(Entries) BY OnlyElements
<1>3. Only(Append(es, e), kinds) = IF e.kind \in kinds THEN Append(Only(es, kinds), e)
                                   ELSE Only(es, kinds)
  BY OnlyAppend
<1> QED BY <1>1, <1>2, <1>3 DEF Conversation, kinds

(* The ids of entries are ids.                                               *)
LEMMA IdsTyped ==
  ASSUME NEW es \in Seq(Entries) PROVE IdsOf(es) \subseteq EntryIds /\ IdsOf(es) \subseteq AnyId
<1>1. \A i \in DOMAIN es : es[i] \in Entries OBVIOUS
<1> QED BY <1>1, EntryFields DEF IdsOf

(* Branches go past the run records.                                         *)
LEMMA BranchPastRecords ==
  ASSUME NEW es \in Seq(Entries), NEW x \in AnyId, NEW R, x \notin R,
         \A e \in ToSet(es) : e.parent \notin R /\ (e.kind = "record" => e.id \in R)
  PROVE  Branch(Conversation(es), x) = Branch(es, x)
<1> DEFINE Apart(s) == \A e \in ToSet(s) : e.parent \notin R /\ (e.kind = "record" => e.id \in R)
           Same(s) == \A y \in AnyId \ R : Branch(Conversation(s), y) = Branch(s, y)
           T == {s \in Seq(Entries) : Apart(s) => Same(s)}
<1>1. <<>> \in T
  <2>1. Conversation(<<>>) = <<>> BY OnlyEmpty DEF Conversation
  <2>2. Same(<<>>) BY <2>1
  <2> QED BY <2>2
<1>2. ASSUME NEW s \in T, NEW e \in Entries PROVE Append(s, e) \in T
  <2>0. e.parent \in AnyId /\ e.kind \in EntryKinds BY EntryFields
  <2>1. ToSet(Append(s, e)) = ToSet(s) \cup {e} BY ToSetAppend
  <2>2. Conversation(s) \in Seq(Entries) BY OnlyElements DEF Conversation
  <2>3. Conversation(Append(s, e)) = IF e.kind # "record" THEN Append(Conversation(s), e)
                                     ELSE Conversation(s)
    BY <2>0, ConversationAppend
  <2>4. ASSUME Apart(Append(s, e)), NEW y \in AnyId \ R
        PROVE  Branch(Conversation(Append(s, e)), y) = Branch(Append(s, e), y)
    <3>1. Apart(s) /\ e.parent \notin R /\ (e.kind = "record" => e.id \in R) BY <2>1, <2>4
    <3>2. Same(s) BY <1>2, <3>1
    <3>3. Branch(Append(s, e), y) = IF e.id = y THEN Append(Branch(s, e.parent), e)
            ELSE Branch(s, y)
      BY BranchAppend
    <3>4. CASE e.kind = "record"
      <4>1. e.id # y BY <3>1, <3>4
      <4> QED BY <2>3, <3>2, <3>3, <3>4, <4>1
    <3>5. CASE e.kind # "record"
      <4>1. Branch(Append(Conversation(s), e), y) =
              IF e.id = y THEN Append(Branch(Conversation(s), e.parent), e)
              ELSE Branch(Conversation(s), y)
        BY <2>2, BranchAppend
      <4>2. Branch(Conversation(s), e.parent) = Branch(s, e.parent) BY <2>0, <3>1, <3>2
      <4>3. Branch(Conversation(s), y) = Branch(s, y) BY <3>2
      <4> QED BY <2>3, <3>3, <3>5, <4>1, <4>2, <4>3
    <3> QED BY <3>4, <3>5
  <2>5. Apart(Append(s, e)) => Same(Append(s, e)) BY <2>4
  <2> QED BY <2>5
<1>3. T \subseteq Seq(Entries) OBVIOUS
<1>4. es \in T
  <2> HIDE DEF T
  <2>1. Seq(Entries) \subseteq T BY <1>1, <1>2, <1>3, SeqInduct
  <2> QED BY <2>1
<1> QED BY <1>4

(* On a branch, each of its entries has the branch it had.                   *)
LEMMA BranchOfBranch ==
  ASSUME NEW es \in Seq(Entries), Distinct(es), NEW x \in AnyId, NEW y \in IdsOf(Branch(es, x))
  PROVE  Branch(Branch(es, x), y) = Branch(es, y)
<1> DEFINE Same(s) == \A z \in AnyId : \A w \in IdsOf(Branch(s, z)) :
                         Branch(Branch(s, z), w) = Branch(s, w)
           T == {s \in Seq(Entries) : Distinct(s) => Same(s)}
<1>1. <<>> \in T
  <2>1. \A z \in AnyId : Branch(<<>>, z) = <<>> BY BranchEmpty
  <2>2. IdsOf(<<>>) = {} BY DEF IdsOf
  <2>3. Same(<<>>) BY <2>1, <2>2
  <2> QED BY <2>3
<1>2. ASSUME NEW s \in T, NEW e \in Entries PROVE Append(s, e) \in T
  <2>0. e.parent \in AnyId /\ e.id \in AnyId BY EntryFields
  <2> DEFINE q == Branch(s, e.parent)
  <2>1. ASSUME Distinct(Append(s, e)), NEW z \in AnyId, NEW w \in IdsOf(Branch(Append(s, e), z))
        PROVE  Branch(Branch(Append(s, e), z), w) = Branch(Append(s, e), w)
    <3>1. Distinct(s) /\ e.id \notin IdsOf(s) BY <2>1, DistinctAppend
    <3>2. Same(s) BY <1>2, <3>1
    <3>3. \A v \in AnyId :
            Branch(Append(s, e), v) = IF e.id = v THEN Append(q, e) ELSE Branch(s, v)
      BY BranchAppend
    <3>4. \A v \in AnyId : /\ Branch(s, v) \in Seq(Entries)
                           /\ IdsOf(Branch(s, v)) \subseteq IdsOf(s)
                           /\ v \notin IdsOf(s) => Branch(s, v) = <<>>
                           /\ v \in IdsOf(s) => v \in IdsOf(Branch(s, v))
      <4> TAKE v \in AnyId
      <4>1. Branch(s, v) \in Seq(Entries) /\ ToSet(Branch(s, v)) \subseteq ToSet(s)
            /\ (v \notin IdsOf(s) => Branch(s, v) = <<>>)
            /\ (v \in IdsOf(s) => Branch(s, v) # <<>> /\ Last(Branch(s, v)).id = v)
        BY BranchElements
      <4>2. IdsOf(Branch(s, v)) \subseteq IdsOf(s) BY <4>1, IdsAre
      <4>3. ASSUME v \in IdsOf(s) PROVE v \in IdsOf(Branch(s, v))
        <5>1. Branch(s, v) # <<>> /\ Last(Branch(s, v)).id = v BY <4>1, <4>3
        <5> DEFINE p == Branch(s, v)
        <5>2. Len(p) \in DOMAIN p BY <4>1, <5>1
        <5> QED BY <5>1, <5>2 DEF IdsOf, Last
      <4> QED BY <4>1, <4>2, <4>3
    <3>5. CASE e.id # z
      <4>1. Branch(Append(s, e), z) = Branch(s, z) BY <3>3, <3>5
      <4>2. w \in IdsOf(s) /\ w # e.id /\ w \in AnyId
        BY <2>1, <3>1, <3>4, <4>1, IdsTyped
      <4> QED BY <2>1, <3>2, <3>3, <4>1, <4>2
    <3>6. CASE e.id = z
      <4>1. Branch(Append(s, e), z) = Append(q, e) /\ q \in Seq(Entries) BY <2>0, <3>3, <3>4, <3>6
      <4>2. IdsOf(Append(q, e)) = IdsOf(q) \cup {e.id} BY <4>1, ToSetAppend, IdsAre
      <4>3. \A v \in AnyId :
              Branch(Append(q, e), v) = IF e.id = v THEN Append(Branch(q, e.parent), e)
                ELSE Branch(q, v)
        BY <4>1, BranchAppend
      <4>4. CASE w = e.id
        <5>1. Branch(q, e.parent) = q
          <6>1. CASE e.parent \in IdsOf(s)
            <7>1. e.parent \in IdsOf(q) BY <2>0, <3>4, <6>1
            <7> QED BY <2>0, <3>2, <7>1
          <6>2. CASE e.parent \notin IdsOf(s)
            <7>1. q = <<>> BY <2>0, <3>4, <6>2
            <7> QED BY <2>0, <7>1, BranchEmpty
          <6> QED BY <6>1, <6>2
        <5> QED BY <2>0, <3>3, <4>1, <4>3, <4>4, <5>1
      <4>5. CASE w # e.id
        <5>1. w \in IdsOf(q) BY <2>1, <4>1, <4>2, <4>5
        <5>2. w \in AnyId BY <4>1, <5>1, IdsTyped
        <5>3. Branch(q, w) = Branch(s, w) BY <2>0, <3>2, <5>1
        <5> QED BY <3>3, <4>1, <4>3, <4>5, <5>2, <5>3
      <4> QED BY <4>4, <4>5
    <3> QED BY <3>5, <3>6
  <2>2. Distinct(Append(s, e)) => Same(Append(s, e)) BY <2>1
  <2> HIDE DEF Distinct
  <2> QED BY <2>2
<1>3. T \subseteq Seq(Entries) OBVIOUS
<1>4. es \in T
  <2> HIDE DEF T
  <2>1. Seq(Entries) \subseteq T BY <1>1, <1>2, <1>3, SeqInduct
  <2> QED BY <2>1
<1> QED BY <1>4

-----------------------------------------------------------------------------
(* Compactions of a branch.                                                  *)

(* The least and the greatest of some places.                                *)
LEMMA MinIs ==
  ASSUME NEW S, S \subseteq Nat, S # {}
  PROVE  Min(S) \in S /\ \A m \in S : Min(S) <= m
<1> DEFINE Less == OpToRel(<, Nat)
<1>1. \A x, y \in Nat : y < x => <<y, x>> \in Less BY DEF OpToRel
<1>2. IsWellFoundedOn(Less, Nat) BY NatLessThanWellFounded
<1> HIDE DEF Less
<1>3. PICK x \in S : \A y \in S : <<y, x>> \notin Less BY <1>2, WFMin
<1>4. ASSUME NEW y \in S PROVE x <= y
  <2>1. x \in Nat /\ y \in Nat /\ ~(y < x) BY <1>1, <1>3
  <2> QED BY <2>1
<1>5. \E z \in S : \A y \in S : z <= y BY <1>4
<1> QED BY <1>5 DEF Min

(* The greatest of some places.                                              *)
LEMMA MaxIs ==
  ASSUME NEW n \in Nat, NEW S, S \subseteq 0..n, S # {}
  PROVE  Max(S) \in S /\ \A m \in S : Max(S) >= m
<1> DEFINE T == {n - m : m \in S}
<1>1. T \subseteq Nat /\ T # {}
  <2>1. ASSUME NEW m \in S PROVE n - m \in Nat
    <3>1. m \in 0..n OBVIOUS
    <3> QED BY <3>1
  <2>2. PICK m \in S : TRUE OBVIOUS
  <2>3. n - m \in T BY <2>2
  <2> QED BY <2>1, <2>3
<1>2. Min(T) \in T /\ \A t \in T : Min(T) <= t
  <2> HIDE DEF T
  <2> QED BY <1>1, MinIs
<1>3. PICK m \in S : Min(T) = n - m BY <1>2
<1>4. \A k \in S : m >= k
  <2> TAKE k \in S
  <2>1. n - k \in T OBVIOUS
  <2>2. n - m <= n - k BY <1>2, <1>3, <2>1
  <2> QED BY <2>2
<1>5. \E z \in S : \A y \in S : z >= y BY <1>4
<1> QED BY <1>5 DEF Max

(* The last compaction of a branch.                                          *)
LEMMA LastCompactionIs ==
  ASSUME NEW path \in Seq(Entries)
  PROVE  /\ LastCompaction(path) \in 0..Len(path)
         /\ LastCompaction(path) # 0 => path[LastCompaction(path)].kind = "compaction"
         /\ \A i \in DOMAIN path : path[i].kind = "compaction" => i <= LastCompaction(path)
<1> DEFINE S == {0} \cup {i \in DOMAIN path : path[i].kind = "compaction"}
<1>1. Len(path) \in Nat /\ DOMAIN path = 1..Len(path) OBVIOUS
<1>2. S \subseteq 0..Len(path) /\ S # {} BY <1>1
<1>3. Max(S) \in S /\ \A i \in S : Max(S) >= i
  <2> HIDE DEF S
  <2> QED BY <1>1, <1>2, MaxIs
<1>4. LastCompaction(path) = Max(S) BY DEF LastCompaction
<1> HIDE DEF S
<1>5. Max(S) \in 0..Len(path) BY <1>2, <1>3
<1> QED BY <1>1, <1>3, <1>4, <1>5 DEF S

(* Where a compaction starts to look.                                        *)
LEMMA BoundaryIs ==
  ASSUME NEW path \in Seq(Entries), CanCompact(path)
  PROVE  LET c == LastCompaction(path)
         IN /\ Boundary(path) \in 1..Len(path)
            /\ c = 0 => Boundary(path) = 1
            /\ c # 0 /\ path[c].ref \in IdsOf(path) => path[Boundary(path)].id = path[c].ref
<1> DEFINE c == LastCompaction(path)
           kept == {i \in DOMAIN path : path[i].id = path[c].ref}
<1>1. Len(path) \in Nat /\ DOMAIN path = 1..Len(path) /\ Len(path) # 0 BY DEF CanCompact
<1>2. c \in 0..Len(path) /\ c # Len(path) BY LastCompactionIs DEF CanCompact
<1>3. Boundary(path) = IF c = 0 THEN 1 ELSE IF kept = {} THEN c + 1 ELSE Min(kept)
  BY DEF Boundary
<1>4. kept # {} => Min(kept) \in kept
  <2>1. kept \subseteq Nat BY <1>1
  <2> HIDE DEF kept
  <2> QED BY <2>1, MinIs
<1>5. kept = {} => c + 1 \in 1..Len(path) BY <1>1, <1>2
<1>6. path[c].ref \in IdsOf(path) => kept # {} BY DEF IdsOf
<1> HIDE DEF c
<1>7. Boundary(path) \in 1..Len(path)
  <2>1. CASE c = 0 BY <1>1, <1>3, <2>1
  <2>2. CASE c # 0 /\ kept = {} BY <1>3, <1>5, <2>2
  <2>3. CASE c # 0 /\ kept # {} BY <1>1, <1>3, <1>4, <2>3
  <2> QED BY <2>1, <2>2, <2>3
<1>8. c # 0 /\ path[c].ref \in IdsOf(path) => path[Boundary(path)].id = path[c].ref
  BY <1>3, <1>4, <1>6
<1> QED BY <1>3, <1>7, <1>8 DEF c

(* The cut is at a cut point or at settings just before one.                 *)
LEMMA CutIs ==
  ASSUME NEW path \in Seq(Entries), NEW start \in 1..Len(path)
  PROVE  /\ Cut(path, start) \in start..Len(path)
         /\ CutPoints(path, start) = {} => Cut(path, start) = start
         /\ CutPoints(path, start) # {} =>
              \E k \in CutPoints(path, start) :
                /\ Cut(path, start) <= k
                /\ \A j \in Cut(path, start)..(k - 1) :
                     path[j].kind \notin MessageKinds \cup {"compaction"}
<1> DEFINE n == Len(path)
           points == CutPoints(path, start)
<1>1. n \in Nat /\ start \in Nat /\ start <= n OBVIOUS
<1>2. points \subseteq start..n BY DEF CutPoints
<1> HIDE DEF n, points
<1>3. ASSUME points # {}
      PROVE  \E k \in points : /\ Cut(path, start) \in start..k
                               /\ \A j \in Cut(path, start)..(k - 1) :
                                    path[j].kind \notin MessageKinds \cup {"compaction"}
  <2> DEFINE after == {c \in points : c >= Enough(path, start)}
             k == Chosen(path, start)
             S == {i \in start..k : \A j \in i..(k - 1) :
                                      path[j].kind \notin MessageKinds \cup {"compaction"}}
  <2>1. points \subseteq Nat /\ after \subseteq points
    <3>1. start..n \subseteq Nat BY <1>1
    <3> QED BY <1>2, <3>1
  <2>2. Min(points) \in points BY <1>3, <2>1, MinIs
  <2>3. after # {} => Min(after) \in after
    <3> HIDE DEF after
    <3> QED BY <2>1, MinIs
  <2>4. k \in points BY <2>2, <2>3 DEF Chosen, points
  <2> HIDE DEF k
  <2>5. k \in start..n /\ k \in Nat
    <3>1. k \in start..n BY <1>2, <2>4
    <3> QED BY <1>1, <3>1
  <2>6. k \in S BY <1>1, <2>5
  <2>7. S \subseteq Nat BY <1>1
  <2>8. Min(S) \in S
    <3> HIDE DEF S
    <3> QED BY <2>6, <2>7, MinIs
  <2>9. Cut(path, start) = Min(S) BY <1>3 DEF Cut, WithSettings, points, k
  <2> QED BY <2>4, <2>8, <2>9
<1>4. points = {} => Cut(path, start) = start BY DEF Cut, points
<1>5. Cut(path, start) \in start..n
  <2>1. CASE points = {} BY <1>1, <1>4, <2>1
  <2>2. CASE points # {}
    <3>1. PICK k \in points : Cut(path, start) \in start..k BY <1>3, <2>2
    <3> QED BY <1>1, <1>2, <3>1
  <2> QED BY <2>1, <2>2
<1>6. ASSUME points # {}
      PROVE  \E k \in points :
               /\ Cut(path, start) <= k
               /\ \A j \in Cut(path, start)..(k - 1) :
                    path[j].kind \notin MessageKinds \cup {"compaction"}
  <2>1. PICK k \in points :
          /\ Cut(path, start) \in start..k
          /\ \A j \in Cut(path, start)..(k - 1) :
               path[j].kind \notin MessageKinds \cup {"compaction"}
    BY <1>3, <1>6
  <2>2. Cut(path, start) <= k BY <1>1, <1>2, <2>1
  <2> QED BY <2>1, <2>2
<1> QED BY <1>4, <1>5, <1>6 DEF points, n

(* The turn that is split starts between the start and the cut.              *)
LEMMA SplitTurnIs ==
  ASSUME NEW path \in Seq(Entries), NEW start \in 1..Len(path), NEW cut \in start..Len(path)
  PROVE  SplitTurn(path, start, cut) # 0 => SplitTurn(path, start, cut) \in start..cut
<1> DEFINE S == {0} \cup {j \in start..cut : path[j].kind \in TurnKinds}
<1>1. cut \in Nat /\ S \subseteq 0..cut /\ S # {} OBVIOUS
<1>2. Max(S) \in S
  <2> HIDE DEF S
  <2> QED BY <1>1, MaxIs
<1> QED BY <1>2 DEF SplitTurn

(* What a compaction keeps from, and that it takes in what it does not keep. *)
LEMMA CompactionIs ==
  ASSUME NEW path \in Seq(Entries), CanCompact(path)
  PROVE  LET start == Boundary(path)
             cut   == Cut(path, start)
         IN /\ start \in 1..Len(path) /\ cut \in start..Len(path)
            /\ Compaction(path).ref = path[cut].id
            /\ Compaction(path) \in [ref : EntryIds, sum : SUBSET EntryIds]
            /\ Ids(path, start, cut - 1) \subseteq Compaction(path).sum
<1> DEFINE start == Boundary(path)
           cut == Cut(path, start)
           turn == SplitTurn(path, start, cut)
           history == Ids(path, start, HistoryEnd(turn, cut) - 1)
           prefix == IF turn = 0 THEN {} ELSE Ids(path, turn, cut - 1)
           earlier == IF LastCompaction(path) = 0 THEN {} ELSE path[LastCompaction(path)].sum
           sum == prefix \cup (IF turn # 0 /\ prefix # {} /\ history = {} THEN {}
                               ELSE history \cup earlier)
<1>1. start \in 1..Len(path) BY BoundaryIs
<1>2. cut \in start..Len(path) BY <1>1, CutIs
<1>3. turn # 0 => turn \in start..cut BY <1>1, <1>2, SplitTurnIs
<1>4. Compaction(path) = [ref |-> path[cut].id, sum |-> sum] BY DEF Compaction
<1>5. Len(path) \in Nat /\ \A i \in 1..Len(path) : path[i] \in Entries OBVIOUS
<1>6. \A from, to \in Nat : from >= 1 /\ to <= Len(path) => Ids(path, from, to) \subseteq EntryIds
  <2> TAKE from, to \in Nat
  <2> SUFFICES ASSUME from >= 1, to <= Len(path), NEW i \in from..to PROVE path[i].id \in EntryIds
    BY DEF Ids
  <2>1. i \in 1..Len(path) BY <1>5
  <2> QED BY <1>5, <2>1, EntryFields
<1>7. earlier \subseteq EntryIds
  <2>1. CASE LastCompaction(path) = 0 BY <2>1
  <2>2. CASE LastCompaction(path) # 0
    <3>1. LastCompaction(path) \in 1..Len(path) BY <1>5, <2>2, LastCompactionIs
    <3> QED BY <1>5, <2>2, <3>1, EntryFields
  <2> QED BY <2>1, <2>2
<1> HIDE DEF start, cut, turn, earlier
<1>8. HistoryEnd(turn, cut) = IF turn # 0 THEN turn ELSE cut BY DEF HistoryEnd
<1>9. history \subseteq EntryIds
  <2>1. HistoryEnd(turn, cut) - 1 \in Nat /\ HistoryEnd(turn, cut) - 1 <= Len(path)
        /\ start \in Nat /\ start >= 1
    BY <1>1, <1>2, <1>3, <1>5, <1>8
  <2> QED BY <1>6, <2>1
<1>10. prefix \subseteq EntryIds
  <2>1. CASE turn = 0 BY <2>1
  <2>2. CASE turn # 0
    <3>1. turn \in Nat /\ turn >= 1 /\ cut - 1 \in Nat /\ cut - 1 <= Len(path)
      BY <1>1, <1>2, <1>3, <1>5, <2>2
    <3>2. Ids(path, turn, cut - 1) \subseteq EntryIds BY <1>6, <3>1
    <3> QED BY <2>2, <3>2
  <2> QED BY <2>1, <2>2
<1>11. Ids(path, start, cut - 1) \subseteq prefix \cup history
  <2>1. CASE turn = 0 BY <1>8, <2>1
  <2>2. CASE turn # 0
    <3> SUFFICES ASSUME NEW i \in start..(cut - 1), path[i].kind \in InContext
                 PROVE  path[i].id \in Ids(path, turn, cut - 1) \cup Ids(path, start, turn - 1)
      BY <1>8, <2>2 DEF Ids
    <3>1. i \in turn..(cut - 1) \/ i \in start..(turn - 1) BY <1>1, <1>2, <1>3, <1>5, <2>2
    <3> QED BY <3>1 DEF Ids
  <2> QED BY <2>1, <2>2
<1>12. prefix \cup history \subseteq sum OBVIOUS
<1>13. sum \subseteq EntryIds BY <1>7, <1>9, <1>10
<1> HIDE DEF prefix, history, sum
<1>14. path[cut].id \in EntryIds BY <1>1, <1>2, <1>5, EntryFields
<1> QED BY <1>1, <1>2, <1>4, <1>11, <1>12, <1>13, <1>14 DEF start, cut

-----------------------------------------------------------------------------
(* The inductive invariant, in four layers.                                  *)

(* The first: ids.  Every line there is, in memory, in the files and in the  *)
(* queue.                                                                    *)
LinesOf(writes) == UNION {ToSet(writes[k].lines) : k \in DOMAIN writes}
Everything ==
  {Header} \cup ToSet(entries) \cup (UNION {ToSet(disk[f]) : f \in Files}) \cup LinesOf(queued)
RecordIds == {e.id : e \in {x \in Everything : x.kind = "record"}}

(* An id is one line's, and was given out.                                   *)
OneLineAnId ==
  /\ \A a, b \in Everything : a.id = b.id => a = b
  /\ \A a \in Everything : a.id <= minted /\ a.parent <= minted
  /\ leaf <= minted /\ record.parent <= minted

(* Nothing goes on from a run record.                                        *)
RecordsApart ==
  /\ \A a \in Everything : a.parent \notin RecordIds
  /\ leaf \notin RecordIds /\ record.parent \notin RecordIds

(* The header is nowhere but first.                                          *)
FileLike(lines) == Distinct(lines) /\ \A i \in DOMAIN lines : i > 1 => lines[i] \in Entries

(* A write replaces the file or appends one entry that is younger than all   *)
(* that is in the files by then.                                             *)
Younger(e, lines) == \A x \in ToSet(lines) : x.id < e.id
Alone(w) == w.lines = <<w.lines[1]>> /\ w.lines[1] \in Entries
WriteOK(w) ==
  IF w.whole THEN w.lines # <<>> /\ Head(w.lines) = Header /\ FileLike(w.lines) ELSE Alone(w)
InOrder ==
  \A k \in DOMAIN queued : ~queued[k].whole =>
    /\ \A f \in Files : Younger(queued[k].lines[1], disk[f])
    /\ \A j \in 1..(k - 1) : Younger(queued[k].lines[1], queued[j].lines)

(* Files that come after the session's are not there yet.                    *)
FilesSound ==
  /\ \A f \in Files : FileLike(disk[f])
  /\ \A k \in DOMAIN queued : WriteOK(queued[k]) /\ queued[k].file <= file
  /\ \A f \in Files : f > file => disk[f] = <<>>
  /\ record.file <= file

(* The second: paths.  What the session's file has of a conversation, and is *)
(* to have, the session has.                                                 *)
Talk(lines) == {e.id : e \in {x \in ToSet(lines) : x.kind # "record"}}
InEntries ==
  /\ disk[file] # <<>> /\ Head(disk[file]) = Header
       => Talk(disk[file]) \subseteq IdsOf(entries) \cup {0}
  /\ \A k \in DOMAIN queued : queued[k].file = file
       => Talk(queued[k].lines) \subseteq IdsOf(entries) \cup {0}
  /\ record.file = file => record.parent \in IdsOf(entries) \cup {0}

(* A compaction that is being summarized keeps a part of the branch.         *)
OnPath == compacting # NoCompaction /\ ~moved => compacting.ref \in IdsOf(Current)

(* What a file has after the first k writes.                                 *)
Upto(lines, writes, f, k) == After(lines, SubSeq(writes, 1, k), f)

(* Parents come first, in memory, in the file, and in the file as it will be *)
(* at each write of the queue.                                               *)
Rooted(s, known) == \A i \in DOMAIN s : s[i].parent \in known \cup IdsOf(SubSeq(s, 1, i - 1))
Known == {0} \cup holes
Roots ==
  /\ Rooted(entries, Known) /\ Rooted(disk[file], Known)
  /\ \A k \in DOMAIN queued : queued[k].file = file =>
       IF queued[k].whole THEN Rooted(queued[k].lines, Known)
       ELSE queued[k].lines[1].parent \in
              Known \cup IdsOf(Upto(disk[file], queued, file, k - 1))
  /\ record.file = file => record.parent \in Known \cup IdsOf(Settled(file))
  /\ flushed => IdsOf(entries) \subseteq holes \cup IdsOf(Settled(file))

(* The third: the file.  However much of the queue is written, the file has  *)
(* a beginning of the session's conversation, and all of it in the end.      *)
Headed(lines) == lines = <<>> \/ Head(lines) = Header
Begins(lines, es) == Headed(lines) /\ IsPrefix(Conversation(Load(lines)), Conversation(es))
Synced ==
  faults = 0 =>
    /\ \A k \in 0..Len(queued) : Begins(Upto(disk[file], queued, file, k), entries)
    /\ flushed => /\ Settled(file) # <<>>
                  /\ Conversation(Load(Settled(file))) = Conversation(entries)
    /\ record.file = file => Settled(file) # <<>>

(* The fourth: what the model is shown, of a path from its place r on.       *)
Shown(p, r) == Only(SubSeq(p, r, Len(p)), InContext)

(* A tool result is behind its call or another result.                       *)
Told(s) ==
  \A i \in DOMAIN s : s[i].kind = "tool" => i > 1 /\ s[i - 1].kind \in {"assistant", "tool"}

(* A path may be cut at r: what is shown does not begin with a tool result,  *)
(* nor will it, as something is shown.                                       *)
Keeps(p, r) ==
  /\ Shown(p, r) # <<>> => Shown(p, r)[1].kind # "tool"
  /\ Only(p, InContext) # <<>> => Shown(p, r) # <<>>

(* One may cut where ref is, among the first n entries.                      *)
KeptAt(p, ref, n) == \E r \in 1..n : p[r].id = ref /\ Keeps(p, r)

(* Its last compaction cuts a path where one may, unless one was applied     *)
(* away from where it was prepared.                                          *)
Good(p, away) ==
  /\ Told(Only(p, InContext))
  /\ away \cap IdsOf(p) = {} /\ LastCompaction(p) # 0
       => KeptAt(p, p[LastCompaction(p)].ref, LastCompaction(p) - 1)

(* All branches are good, and so is the cut that is being summarized.        *)
AllGood(es, away) == \A e \in ToSet(es) : e.kind # "record" => Good(Branch(es, e.id), away)
Goods ==
  holes = {} =>
    /\ AllGood(entries, strays)
    /\ compacting # NoCompaction /\ ~moved /\ Sound(Current)
         => KeptAt(Current, compacting.ref, Len(Current))

(* A write that failed left an entry out.                                    *)
Faulty == faults > 0 => holes # {}

-----------------------------------------------------------------------------
(* Files.                                                                    *)

(* The header is a line and is no entry.                                     *)
LEMMA HeaderIs ==
  /\ Header \in Lines /\ Header \notin Entries
  /\ Header.id = 0 /\ Header.parent = 0 /\ Header.kind = "header"
<1>1. Header.id = 0 /\ Header.parent = 0 /\ Header.kind = "header" BY DEF Header, Entry
<1> QED BY <1>1, EntryFields DEF Lines

(* What lines are.                                                           *)
LEMMA LineFields ==
  ASSUME NEW e \in Lines
  PROVE  /\ e.id \in AnyId /\ e.parent \in AnyId /\ e.id \in Nat /\ e.parent \in Nat
         /\ e.id = 0 <=> e = Header
         /\ e.kind = "header" <=> e = Header
         /\ e # Header => e \in Entries
<1>1. AnyId \subseteq Nat /\ 0 \in AnyId BY SessionFilesAssumption DEF AnyId
<1>2. CASE e = Header BY <1>1, <1>2, HeaderIs
<1>3. CASE e \in Entries
  <2>1. e.kind # "header"
    BY <1>3, EntryFields DEF EntryKinds, InContext, MessageKinds
  <2> QED BY <1>1, <1>3, <2>1, EntryFields
<1> QED BY <1>2, <1>3 DEF Lines

(* The header and entries make a file.                                       *)
LEMMA HeaderFirst ==
  ASSUME NEW es \in Seq(Entries)
  PROVE  LET lines == <<Header>> \o es
         IN /\ lines \in Seq(Lines) /\ lines # <<>> /\ Head(lines) = Header
            /\ Load(lines) = es /\ ToSet(lines) = {Header} \cup ToSet(es)
            /\ Distinct(es) => FileLike(lines)
<1> DEFINE lines == <<Header>> \o es
<1>1. <<Header>> \in Seq(Lines) /\ es \in Seq(Lines) BY HeaderIs DEF Lines
<1>2. /\ lines \in Seq(Lines) /\ lines # <<>> /\ Head(lines) = Header
      /\ Tail(lines) = es /\ Len(lines) = Len(es) + 1 /\ lines[1] = Header
      /\ \A i \in 2..Len(lines) : lines[i] = es[i - 1] /\ i - 1 \in 1..Len(es)
  BY <1>1
<1>3. ToSet(lines) = {Header} \cup ToSet(es)
  <2>1. ToSet(<<Header>>) = {Header}
    <3>1. DOMAIN <<Header>> = {1} /\ <<Header>>[1] = Header OBVIOUS
    <3> QED BY <3>1 DEF ToSet
  <2>2. ToSet(<<Header>> \o es) = ToSet(<<Header>>) \cup ToSet(es) BY <1>1, ToSetConcat, ZenonT(40)
  <2> QED BY <2>1, <2>2
<1>4. Load(lines) = es BY <1>2 DEF Load
<1>5. ASSUME Distinct(es) PROVE FileLike(lines)
  <2>0. Len(es) \in Nat /\ DOMAIN lines = 1..Len(lines) /\ DOMAIN es = 1..Len(es) BY <1>2
  <2>1. \A i \in DOMAIN lines : i > 1 => lines[i] \in Entries BY <1>2, <2>0
  <2>2. ASSUME NEW i \in DOMAIN lines, NEW j \in DOMAIN lines, lines[i].id = lines[j].id
        PROVE  i = j
    <3>1. \A k \in DOMAIN lines : k # 1 => lines[k] \in Entries BY <2>0, <2>1
    <3>2. \A k \in DOMAIN lines : k # 1 => lines[k].id # 0 BY <3>1, EntryFields
    <3>3. CASE i = 1 \/ j = 1 BY <1>2, <2>2, <3>2, <3>3, HeaderIs
    <3>4. CASE i # 1 /\ j # 1
      <4>1. i \in 2..Len(lines) /\ j \in 2..Len(lines) BY <2>0, <3>4
      <4>2. es[i - 1].id = es[j - 1].id /\ i - 1 \in DOMAIN es /\ j - 1 \in DOMAIN es
        BY <1>2, <2>0, <2>2, <4>1
      <4>3. i - 1 = j - 1 BY <1>5, <4>2 DEF Distinct
      <4> QED BY <2>0, <4>1, <4>3
    <3> QED BY <3>3, <3>4
  <2> QED BY <2>1, <2>2 DEF FileLike, Distinct
<1> QED BY <1>2, <1>3, <1>4, <1>5

(* What is read back of a file is what comes after its header.               *)
LEMMA LoadIs ==
  ASSUME NEW lines \in Seq(Lines), FileLike(lines)
  PROVE  /\ Load(lines) \in Seq(Entries) /\ Distinct(Load(lines))
         /\ ToSet(Load(lines)) \subseteq ToSet(lines)
         /\ lines # <<>> /\ Head(lines) = Header => lines = <<Header>> \o Load(lines)
         /\ ~(lines # <<>> /\ Head(lines) = Header) => Load(lines) = <<>>
<1>1. CASE ~(lines # <<>> /\ Head(lines) = Header)
  <2>1. Load(lines) = <<>> BY <1>1 DEF Load
  <2> QED BY <1>1, <2>1 DEF Distinct, ToSet
<1>2. CASE lines # <<>> /\ Head(lines) = Header
  <2> DEFINE t == Tail(lines)
  <2>1. /\ t \in Seq(Lines) /\ Len(t) = Len(lines) - 1 /\ Len(lines) \in Nat
        /\ lines = <<Header>> \o t
        /\ \A i \in 1..Len(t) : t[i] = lines[i + 1] /\ i + 1 \in 1..Len(lines)
    BY <1>2
  <2>2. DOMAIN t = 1..Len(t) /\ DOMAIN lines = 1..Len(lines) BY <2>1
  <2>3. Load(lines) = t BY <1>2 DEF Load
  <2> HIDE DEF t
  <2>4. \A i \in 1..Len(t) : t[i] \in Entries
    <3> TAKE i \in 1..Len(t)
    <3>1. i + 1 \in DOMAIN lines /\ i + 1 > 1 BY <2>1, <2>2
    <3> QED BY <2>1, <3>1 DEF FileLike
  <2>5. t \in Seq(Entries) BY <2>1, <2>2, <2>4
  <2>6. Distinct(t)
    <3> SUFFICES ASSUME NEW i \in 1..Len(t), NEW j \in 1..Len(t), t[i].id = t[j].id PROVE i = j
      BY <2>2 DEF Distinct
    <3>1. i + 1 = j + 1 BY <2>1, <2>2, ZenonT(40) DEF FileLike, Distinct
    <3> QED BY <3>1
  <2>7. ToSet(t) \subseteq ToSet(lines) BY <2>1, <2>2 DEF ToSet
  <2> QED BY <1>2, <2>1, <2>3, <2>5, <2>6, <2>7
<1> QED BY <1>1, <1>2

(* A file with one more line.                                                *)
LEMMA LoadAppend ==
  ASSUME NEW lines \in Seq(Lines), NEW e \in Entries
  PROVE  /\ lines \o <<e>> = Append(lines, e) /\ Append(lines, e) \in Seq(Lines)
         /\ lines # <<>> => Head(Append(lines, e)) = Head(lines)
         /\ lines = <<>> => Head(Append(lines, e)) = e
         /\ Load(Append(lines, e)) = IF lines # <<>> /\ Head(lines) = Header
                                     THEN Append(Load(lines), e) ELSE <<>>
<1>1. e \in Lines /\ e # Header BY EntryFields DEF Lines
<1>2. /\ lines \o <<e>> = Append(lines, e) /\ Append(lines, e) \in Seq(Lines)
      /\ Append(lines, e) # <<>>
      /\ lines # <<>> => /\ Head(Append(lines, e)) = Head(lines)
                         /\ Tail(Append(lines, e)) = Append(Tail(lines), e)
      /\ lines = <<>> => Head(Append(lines, e)) = e
  BY <1>1
<1>3. CASE lines # <<>> /\ Head(lines) = Header BY <1>2, <1>3 DEF Load
<1>4. CASE ~(lines # <<>> /\ Head(lines) = Header)
  <2>1. Head(Append(lines, e)) # Header BY <1>1, <1>2, <1>4
  <2> QED BY <1>2, <1>4, <2>1 DEF Load
<1> QED BY <1>2, <1>3, <1>4

(* A younger entry goes behind the lines of a file.                          *)
LEMMA FileLikeAppend ==
  ASSUME NEW lines \in Seq(Lines), FileLike(lines), NEW e \in Entries, Younger(e, lines)
  PROVE  FileLike(Append(lines, e))
<1>1. e.id \in Nat BY LineFields DEF Lines
<1>2. \A x \in ToSet(lines) : x.id # e.id
  <2> TAKE x \in ToSet(lines)
  <2>1. x \in Lines BY DEF ToSet
  <2>2. x.id < e.id /\ x.id \in Nat BY <2>1, LineFields DEF Younger
  <2> QED BY <1>1, <2>2
<1>3. e.id \notin IdsOf(lines) BY <1>2, IdsAre
<1>4. Distinct(Append(lines, e)) BY <1>3, DistinctAppend DEF FileLike
<1>5. \A i \in DOMAIN Append(lines, e) : i > 1 => Append(lines, e)[i] \in Entries
  <2>1. /\ DOMAIN Append(lines, e) = 1..(Len(lines) + 1) /\ Len(lines) \in Nat
        /\ DOMAIN lines = 1..Len(lines) /\ Append(lines, e)[Len(lines) + 1] = e
        /\ \A i \in 1..Len(lines) : Append(lines, e)[i] = lines[i]
    OBVIOUS
  <2> SUFFICES ASSUME NEW i \in 1..(Len(lines) + 1), i > 1 PROVE Append(lines, e)[i] \in Entries
    BY <2>1
  <2>2. CASE i = Len(lines) + 1 BY <2>1, <2>2
  <2>3. CASE i # Len(lines) + 1
    <3>1. i \in 1..Len(lines) BY <2>1, <2>3
    <3> QED BY <2>1, <3>1 DEF FileLike
  <2> QED BY <2>2, <2>3
<1> QED BY <1>4, <1>5 DEF FileLike

(* Where a session that was read back continues: at none or at an entry that *)
(* is no run record.                                                         *)
LEMMA LeafOfIs ==
  ASSUME NEW es \in Seq(Entries)
  PROVE  LeafOf(es) = 0 \/ \E e \in ToSet(es) : e.kind # "record" /\ LeafOf(es) = e.id
<1> DEFINE c == Conversation(es)
<1>1. c \in Seq(Entries) /\ ToSet(c) = {e \in ToSet(es) : e.kind \in EntryKinds \ {"record"}}
  BY OnlyElements DEF Conversation
<1> HIDE DEF c
<1>2. CASE c = <<>> BY <1>2 DEF LeafOf, c
<1>3. CASE c # <<>>
  <2>1. Last(c) \in ToSet(c) BY <1>1, <1>3 DEF Last, ToSet
  <2>2. LeafOf(es) = Last(c).id BY <1>3 DEF LeafOf, c
  <2> QED BY <1>1, <2>1, <2>2
<1> QED BY <1>2, <1>3

-----------------------------------------------------------------------------
(* What writes make of a file.                                               *)

(* A first write is made first.                                              *)
LEMMA AfterCons ==
  ASSUME NEW lines \in Seq(Lines), NEW w \in Writes, NEW rest \in Seq(Writes), NEW f
  PROVE  After(lines, <<w>> \o rest, f) =
           After(IF w.file = f THEN Written(lines, w) ELSE lines, rest, f)
<1> DEFINE first == IF w.file = f THEN Written(lines, w) ELSE lines
           P(t) == After(lines, <<w>> \o t, f) = After(first, t, f)
           T == {t \in Seq(Writes) : P(t)}
<1>1. first \in Seq(Lines) BY WrittenIs
<1>2. <<w>> \in Seq(Writes) /\ <<>> \in Seq(Writes) OBVIOUS
<1>3. After(lines, <<w>>, f) = first
  <2> DEFINE none == <<>>
  <2>1. <<w>> = Append(none, w) /\ none \in Seq(Writes) OBVIOUS
  <2>2. After(lines, none, f) = lines BY AfterNone
  <2> HIDE DEF none
  <2>3. After(lines, Append(none, w), f) =
          IF w.file = f THEN Written(After(lines, none, f), w) ELSE After(lines, none, f)
    BY <2>1, AfterAppend
  <2> QED BY <2>1, <2>2, <2>3
<1>4. <<>> \in T
  <2>1. <<w>> \o <<>> = <<w>> OBVIOUS
  <2>2. After(first, <<>>, f) = first BY <1>1, AfterNone
  <2> QED BY <1>2, <1>3, <2>1, <2>2
<1>5. \A t \in T, v \in Writes : Append(t, v) \in T
  <2> TAKE t \in T, v \in Writes
  <2>1. t \in Seq(Writes) /\ P(t) OBVIOUS
  <2>2. /\ Append(t, v) \in Seq(Writes) /\ <<w>> \o t \in Seq(Writes)
        /\ <<w>> \o Append(t, v) = Append(<<w>> \o t, v)
    BY <1>2, <2>1
  <2> DEFINE q == <<w>> \o t
  <2> HIDE DEF q, first
  <2>3. After(lines, Append(q, v), f) =
          IF v.file = f THEN Written(After(lines, q, f), v) ELSE After(lines, q, f)
    <3>1. q \in Seq(Writes) BY <2>2 DEF q
    <3> QED BY <3>1, AfterAppend
  <2>4. After(first, Append(t, v), f) =
          IF v.file = f THEN Written(After(first, t, f), v) ELSE After(first, t, f)
    BY <1>1, <2>1, AfterAppend
  <2>5. P(Append(t, v))
    <3>1. After(lines, q, f) = After(first, t, f) BY <2>1 DEF q, first
    <3>2. <<w>> \o Append(t, v) = Append(q, v) BY <2>2 DEF q
    <3>3. After(lines, Append(q, v), f) = After(first, Append(t, v), f) BY <2>3, <2>4, <3>1
    <3> QED BY <3>2, <3>3 DEF first
  <2> QED BY <2>2, <2>5
<1>6. T \subseteq Seq(Writes) OBVIOUS
<1>7. rest \in T
  <2> HIDE DEF T
  <2>1. Seq(Writes) \subseteq T BY <1>4, <1>5, <1>6, SeqInduct
  <2> QED BY <2>1
<1> QED BY <1>7

(* Writes to other files leave a file as it is.                              *)
LEMMA AfterOther ==
  ASSUME NEW lines \in Seq(Lines), NEW writes \in Seq(Writes), NEW f,
         \A k \in DOMAIN writes : writes[k].file # f
  PROVE  After(lines, writes, f) = lines
<1> DEFINE P(s) == (\A k \in DOMAIN s : s[k].file # f) => After(lines, s, f) = lines
           T == {s \in Seq(Writes) : P(s)}
<1>1. <<>> \in T
  <2>1. After(lines, <<>>, f) = lines BY AfterNone
  <2> QED BY <2>1
<1>2. \A s \in T, w \in Writes : Append(s, w) \in T
  <2> TAKE s \in T, w \in Writes
  <2>1. s \in Seq(Writes) /\ P(s) OBVIOUS
  <2>2. /\ Append(s, w) \in Seq(Writes) /\ DOMAIN Append(s, w) = 1..(Len(s) + 1)
        /\ Append(s, w)[Len(s) + 1] = w /\ DOMAIN s = 1..Len(s) /\ Len(s) \in Nat
        /\ \A k \in 1..Len(s) : Append(s, w)[k] = s[k]
    BY <2>1
  <2>3. After(lines, Append(s, w), f) =
          IF w.file = f THEN Written(After(lines, s, f), w) ELSE After(lines, s, f)
    BY <2>1, AfterAppend
  <2>4. ASSUME \A k \in DOMAIN Append(s, w) : Append(s, w)[k].file # f
        PROVE  After(lines, Append(s, w), f) = lines
    <3>1. w.file # f BY <2>2, <2>4
    <3>2. \A k \in DOMAIN s : s[k].file # f BY <2>2, <2>4
    <3> QED BY <2>1, <2>3, <3>1, <3>2
  <2> QED BY <2>2, <2>4
<1>3. T \subseteq Seq(Writes) OBVIOUS
<1>4. writes \in T
  <2> HIDE DEF T
  <2>1. Seq(Writes) \subseteq T BY <1>1, <1>2, <1>3, SeqInduct
  <2> QED BY <2>1
<1> QED BY <1>4

(* Every line after the writes was in the file or in a write.                *)
LEMMA AfterElements ==
  ASSUME NEW lines \in Seq(Lines), NEW writes \in Seq(Writes), NEW f
  PROVE  /\ After(lines, writes, f) \in Seq(Lines)
         /\ ToSet(After(lines, writes, f)) \subseteq ToSet(lines) \cup LinesOf(writes)
<1> DEFINE P(s) == /\ After(lines, s, f) \in Seq(Lines)
                   /\ ToSet(After(lines, s, f)) \subseteq ToSet(lines) \cup LinesOf(s)
           T == {s \in Seq(Writes) : P(s)}
<1>1. <<>> \in T
  <2>1. After(lines, <<>>, f) = lines BY AfterNone
  <2> QED BY <2>1
<1>2. \A s \in T, w \in Writes : Append(s, w) \in T
  <2> TAKE s \in T, w \in Writes
  <2>1. s \in Seq(Writes) /\ P(s) OBVIOUS
  <2> DEFINE a == After(lines, s, f)
  <2>2. /\ Append(s, w) \in Seq(Writes) /\ DOMAIN Append(s, w) = 1..(Len(s) + 1)
        /\ Append(s, w)[Len(s) + 1] = w /\ DOMAIN s = 1..Len(s) /\ Len(s) \in Nat
        /\ \A k \in 1..Len(s) : Append(s, w)[k] = s[k]
    BY <2>1
  <2>3. a \in Seq(Lines)
        /\ After(lines, Append(s, w), f) = IF w.file = f THEN Written(a, w) ELSE a
    BY <2>1, AfterAppend
  <2>4. LinesOf(s) \cup ToSet(w.lines) \subseteq LinesOf(Append(s, w))
    <3>1. Len(s) + 1 \in DOMAIN Append(s, w) BY <2>2
    <3>2. ToSet(w.lines) \subseteq LinesOf(Append(s, w)) BY <2>2, <3>1 DEF LinesOf
    <3>3. ASSUME NEW k \in DOMAIN s PROVE ToSet(s[k].lines) \subseteq LinesOf(Append(s, w))
      <4>1. k \in DOMAIN Append(s, w) /\ Append(s, w)[k] = s[k] BY <2>2
      <4> QED BY <4>1 DEF LinesOf
    <3>4. LinesOf(s) \subseteq LinesOf(Append(s, w)) BY <3>3 DEF LinesOf
    <3> QED BY <3>2, <3>4
  <2> HIDE DEF a
  <2>5. ToSet(Written(a, w)) \subseteq ToSet(a) \cup ToSet(w.lines) BY <2>3, WrittenIs
  <2>6. ToSet(a) \subseteq ToSet(lines) \cup LinesOf(s) BY <2>1 DEF a
  <2>7. Written(a, w) \in Seq(Lines) BY <2>3, WrittenIs
  <2>8. P(Append(s, w)) BY <2>3, <2>4, <2>5, <2>6, <2>7
  <2> QED BY <2>2, <2>8
<1>3. T \subseteq Seq(Writes) OBVIOUS
<1>4. writes \in T
  <2> HIDE DEF T
  <2>1. Seq(Writes) \subseteq T BY <1>1, <1>2, <1>3, SeqInduct
  <2> QED BY <2>1
<1> QED BY <1>4

(* What a file had more than another it has more after the same writes.      *)
LEMMA AfterKeeps ==
  ASSUME NEW a \in Seq(Lines), NEW b \in Seq(Lines), NEW X, ToSet(a) \subseteq ToSet(b) \cup X,
         NEW writes \in Seq(Writes), NEW f
  PROVE  ToSet(After(a, writes, f)) \subseteq ToSet(After(b, writes, f)) \cup X
<1> DEFINE P(s) == ToSet(After(a, s, f)) \subseteq ToSet(After(b, s, f)) \cup X
           T == {s \in Seq(Writes) : P(s)}
<1>1. <<>> \in T
  <2>1. After(a, <<>>, f) = a /\ After(b, <<>>, f) = b BY AfterNone
  <2> QED BY <2>1
<1>2. \A s \in T, w \in Writes : Append(s, w) \in T
  <2> TAKE s \in T, w \in Writes
  <2>1. s \in Seq(Writes) /\ P(s) OBVIOUS
  <2> DEFINE c == After(a, s, f)
             d == After(b, s, f)
  <2>2. c \in Seq(Lines) /\ After(a, Append(s, w), f) = IF w.file = f THEN Written(c, w) ELSE c
    BY <2>1, AfterAppend
  <2>3. d \in Seq(Lines) /\ After(b, Append(s, w), f) = IF w.file = f THEN Written(d, w) ELSE d
    BY <2>1, AfterAppend
  <2>4. ToSet(c) \subseteq ToSet(d) \cup X BY <2>1
  <2> HIDE DEF c, d
  <2>5. w.lines \in Seq(Lines) BY WrittenIs
  <2>6. ToSet(c \o w.lines) = ToSet(c) \cup ToSet(w.lines)
        /\ ToSet(d \o w.lines) = ToSet(d) \cup ToSet(w.lines)
    BY <2>2, <2>3, <2>5, ToSetConcat
  <2>7. ToSet(Written(c, w)) \subseteq ToSet(Written(d, w)) \cup X BY <2>4, <2>6 DEF Written
  <2>8. P(Append(s, w)) BY <2>2, <2>3, <2>4, <2>7
  <2>9. Append(s, w) \in Seq(Writes) BY <2>1
  <2> QED BY <2>8, <2>9
<1>3. T \subseteq Seq(Writes) OBVIOUS
<1>4. writes \in T
  <2> HIDE DEF T
  <2>1. Seq(Writes) \subseteq T BY <1>1, <1>2, <1>3, SeqInduct
  <2> QED BY <2>1
<1> QED BY <1>4

-----------------------------------------------------------------------------
(* Lines and ids.                                                            *)

(* The first layer.                                                          *)
IdInv == FilesTypeOK /\ OneLineAnId /\ RecordsApart /\ FilesSound /\ InOrder

(* What a write has.                                                         *)
LEMMA WriteFields ==
  ASSUME NEW w \in Writes
  PROVE  w.file \in Files /\ w.whole \in BOOLEAN /\ w.lines \in Seq(Lines)
BY DEF Writes

(* Everything is made of lines.                                              *)
LEMMA EverythingIs ==
  ASSUME FilesTypeOK
  PROVE  /\ Everything \subseteq Lines /\ Header \in Everything
         /\ ToSet(entries) \subseteq Everything /\ LinesOf(queued) \subseteq Everything
         /\ \A f \in Files : ToSet(disk[f]) \subseteq Everything
         /\ \A k \in DOMAIN queued :
              queued[k] \in Writes /\ ToSet(queued[k].lines) \subseteq Everything
<1>1. entries \in Seq(Entries) /\ disk \in [Files -> Seq(Lines)] /\ queued \in Seq(Writes)
  BY DEF FilesTypeOK
<1>2. ToSet(entries) \subseteq Lines BY <1>1 DEF ToSet, Lines
<1>3. \A f \in Files : ToSet(disk[f]) \subseteq Lines
  <2> TAKE f \in Files
  <2>1. disk[f] \in Seq(Lines) BY <1>1
  <2> QED BY <2>1 DEF ToSet
<1>4. \A k \in DOMAIN queued : queued[k] \in Writes /\ ToSet(queued[k].lines) \subseteq Lines
  <2> TAKE k \in DOMAIN queued
  <2>1. queued[k] \in Writes BY <1>1
  <2>2. queued[k].lines \in Seq(Lines) BY <2>1, WriteFields
  <2> QED BY <2>1, <2>2 DEF ToSet
<1>5. LinesOf(queued) \subseteq Lines BY <1>4 DEF LinesOf
<1>6. \A k \in DOMAIN queued : ToSet(queued[k].lines) \subseteq LinesOf(queued) BY DEF LinesOf
<1>7. (UNION {ToSet(disk[f]) : f \in Files}) \subseteq Lines BY <1>3
<1> DEFINE D == UNION {ToSet(disk[f]) : f \in Files}
<1>8. Everything = {Header} \cup ToSet(entries) \cup D \cup LinesOf(queued) BY DEF Everything
<1>9. \A f \in Files : ToSet(disk[f]) \subseteq D OBVIOUS
<1>10. D \subseteq Lines BY <1>7
<1> HIDE DEF D
<1>11. Everything \subseteq Lines BY <1>2, <1>5, <1>8, <1>10, HeaderIs
<1>12. \A f \in Files : ToSet(disk[f]) \subseteq Everything BY <1>8, <1>9
<1>13. Header \in Everything /\ ToSet(entries) \subseteq Everything
       /\ LinesOf(queued) \subseteq Everything
  BY <1>8
<1> QED BY <1>4, <1>6, <1>11, <1>12, <1>13

(* Ids of lines are numbers that were given out; that of a line that is no   *)
(* run record is no record's.                                                *)
LEMMA NoRecordId ==
  ASSUME OneLineAnId, NEW a \in Everything, a.kind # "record"
  PROVE  a.id \notin RecordIds /\ a.id <= minted /\ a.parent <= minted
BY DEF OneLineAnId, RecordIds

(* What a run record about to be queued has.                                 *)
LEMMA RecordFields ==
  ASSUME NEW r \in {NoRecord} \cup [file : Files, parent : 0..MaxEntries]
  PROVE  /\ r \in [file : Files \cup {0}, parent : 0..MaxEntries]
         /\ r # NoRecord => r.file \in Files
BY SessionFilesAssumption DEF NoRecord

(* A step that brings new lines with new ids.                                *)
LEMMA IdsStay ==
  ASSUME OneLineAnId, RecordsApart, FilesTypeOK, FilesTypeOK', NEW N, N \subseteq Lines,
         Everything' \subseteq Everything \cup N, minted <= minted',
         \A a \in N : minted < a.id /\ a.id <= minted' /\ a.parent <= minted',
         \A a, b \in N : a.id = b.id => a = b,
         \A a \in N : a.parent \notin RecordIds,
         \A a, b \in N : a.kind = "record" => b.parent # a.id,
         \/ leaf' <= minted /\ leaf' \notin RecordIds
         \/ \E a \in Everything' : a.kind # "record" /\ a.id = leaf',
         \/ record'.parent <= minted /\ record'.parent \notin RecordIds
         \/ \E a \in Everything' : a.kind # "record" /\ a.id = record'.parent
  PROVE  OneLineAnId' /\ RecordsApart'
<1>1. minted \in Nat /\ minted' \in Nat BY SessionFilesAssumption DEF FilesTypeOK
<1>2. Everything \subseteq Lines BY EverythingIs
<1>3. \A a \in Lines : a.id \in Nat /\ a.parent \in Nat BY LineFields
<1>4. leaf' \in Nat /\ record'.parent \in Nat
  <2>1. entries' \in Seq(Entries) /\ leaf' \in IdsOf(entries') \cup {0}
        /\ record' \in [file : Files \cup {0}, parent : 0..MaxEntries]
    BY RecordFields DEF FilesTypeOK
  <2>2. IdsOf(entries') \subseteq AnyId BY <2>1, IdsTyped
  <2>3. AnyId \subseteq Nat /\ 0 \in AnyId BY SessionFilesAssumption DEF AnyId
  <2>4. record'.parent \in AnyId BY <2>1 DEF AnyId
  <2>5. leaf' \in AnyId BY <2>1, <2>2, <2>3
  <2> QED BY <2>3, <2>4, <2>5
<1>5. \A a, b \in Everything' : a.id = b.id => a = b
  <2> SUFFICES ASSUME NEW a \in Everything \cup N, NEW b \in Everything \cup N, a.id = b.id
               PROVE  a = b
    OBVIOUS
  <2>0. a.id \in Nat /\ b.id \in Nat BY <1>2, <1>3
  <2>1. CASE a \in Everything /\ b \in Everything BY <2>1 DEF OneLineAnId
  <2>2. CASE a \in N /\ b \in N BY <2>2
  <2>3. CASE a \in Everything /\ b \in N
    <3>1. a.id <= minted /\ minted < b.id BY <2>3 DEF OneLineAnId
    <3> QED BY <1>1, <2>0, <3>1
  <2>4. CASE a \in N /\ b \in Everything
    <3>1. b.id <= minted /\ minted < a.id BY <2>4 DEF OneLineAnId
    <3> QED BY <1>1, <2>0, <3>1
  <2> QED BY <2>1, <2>2, <2>3, <2>4
<1>6. \A a \in Everything' : a.id <= minted' /\ a.parent <= minted'
  <2> TAKE a \in Everything'
  <2>1. CASE a \in N BY <2>1
  <2>2. CASE a \in Everything
    <3>1. a.id <= minted /\ a.parent <= minted BY <2>2 DEF OneLineAnId
    <3>2. a.id \in Nat /\ a.parent \in Nat BY <1>2, <1>3, <2>2
    <3> QED BY <1>1, <3>1, <3>2
  <2> QED BY <2>1, <2>2
<1>7. RecordIds' \subseteq RecordIds \cup {a.id : a \in {x \in N : x.kind = "record"}}
  BY DEF RecordIds
<1>8. leaf' <= minted' /\ record'.parent <= minted' BY <1>1, <1>4, <1>6
<1>9. \A x \in Nat : (x <= minted /\ x \notin RecordIds)
                     \/ (\E a \in Everything' : a.kind # "record" /\ a.id = x)
                       => x \notin RecordIds'
  <2> SUFFICES ASSUME NEW x \in Nat, x \in RecordIds',
                      (x <= minted /\ x \notin RecordIds)
                      \/ (\E a \in Everything' : a.kind # "record" /\ a.id = x)
               PROVE  FALSE
    OBVIOUS
  <2>1. CASE x <= minted /\ x \notin RecordIds
    <3>1. PICK a \in N : a.id = x BY <1>7, <2>1
    <3>2. minted < a.id BY <3>1
    <3> QED BY <1>1, <2>1, <3>1, <3>2
  <2>2. CASE \E a \in Everything' : a.kind # "record" /\ a.id = x
    <3>1. PICK a \in Everything' : a.kind # "record" /\ a.id = x BY <2>2
    <3>2. PICK b \in Everything' : b.kind = "record" /\ b.id = x BY DEF RecordIds
    <3> QED BY <1>5, <3>1, <3>2
  <2> QED BY <2>1, <2>2
<1>10. \A a \in Everything' : a.parent \notin RecordIds'
  <2> SUFFICES ASSUME NEW a \in Everything \cup N, a.parent \in RecordIds' PROVE FALSE
    OBVIOUS
  <2>1. a.parent \notin RecordIds BY DEF RecordsApart
  <2>2. PICK b \in N : b.kind = "record" /\ a.parent = b.id BY <1>7, <2>1
  <2>3. a \in Everything BY <2>2
  <2>4. a.parent <= minted /\ minted < b.id BY <2>2, <2>3 DEF OneLineAnId
  <2>5. a.parent \in Nat BY <1>2, <1>3, <2>3
  <2> QED BY <1>1, <2>2, <2>4, <2>5
<1>11. leaf' \notin RecordIds' /\ record'.parent \notin RecordIds' BY <1>4, <1>9
<1> QED BY <1>5, <1>6, <1>8, <1>10, <1>11 DEF OneLineAnId, RecordsApart

(* One more write.                                                           *)
LEMMA OneMoreWrite ==
  ASSUME NEW q \in Seq(Writes), NEW w \in Writes
  PROVE  /\ Append(q, w) \in Seq(Writes) /\ Len(q) \in Nat
         /\ Append(q, w) = q \o <<w>>
         /\ DOMAIN q = 1..Len(q) /\ DOMAIN Append(q, w) = 1..(Len(q) + 1)
         /\ Len(Append(q, w)) = Len(q) + 1
         /\ Append(q, w)[Len(q) + 1] = w
         /\ \A k \in 1..Len(q) : Append(q, w)[k] = q[k]
         /\ LinesOf(Append(q, w)) = LinesOf(q) \cup ToSet(w.lines)
<1> DEFINE longer == Append(q, w)
<1>1. /\ longer \in Seq(Writes) /\ Len(q) \in Nat /\ longer = q \o <<w>>
      /\ DOMAIN q = 1..Len(q) /\ DOMAIN longer = 1..(Len(q) + 1)
      /\ Len(longer) = Len(q) + 1 /\ longer[Len(q) + 1] = w
      /\ \A k \in 1..Len(q) : longer[k] = q[k]
  OBVIOUS
<1> HIDE DEF longer
<1>2. ASSUME NEW k \in DOMAIN longer
      PROVE ToSet(longer[k].lines) \subseteq LinesOf(q) \cup ToSet(w.lines)
  <2>1. CASE k = Len(q) + 1 BY <1>1, <2>1
  <2>2. CASE k # Len(q) + 1
    <3>1. k \in DOMAIN q /\ longer[k] = q[k] BY <1>1, <2>2
    <3> QED BY <3>1 DEF LinesOf
  <2> QED BY <2>1, <2>2
<1>3. LinesOf(longer) \subseteq LinesOf(q) \cup ToSet(w.lines) BY <1>2 DEF LinesOf
<1>4. ToSet(w.lines) \subseteq LinesOf(longer)
  <2>1. Len(q) + 1 \in DOMAIN longer BY <1>1
  <2> QED BY <1>1, <2>1 DEF LinesOf
<1>5. ASSUME NEW k \in DOMAIN q PROVE ToSet(q[k].lines) \subseteq LinesOf(longer)
  <2>1. k \in DOMAIN longer /\ longer[k] = q[k] BY <1>1
  <2> QED BY <2>1 DEF LinesOf
<1>6. LinesOf(q) \subseteq LinesOf(longer) BY <1>5 DEF LinesOf
<1> QED BY <1>1, <1>3, <1>4, <1>6 DEF longer

(* The queue without its head.                                               *)
LEMMA OneWriteLess ==
  ASSUME NEW q \in Seq(Writes), q # <<>>
  PROVE  /\ Head(q) \in Writes /\ Tail(q) \in Seq(Writes) /\ q = <<Head(q)>> \o Tail(q)
         /\ Head(q) = q[1] /\ Len(q) \in Nat /\ Len(q) >= 1 /\ Len(Tail(q)) = Len(q) - 1
         /\ 1 \in DOMAIN q /\ DOMAIN q = 1..Len(q) /\ DOMAIN Tail(q) = 1..(Len(q) - 1)
         /\ \A k \in DOMAIN Tail(q) : k + 1 \in DOMAIN q /\ Tail(q)[k] = q[k + 1]
         /\ LinesOf(q) = ToSet(Head(q).lines) \cup LinesOf(Tail(q))
<1> DEFINE t == Tail(q)
<1>1. /\ Head(q) \in Writes /\ t \in Seq(Writes) /\ q = <<Head(q)>> \o t /\ 1 \in DOMAIN q
      /\ Head(q) = q[1] /\ Len(q) \in Nat /\ Len(q) >= 1 /\ Len(t) = Len(q) - 1
      /\ DOMAIN q = 1..Len(q) /\ DOMAIN t = 1..(Len(q) - 1)
      /\ \A k \in DOMAIN t : k + 1 \in DOMAIN q /\ t[k] = q[k + 1]
  OBVIOUS
<1> HIDE DEF t
<1>2. ASSUME NEW k \in DOMAIN q
      PROVE ToSet(q[k].lines) \subseteq ToSet(Head(q).lines) \cup LinesOf(t)
  <2>1. CASE k = 1 BY <1>1, <2>1
  <2>2. CASE k # 1
    <3>1. k - 1 \in DOMAIN t BY <1>1, <2>2
    <3>2. t[k - 1] = q[(k - 1) + 1] /\ (k - 1) + 1 = k BY <1>1, <3>1
    <3> QED BY <3>1, <3>2 DEF LinesOf
  <2> QED BY <2>1, <2>2
<1>3. LinesOf(q) \subseteq ToSet(Head(q).lines) \cup LinesOf(t) BY <1>2 DEF LinesOf
<1>4. ToSet(Head(q).lines) \subseteq LinesOf(q)
  <2>1. 1 \in DOMAIN q BY <1>1
  <2> QED BY <1>1, <2>1 DEF LinesOf
<1>5. ASSUME NEW k \in DOMAIN t PROVE ToSet(t[k].lines) \subseteq LinesOf(q)
  BY <1>1 DEF LinesOf
<1>6. LinesOf(t) \subseteq LinesOf(q) BY <1>5 DEF LinesOf
<1> QED BY <1>1, <1>3, <1>4, <1>6 DEF t

-----------------------------------------------------------------------------
(* Steps that add an entry.                                                  *)

(* What is appended when.                                                    *)
Occasion(e) ==
  \/ /\ e.kind \in MessageKinds \cup {"label"} /\ e.parent = leaf
     /\ e.kind \in MessageKinds => MayFollow(e.kind)
     /\ UNCHANGED <<compacting, moved, strays>>
  \/ /\ e.kind = "compaction" /\ e.parent = leaf
     /\ compacting # NoCompaction /\ e.ref = compacting.ref /\ compacting' = NoCompaction
     /\ moved' = moved /\ strays' = IF moved THEN strays \cup {e.id} ELSE strays
  \/ e.kind = "summary" /\ moved' = TRUE /\ UNCHANGED <<compacting, strays>>

(* What the steps that append an entry have in common.                       *)
Adds(e) ==
  /\ e \in Entries /\ e.kind # "record" /\ e.id = minted + 1
  /\ e.parent \in IdsOf(entries) \cup {0} /\ e.parent \notin RecordIds
  /\ Add(e) /\ Occasion(e)
  /\ compacting' \in {compacting, NoCompaction} /\ moved' \in BOOLEAN
  /\ strays' \in {strays, strays \cup {e.id}} /\ moves' \in 0..MaxMoves

(* A new entry is an entry.                                                  *)
LEMMA NewEntry ==
  ASSUME FilesTypeOK, minted < MaxEntries, NEW parent \in IdsOf(entries) \cup {0},
         NEW kind \in EntryKinds, NEW ref \in 0..MaxEntries, NEW sum \in SUBSET EntryIds,
         NEW e, e = [id |-> minted + 1, parent |-> parent, kind |-> kind, ref |-> ref, sum |-> sum]
  PROVE  e \in Entries /\ e.id = minted + 1 /\ e.parent = parent /\ e.kind = kind /\ e.ref = ref
<1>1. minted + 1 \in EntryIds
  <2>1. minted \in Nat /\ MaxEntries \in Nat BY SessionFilesAssumption DEF FilesTypeOK
  <2> QED BY <2>1 DEF EntryIds
<1>2. parent \in 0..MaxEntries
  <2>1. IdsOf(entries) \subseteq AnyId BY IdsTyped DEF FilesTypeOK
  <2>2. 0 \in AnyId BY SessionFilesAssumption DEF AnyId
  <2> QED BY <2>1, <2>2 DEF AnyId
<1> QED BY <1>1, <1>2 DEF Entries

(* Where the leaf is, is no run record.                                      *)
LEMMA LeafApart ==
  ASSUME FilesTypeOK, RecordsApart
  PROVE  leaf \in IdsOf(entries) \cup {0} /\ leaf \notin RecordIds
BY DEF FilesTypeOK, RecordsApart

(* Where navigation goes to, is no run record.                               *)
LEMMA NewLeafApart ==
  ASSUME FilesTypeOK, OneLineAnId, RecordsApart, NEW e \in ToSet(entries), MayGoTo(e)
  PROVE  NewLeaf(e) \in IdsOf(entries) \cup {0} /\ NewLeaf(e) \notin RecordIds
<1>1. e \in Everything BY EverythingIs
<1>2. e.id \notin RecordIds /\ e.parent \notin RecordIds
  BY <1>1, NoRecordId DEF RecordsApart, MayGoTo
<1> QED BY <1>2 DEF NewLeaf, MayGoTo

(* The steps that append an entry.                                           *)
LEMMA AddSteps ==
  ASSUME FilesTypeOK, OneLineAnId, RecordsApart,
         \/ \E kind \in MessageKinds : AppendMessage(kind)
         \/ \E target \in EntryIds : Label(target)
         \/ ApplyCompaction
         \/ \E e \in ToSet(entries) : NavigateSummarized(e)
  PROVE  \E e : Adds(e)
<1>0. /\ compacting \in [ref : 0..MaxEntries, sum : SUBSET EntryIds]
      /\ moved \in BOOLEAN /\ moves \in 0..MaxMoves
  BY DEF FilesTypeOK
<1>1. leaf \in IdsOf(entries) \cup {0} /\ leaf \notin RecordIds BY LeafApart
<1>2. 0 \in 0..MaxEntries /\ {} \in SUBSET EntryIds /\ EntryIds \subseteq 0..MaxEntries
  BY SessionFilesAssumption DEF EntryIds
<1>3. MessageKinds \subseteq EntryKinds \ {"record"} /\ "label" \in EntryKinds
      /\ "compaction" \in EntryKinds /\ "summary" \in EntryKinds
  BY DEF EntryKinds, InContext, MessageKinds
<1>4. ASSUME NEW kind \in MessageKinds, AppendMessage(kind) PROVE \E e : Adds(e)
  <2> DEFINE e == [id |-> minted + 1, parent |-> leaf, kind |-> kind, ref |-> 0, sum |-> {}]
  <2>1. New(kind) = e BY DEF New, Entry
  <2> HIDE DEF e
  <2>2. Add(e) /\ MayFollow(kind) /\ UNCHANGED <<compacting, moved, strays, moves>>
    BY <1>4, <2>1 DEF AppendMessage
  <2>3. minted < MaxEntries BY <2>2 DEF Add
  <2>4. e \in Entries /\ e.id = minted + 1 /\ e.parent = leaf /\ e.kind = kind
    BY <1>1, <1>2, <1>3, <2>3, NewEntry DEF e
  <2>5. Occasion(e) BY <2>2, <2>4 DEF Occasion
  <2>6. Adds(e) BY <1>0, <1>1, <1>3, <2>2, <2>4, <2>5 DEF Adds
  <2> QED BY <2>6
<1>5. ASSUME NEW target \in EntryIds, Label(target) PROVE \E e : Adds(e)
  <2> DEFINE e == [id |-> minted + 1, parent |-> leaf, kind |-> "label", ref |-> target, sum |-> {}]
  <2>1. [New("label") EXCEPT !.ref = target] = e BY DEF New, Entry
  <2> HIDE DEF e
  <2>2. Add(e) /\ UNCHANGED <<compacting, moved, strays, moves>> BY <1>5, <2>1 DEF Label
  <2>3. minted < MaxEntries BY <2>2 DEF Add
  <2>4. e \in Entries /\ e.id = minted + 1 /\ e.parent = leaf /\ e.kind = "label"
    BY <1>1, <1>2, <1>3, <2>3, NewEntry DEF e
  <2>5. Occasion(e) BY <2>2, <2>4 DEF Occasion, MessageKinds
  <2>6. Adds(e) BY <1>0, <1>1, <2>2, <2>4, <2>5 DEF Adds
  <2> QED BY <2>6
<1>6. ASSUME ApplyCompaction PROVE \E e : Adds(e)
  <2> DEFINE r == compacting.ref
             s == compacting.sum
             e == [id |-> minted + 1, parent |-> leaf, kind |-> "compaction", ref |-> r, sum |-> s]
  <2>1. [New("compaction") EXCEPT !.ref = compacting.ref, !.sum = compacting.sum] = e
    <3> HIDE DEF r, s
    <3> DEFINE x == New("compaction")
               y == [x EXCEPT !.ref = r]
    <3>1. x = [id |-> minted + 1, parent |-> leaf, kind |-> "compaction", ref |-> 0, sum |-> {}]
      BY DEF New, Entry
    <3> HIDE DEF x
    <3>2. y = [id |-> minted + 1, parent |-> leaf, kind |-> "compaction", ref |-> r, sum |-> {}]
      BY <3>1
    <3>3. [x EXCEPT !.ref = r, !.sum = s] = [y EXCEPT !.sum = s] OBVIOUS
    <3> HIDE DEF y
    <3>4. [y EXCEPT !.sum = s] = e BY <3>2
    <3>5. [x EXCEPT !.ref = r, !.sum = s] = e BY <3>3, <3>4
    <3> QED BY <3>5 DEF x, r, s
  <2> HIDE DEF e
  <2>2. /\ Add(e) /\ compacting' = NoCompaction /\ UNCHANGED <<moved, moves>>
        /\ compacting # NoCompaction
        /\ strays' = IF moved THEN strays \cup {minted'} ELSE strays
    BY <1>6, <2>1 DEF ApplyCompaction
  <2>3. minted < MaxEntries /\ minted' = e.id BY <2>2 DEF Add
  <2>4. /\ e \in Entries /\ e.id = minted + 1 /\ e.parent = leaf /\ e.kind = "compaction"
        /\ e.ref = compacting.ref
    <3>1. r \in 0..MaxEntries /\ s \in SUBSET EntryIds BY <1>0
    <3>2. r = compacting.ref OBVIOUS
    <3> HIDE DEF r, s
    <3>3. /\ e \in Entries /\ e.id = minted + 1 /\ e.parent = leaf /\ e.kind = "compaction"
          /\ e.ref = r
      BY <1>1, <1>3, <2>3, <3>1, NewEntry DEF e
    <3> QED BY <3>2, <3>3
  <2>5. Occasion(e) BY <2>2, <2>3, <2>4 DEF Occasion
  <2>6. Adds(e) BY <1>0, <1>1, <2>2, <2>3, <2>4, <2>5 DEF Adds
  <2> QED BY <2>6
<1>7. ASSUME NEW d \in ToSet(entries), NavigateSummarized(d) PROVE \E e : Adds(e)
  <2> DEFINE e == [id |-> minted + 1, parent |-> NewLeaf(d), kind |-> "summary",
                   ref |-> 0, sum |-> {}]
  <2>1. [New("summary") EXCEPT !.parent = NewLeaf(d)] = e BY DEF New, Entry
  <2> HIDE DEF e
  <2>2. /\ Add(e) /\ moved' = TRUE /\ UNCHANGED <<compacting, strays>>
        /\ moves < MaxMoves /\ moves' = moves + 1 /\ MayGoTo(d)
    BY <1>7, <2>1 DEF NavigateSummarized, MayMove
  <2>3. minted < MaxEntries BY <2>2 DEF Add
  <2>4. NewLeaf(d) \in IdsOf(entries) \cup {0} /\ NewLeaf(d) \notin RecordIds BY <2>2, NewLeafApart
  <2>5. e \in Entries /\ e.id = minted + 1 /\ e.parent = NewLeaf(d) /\ e.kind = "summary"
    BY <1>2, <1>3, <2>3, <2>4, NewEntry DEF e
  <2>6. moves' \in 0..MaxMoves BY <1>0, <2>2, SessionFilesAssumption
  <2>7. Occasion(e) BY <2>2, <2>5 DEF Occasion
  <2>8. Adds(e) BY <2>2, <2>4, <2>5, <2>6, <2>7 DEF Adds
  <2> QED BY <2>8
<1> QED BY <1>4, <1>5, <1>6, <1>7

(* What a step that appends an entry queues.                                 *)
LEMMA AddQueues ==
  ASSUME FilesTypeOK, OneLineAnId, NEW e, Adds(e)
  PROVE  /\ entries' = Append(entries, e) /\ entries' \in Seq(Entries) /\ Distinct(entries')
         /\ ToSet(entries') = ToSet(entries) \cup {e}
         /\ IdsOf(entries') = IdsOf(entries) \cup {e.id}
         /\ leaf' = e.id /\ minted' = e.id /\ flushed' = Answered(entries')
         /\ UNCHANGED <<file, disk, faults, record, holes>>
         /\ \/ ~flushed' /\ queued' = queued
            \/ flushed' /\ \E w \in Writes :
                 /\ queued' = Append(queued, w) /\ w.file = file /\ WriteOK(w)
                 /\ IF flushed THEN ~w.whole /\ w.lines = <<e>>
                    ELSE w.whole /\ w.lines = <<Header>> \o entries'
                 /\ ToSet(w.lines) \subseteq {Header} \cup ToSet(entries')
<1>0. /\ e \in Entries /\ e.id = minted + 1 /\ Add(e) BY DEF Adds
<1>1. /\ entries \in Seq(Entries) /\ Distinct(entries) /\ minted \in Nat
      /\ flushed \in BOOLEAN /\ queued \in Seq(Writes) /\ file \in Files
  BY SessionFilesAssumption DEF FilesTypeOK
<1>2. /\ entries' = Append(entries, e) /\ leaf' = e.id /\ minted' = e.id
      /\ flushed' = Answered(entries') /\ queued' = queued \o Persisted(e)
      /\ UNCHANGED <<file, disk, faults, record, holes>>
  BY <1>0 DEF Add, Begun
<1>3. entries' \in Seq(Entries) BY <1>0, <1>1, <1>2
<1>4. ToSet(entries') = ToSet(entries) \cup {e} BY <1>0, <1>1, <1>2, ToSetAppend
<1>5. IdsOf(entries') = IdsOf(entries) \cup {e.id} BY <1>4, IdsAre
<1>6. e.id \notin IdsOf(entries)
  <2> SUFFICES ASSUME NEW a \in ToSet(entries), a.id = e.id PROVE FALSE BY IdsAre
  <2>1. a \in Everything BY EverythingIs
  <2>2. a.id <= minted BY <2>1 DEF OneLineAnId
  <2> QED BY <1>0, <1>1, <2>2
<1>7. Distinct(entries') BY <1>0, <1>1, <1>2, <1>6, DistinctAppend
<1>8. CASE ~Answered(entries')
  <2>1. queued' = queued BY <1>1, <1>2, <1>8 DEF Persisted
  <2> QED BY <1>2, <1>3, <1>4, <1>5, <1>7, <1>8, <2>1
<1>9. CASE Answered(entries') /\ flushed
  <2> DEFINE w == Append1(file, <<e>>)
  <2>1. e \in Lines /\ <<e>> \in Seq(Lines) /\ ToSet(<<e>>) = {e}
    <3>1. e \in Lines BY <1>0 DEF Lines
    <3>2. DOMAIN <<e>> = {1} /\ <<e>>[1] = e OBVIOUS
    <3> QED BY <3>1, <3>2 DEF ToSet
  <2>2. w \in Writes /\ w.file = file /\ w.lines = <<e>> /\ ~w.whole
    BY <1>1, <2>1 DEF Append1, Writes
  <2>3. queued' = queued \o <<w>> BY <1>2, <1>9 DEF Persisted
  <2> HIDE DEF w
  <2>4. queued' = Append(queued, w) BY <1>1, <2>2, <2>3
  <2>5. w.lines = <<w.lines[1]>> /\ w.lines[1] \in Entries BY <1>0, <2>2
  <2>6. WriteOK(w) BY <2>2, <2>5 DEF WriteOK, Alone
  <2>7. ToSet(w.lines) \subseteq {Header} \cup ToSet(entries') BY <1>4, <2>1, <2>2
  <2> QED BY <1>2, <1>3, <1>4, <1>5, <1>7, <1>9, <2>2, <2>4, <2>6, <2>7
<1>10. CASE Answered(entries') /\ ~flushed
  <2> DEFINE w == Replace(file, entries')
             lines == <<Header>> \o entries'
  <2>1. /\ lines \in Seq(Lines) /\ lines # <<>> /\ Head(lines) = Header /\ FileLike(lines)
        /\ ToSet(lines) = {Header} \cup ToSet(entries')
    BY <1>3, <1>7, HeaderFirst
  <2>2. w = [file |-> file, whole |-> TRUE, lines |-> lines] BY DEF Replace
  <2>3. queued' = queued \o <<w>> BY <1>2, <1>10 DEF Persisted
  <2> HIDE DEF w, lines
  <2>4. w \in Writes /\ w.file = file /\ w.lines = lines /\ w.whole
    BY <1>1, <2>1, <2>2 DEF Writes
  <2>5. queued' = Append(queued, w) BY <1>1, <2>3, <2>4
  <2>6. WriteOK(w) BY <2>1, <2>4 DEF WriteOK
  <2>7. ToSet(w.lines) \subseteq {Header} \cup ToSet(entries') BY <2>1, <2>4
  <2> QED BY <1>2, <1>3, <1>4, <1>5, <1>7, <1>10, <2>4, <2>5, <2>6, <2>7 DEF lines
<1> QED BY <1>8, <1>9, <1>10

-----------------------------------------------------------------------------
(* Types, ids and files: each step.                                          *)

(* Files are numbered.                                                       *)
LEMMA FilesAre == /\ Cardinality(Files) \in Nat /\ Files = 1..Cardinality(Files)
                  /\ Files \subseteq Nat /\ 0 \notin Files
<1>1. Cardinality(Files) \in Nat BY SessionFilesAssumption, FS_CardinalityType
<1>2. Files = 1..Cardinality(Files) BY SessionFilesAssumption
<1> QED BY <1>1, <1>2

(* A write is queued: one that replaces the file, or a new entry.            *)
LEMMA QueueGrows ==
  ASSUME IdInv, NEW w \in Writes, queued' = Append(queued, w), disk' = disk, file' = file,
         WriteOK(w), w.file <= file, ~w.whole => w.lines[1].id = minted + 1, record'.file <= file
  PROVE  FilesSound' /\ InOrder' /\ queued' \in Seq(Writes)
         /\ LinesOf(queued') = LinesOf(queued) \cup ToSet(w.lines)
<1>0. queued \in Seq(Writes) /\ minted \in Nat BY SessionFilesAssumption DEF IdInv, FilesTypeOK
<1>1. /\ queued' \in Seq(Writes) /\ Len(queued) \in Nat /\ DOMAIN queued = 1..Len(queued)
      /\ DOMAIN queued' = 1..(Len(queued) + 1) /\ queued'[Len(queued) + 1] = w
      /\ \A k \in 1..Len(queued) : queued'[k] = queued[k]
      /\ LinesOf(queued') = LinesOf(queued) \cup ToSet(w.lines)
  BY <1>0, OneMoreWrite
<1>2. \A k \in DOMAIN queued' : k # Len(queued) + 1 => k \in DOMAIN queued /\ queued'[k] = queued[k]
  BY <1>1
<1>3. FilesSound'
  <2>1. ASSUME NEW k \in DOMAIN queued' PROVE WriteOK(queued'[k]) /\ queued'[k].file <= file
    <3>1. CASE k = Len(queued) + 1 BY <1>1, <3>1
    <3>2. CASE k # Len(queued) + 1 BY <1>2, <3>2 DEF IdInv, FilesSound
    <3> QED BY <3>1, <3>2
  <2> QED BY <2>1 DEF IdInv, FilesSound
<1>4. \A x \in Everything : x.id <= minted /\ x.id \in Nat
  BY EverythingIs, LineFields DEF IdInv, OneLineAnId
<1>5. ASSUME ~w.whole PROVE \A x \in Everything : x.id < w.lines[1].id
  <2> TAKE x \in Everything
  <2>1. x.id <= minted /\ x.id \in Nat /\ w.lines[1].id = minted + 1 BY <1>4, <1>5
  <2> QED BY <1>0, <2>1
<1>6. InOrder'
  <2> SUFFICES ASSUME NEW k \in DOMAIN queued', ~queued'[k].whole
               PROVE  /\ \A f \in Files : Younger(queued'[k].lines[1], disk[f])
                      /\ \A j \in 1..(k - 1) : Younger(queued'[k].lines[1], queued'[j].lines)
    BY DEF InOrder
  <2>1. CASE k = Len(queued) + 1
    <3>1. \A f \in Files : Younger(w.lines[1], disk[f])
      BY <1>1, <1>5, <2>1, EverythingIs DEF IdInv, Younger
    <3>2. ASSUME NEW j \in 1..(k - 1) PROVE Younger(w.lines[1], queued'[j].lines)
      <4>1. j \in DOMAIN queued /\ queued'[j] = queued[j] BY <1>1, <2>1
      <4> QED BY <1>1, <1>5, <2>1, <4>1, EverythingIs DEF IdInv, Younger
    <3> QED BY <1>1, <2>1, <3>1, <3>2
  <2>2. CASE k # Len(queued) + 1
    <3>1. k \in DOMAIN queued /\ queued'[k] = queued[k] BY <1>2, <2>2
    <3>2. \A j \in 1..(k - 1) : queued'[j] = queued[j] BY <1>1, <3>1
    <3> QED BY <3>1, <3>2 DEF IdInv, InOrder
  <2> QED BY <2>1, <2>2
<1> QED BY <1>1, <1>3, <1>6

(* Steps that append an entry.                                               *)
LEMMA AddKeepsIds ==
  ASSUME IdInv, NEW e, Adds(e) PROVE IdInv'
<1> USE DEF IdInv
<1>0. /\ e \in Entries /\ e.kind # "record" /\ e.id = minted + 1 /\ minted' = e.id
      /\ e.parent \in IdsOf(entries) \cup {0} /\ e.parent \notin RecordIds
      /\ compacting' \in {compacting, NoCompaction} /\ moved' \in BOOLEAN
      /\ strays' \in {strays, strays \cup {e.id}} /\ moves' \in 0..MaxMoves
  BY DEF Adds, Add
<1>1. /\ entries' = Append(entries, e) /\ entries' \in Seq(Entries) /\ Distinct(entries')
      /\ ToSet(entries') = ToSet(entries) \cup {e} /\ IdsOf(entries') = IdsOf(entries) \cup {e.id}
      /\ leaf' = e.id /\ minted' = e.id /\ flushed' = Answered(entries')
      /\ UNCHANGED <<file, disk, faults, record, holes>>
      /\ \/ ~flushed' /\ queued' = queued
         \/ flushed' /\ \E w \in Writes :
              /\ queued' = Append(queued, w) /\ w.file = file /\ WriteOK(w)
              /\ IF flushed THEN ~w.whole /\ w.lines = <<e>>
                 ELSE w.whole /\ w.lines = <<Header>> \o entries'
              /\ ToSet(w.lines) \subseteq {Header} \cup ToSet(entries')
  BY AddQueues
<1>2. /\ minted \in Nat /\ e.id \in EntryIds /\ e.id \in Nat /\ e.parent \in Nat /\ e \in Lines
      /\ file \in Nat
  BY <1>0, SessionFilesAssumption, EntryFields, LineFields, FilesAre DEF FilesTypeOK, Lines
<1>3. /\ FilesSound' /\ InOrder' /\ queued' \in Seq(Writes)
      /\ LinesOf(queued') \subseteq LinesOf(queued) \cup {Header} \cup ToSet(entries')
  <2>1. CASE queued' = queued
    <3>1. FilesSound' /\ InOrder' BY <1>1, <2>1 DEF FilesSound, InOrder
    <3> QED BY <2>1, <3>1 DEF FilesTypeOK
  <2>2. ASSUME NEW w \in Writes, queued' = Append(queued, w), w.file = file, WriteOK(w),
               ~w.whole => w.lines = <<e>>, ToSet(w.lines) \subseteq {Header} \cup ToSet(entries')
        PROVE  /\ FilesSound' /\ InOrder' /\ queued' \in Seq(Writes)
               /\ LinesOf(queued') \subseteq LinesOf(queued) \cup {Header} \cup ToSet(entries')
    <3>1. ~w.whole => w.lines[1].id = minted + 1 BY <1>0, <2>2
    <3>2. w.file <= file BY <1>2, <2>2
    <3>3. record'.file <= file BY <1>1 DEF FilesSound
    <3>4. FilesSound' /\ InOrder' /\ queued' \in Seq(Writes)
          /\ LinesOf(queued') = LinesOf(queued) \cup ToSet(w.lines)
      BY <1>1, <2>2, <3>1, <3>2, <3>3, QueueGrows
    <3> QED BY <2>2, <3>4
  <2>3. CASE queued' # queued
    <3>1. PICK w \in Writes :
            /\ queued' = Append(queued, w) /\ w.file = file /\ WriteOK(w)
            /\ ~w.whole => w.lines = <<e>>
            /\ ToSet(w.lines) \subseteq {Header} \cup ToSet(entries')
      BY <1>1, <2>3
    <3> QED BY <2>2, <3>1
  <2> QED BY <2>1, <2>3
<1>4. FilesTypeOK'
  <2>1. compacting' \in [ref : 0..MaxEntries, sum : SUBSET EntryIds]
    BY <1>0, SessionFilesAssumption DEF FilesTypeOK, NoCompaction
  <2>2. strays' \subseteq EntryIds BY <1>0, <1>2 DEF FilesTypeOK
  <2>3. minted' \in 0..MaxEntries
    <3>1. e.id \in 1..MaxEntries BY <1>2 DEF EntryIds
    <3> QED BY <1>1, <3>1, SessionFilesAssumption
  <2>4. flushed' \in BOOLEAN BY <1>1 DEF Answered
  <2>5. leaf' \in IdsOf(entries') \cup {0} BY <1>1
  <2> QED BY <1>0, <1>1, <1>3, <2>1, <2>2, <2>3, <2>4, <2>5 DEF FilesTypeOK
<1>5. Everything' \subseteq Everything \cup {e}
  BY <1>1, <1>3 DEF Everything
<1>6. e \in Everything' BY <1>1, <1>4, EverythingIs DEF Everything
<1>7. e.parent <= minted'
  <2>1. CASE e.parent = 0 BY <1>2, <2>1, <1>0
  <2>2. CASE e.parent \in IdsOf(entries)
    <3>1. PICK a \in ToSet(entries) : a.id = e.parent BY <2>2, IdsAre
    <3>2. a \in Everything BY EverythingIs
    <3>3. a.id <= minted BY <3>2 DEF OneLineAnId
    <3> QED BY <1>0, <1>2, <3>1, <3>3
  <2> QED BY <1>0, <2>1, <2>2
<1>8. record'.parent <= minted /\ record'.parent \notin RecordIds
  BY <1>1 DEF OneLineAnId, RecordsApart
<1>9. e.id > minted /\ e.id <= minted' /\ minted <= minted' BY <1>0, <1>2
<1>10. OneLineAnId' /\ RecordsApart'
  <2> DEFINE N == {e}
  <2>1. N \subseteq Lines /\ Everything' \subseteq Everything \cup N BY <1>2, <1>5
  <2>2. /\ \A a \in N : minted < a.id /\ a.id <= minted' /\ a.parent <= minted'
        /\ \A a, b \in N : a.id = b.id => a = b
        /\ \A a \in N : a.parent \notin RecordIds
        /\ \A a, b \in N : a.kind = "record" => b.parent # a.id
    BY <1>0, <1>2, <1>7, <1>9
  <2>3. \E a \in Everything' : a.kind # "record" /\ a.id = leaf' BY <1>0, <1>1, <1>6
  <2> HIDE DEF N
  <2> QED BY <1>4, <1>8, <1>9, <2>1, <2>2, <2>3, IdsStay
<1> QED BY <1>3, <1>4, <1>10

(* A step that brings no line and leaves the ids and the leaf.               *)
LEMMA NothingNew ==
  ASSUME IdInv, FilesTypeOK', Everything' \subseteq Everything, minted' = minted,
         leaf' = leaf \/ (\E a \in Everything' : a.kind # "record" /\ a.id = leaf'),
         \/ record' = record
         \/ \E a \in Everything' : a.kind # "record" /\ a.id = record'.parent
  PROVE  OneLineAnId' /\ RecordsApart'
<1> DEFINE N == {}
<1>1. N \subseteq Lines /\ Everything' \subseteq Everything \cup N OBVIOUS
<1>2. minted <= minted' BY SessionFilesAssumption DEF IdInv, FilesTypeOK
<1>3. /\ \A a \in N : minted < a.id /\ a.id <= minted' /\ a.parent <= minted'
      /\ \A a, b \in N : a.id = b.id => a = b
      /\ \A a \in N : a.parent \notin RecordIds
      /\ \A a, b \in N : a.kind = "record" => b.parent # a.id
  OBVIOUS
<1>4. leaf <= minted /\ leaf \notin RecordIds /\ record.parent <= minted
      /\ record.parent \notin RecordIds
  BY DEF IdInv, OneLineAnId, RecordsApart
<1> HIDE DEF N
<1> QED BY <1>1, <1>2, <1>3, <1>4, IdsStay DEF IdInv

(* What a write makes of the files.                                          *)
LEMMA WriteIs ==
  ASSUME IdInv, WriteOne
  PROVE  LET w == Head(queued)
         IN /\ queued # <<>> /\ w \in Writes /\ WriteOK(w) /\ w.file \in Files /\ w.file <= file
            /\ queued' = Tail(queued) /\ queued' \in Seq(Writes)
            /\ disk' \in [Files -> Seq(Lines)]
            /\ \A f \in Files : f # w.file => disk'[f] = disk[f]
            /\ disk'[w.file] = Written(disk[w.file], w)
            /\ FileLike(disk'[w.file])
            /\ \A f \in Files : ToSet(disk'[f]) \subseteq ToSet(disk[f]) \cup ToSet(w.lines)
            /\ UNCHANGED <<managerVars, faults, minted, record, compacting, moved, strays,
                           moves, holes>>
<1> DEFINE w == Head(queued)
           d == disk[w.file]
<1>1. /\ queued # <<>> /\ queued' = Tail(queued)
      /\ disk' = [disk EXCEPT ![w.file] = Written(d, w)]
      /\ UNCHANGED <<managerVars, faults, minted, record, compacting, moved, strays, moves, holes>>
  BY DEF WriteOne
<1>2. disk \in [Files -> Seq(Lines)] /\ queued \in Seq(Writes) BY DEF IdInv, FilesTypeOK
<1>3. /\ w \in Writes /\ w = queued[1] /\ 1 \in DOMAIN queued /\ Tail(queued) \in Seq(Writes)
      /\ LinesOf(queued) = ToSet(w.lines) \cup LinesOf(Tail(queued))
  BY <1>1, <1>2, OneWriteLess
<1>4. WriteOK(w) /\ w.file <= file BY <1>3 DEF IdInv, FilesSound
<1> HIDE DEF w
<1>5. w.file \in Files /\ w.lines \in Seq(Lines) /\ d \in Seq(Lines) BY <1>2, <1>3, WriteFields
<1>6. FileLike(d) BY <1>5 DEF IdInv, FilesSound
<1> HIDE DEF d
<1>7. Written(d, w) \in Seq(Lines) /\ ToSet(Written(d, w)) \subseteq ToSet(d) \cup ToSet(w.lines)
  BY <1>3, <1>5, WrittenIs
<1>8. FileLike(Written(d, w))
  <2>1. CASE w.whole BY <1>4, <2>1 DEF WriteOK, Written
  <2>2. CASE ~w.whole
    <3> DEFINE e == w.lines[1]
    <3>1. e \in Entries /\ w.lines = <<e>> BY <1>4, <2>2 DEF WriteOK, Alone
    <3>2. Younger(e, d) BY <1>3, <1>5, <2>2 DEF IdInv, InOrder, d
    <3> HIDE DEF e
    <3>3. Written(d, w) = Append(d, e) BY <1>5, <2>2, <3>1, LoadAppend DEF Written
    <3> QED BY <1>5, <1>6, <3>1, <3>2, <3>3, FileLikeAppend
  <2> QED BY <2>1, <2>2
<1>9. /\ disk' \in [Files -> Seq(Lines)] /\ disk'[w.file] = Written(d, w)
      /\ \A f \in Files : f # w.file => disk'[f] = disk[f]
  BY <1>1, <1>2, <1>5, <1>7
<1>10. \A f \in Files : ToSet(disk'[f]) \subseteq ToSet(disk[f]) \cup ToSet(w.lines)
  <2> TAKE f \in Files
  <2>1. CASE f = w.file BY <1>7, <1>9, <2>1 DEF d
  <2>2. CASE f # w.file BY <1>9, <2>2
  <2> QED BY <2>1, <2>2
<1> QED BY <1>1, <1>3, <1>4, <1>5, <1>8, <1>9, <1>10 DEF w, d

(* The queue without its head is as good.                                    *)
LEMMA QueueShrinks ==
  ASSUME IdInv, queued # <<>>, queued' = Tail(queued), file' = file, record' = record,
         disk' \in [Files -> Seq(Lines)], \A f \in Files : FileLike(disk'[f]),
         \A f \in Files : f > file => disk'[f] = <<>>,
         \A f \in Files : ToSet(disk'[f]) \subseteq ToSet(disk[f]) \cup ToSet(Head(queued).lines)
  PROVE  FilesSound' /\ InOrder' /\ Everything' \subseteq
           Everything \cup ToSet(entries')
<1>1. queued \in Seq(Writes) BY DEF IdInv, FilesTypeOK
<1>2. /\ Head(queued) = queued[1] /\ 1 \in DOMAIN queued /\ DOMAIN queued = 1..Len(queued)
      /\ \A k \in DOMAIN queued' : k + 1 \in DOMAIN queued /\ queued'[k] = queued[k + 1]
      /\ DOMAIN queued' = 1..(Len(queued) - 1) /\ Len(queued) \in Nat
      /\ LinesOf(queued) = ToSet(Head(queued).lines) \cup LinesOf(queued')
  <2> DEFINE q == queued
  <2>1. q \in Seq(Writes) /\ q # <<>> /\ queued' = Tail(q) BY <1>1
  <2> HIDE DEF q
  <2>2. /\ Head(q) = q[1] /\ 1 \in DOMAIN q /\ DOMAIN q = 1..Len(q)
        /\ \A k \in DOMAIN Tail(q) : k + 1 \in DOMAIN q /\ Tail(q)[k] = q[k + 1]
        /\ DOMAIN Tail(q) = 1..(Len(q) - 1) /\ Len(q) \in Nat
        /\ LinesOf(q) = ToSet(Head(q).lines) \cup LinesOf(Tail(q))
    BY <2>1, OneWriteLess
  <2> QED BY <2>1, <2>2 DEF q
<1>3. FilesSound' BY <1>2 DEF IdInv, FilesSound
<1>4. InOrder'
  <2> SUFFICES ASSUME NEW k \in DOMAIN queued', ~queued'[k].whole
               PROVE  /\ \A f \in Files : Younger(queued'[k].lines[1], disk'[f])
                      /\ \A j \in 1..(k - 1) : Younger(queued'[k].lines[1], queued'[j].lines)
    BY DEF InOrder
  <2> DEFINE e == queued[k + 1].lines[1]
  <2>1. k + 1 \in DOMAIN queued /\ queued'[k] = queued[k + 1] /\ k \in Nat /\ k >= 1 BY <1>2
  <2>2. /\ \A f \in Files : Younger(e, disk[f])
        /\ \A j \in 1..k : Younger(e, queued[j].lines)
    BY <2>1 DEF IdInv, InOrder
  <2>3. Younger(e, Head(queued).lines) BY <1>2, <2>1, <2>2
  <2>4. \A f \in Files : Younger(e, disk'[f]) BY <2>2, <2>3 DEF Younger
  <2>5. ASSUME NEW j \in 1..(k - 1) PROVE Younger(e, queued'[j].lines)
    <3>1. j \in DOMAIN queued' /\ j + 1 \in 1..k BY <1>2, <2>1
    <3> QED BY <1>2, <2>2, <3>1
  <2> QED BY <2>1, <2>4, <2>5
<1>5. \A f \in Files : ToSet(disk'[f]) \subseteq Everything
  <2> TAKE f \in Files
  <2>1. ToSet(Head(queued).lines) \subseteq Everything /\ ToSet(disk[f]) \subseteq Everything
    BY <1>2, EverythingIs DEF IdInv
  <2> QED BY <2>1
<1>6. LinesOf(queued') \subseteq Everything BY <1>2, EverythingIs DEF IdInv
<1>7. Everything' \subseteq Everything \cup ToSet(entries')
  <2> DEFINE D == UNION {ToSet(disk'[f]) : f \in Files}
  <2>1. Everything' = {Header} \cup ToSet(entries') \cup D \cup LinesOf(queued')
    BY DEF Everything
  <2>2. D \subseteq Everything BY <1>5
  <2> HIDE DEF D
  <2>3. Header \in Everything BY EverythingIs DEF IdInv
  <2> QED BY <1>6, <2>1, <2>2, <2>3
<1> QED BY <1>3, <1>4, <1>7

(* The writer writes.                                                        *)
LEMMA WriteKeepsIds ==
  ASSUME IdInv, WriteOne PROVE IdInv'
<1>1. /\ queued # <<>> /\ Head(queued) \in Writes /\ Head(queued).file \in Files
      /\ Head(queued).file <= file
      /\ queued' = Tail(queued) /\ queued' \in Seq(Writes) /\ disk' \in [Files -> Seq(Lines)]
      /\ \A f \in Files : f # Head(queued).file => disk'[f] = disk[f]
      /\ FileLike(disk'[Head(queued).file])
      /\ \A f \in Files : ToSet(disk'[f]) \subseteq ToSet(disk[f]) \cup ToSet(Head(queued).lines)
      /\ UNCHANGED <<managerVars, faults, minted, record, compacting, moved, strays, moves, holes>>
  BY WriteIs
<1>2. \A f \in Files : FileLike(disk'[f]) BY <1>1 DEF IdInv, FilesSound
<1>3. \A f \in Files : f > file => disk'[f] = <<>>
  <2> SUFFICES ASSUME NEW f \in Files, f > file PROVE disk'[f] = <<>> OBVIOUS
  <2>1. f \in Nat /\ file \in Nat /\ Head(queued).file \in Nat
    BY <1>1, FilesAre DEF IdInv, FilesTypeOK
  <2>2. f # Head(queued).file BY <1>1, <2>1
  <2> QED BY <1>1, <2>2 DEF IdInv, FilesSound
<1>4. UNCHANGED <<entries, leaf, flushed, file, minted, record, compacting, moved, strays, moves,
                  faults, holes>>
  BY <1>1 DEF managerVars
<1>5. FilesSound' /\ InOrder' /\ Everything' \subseteq Everything \cup ToSet(entries')
  BY <1>1, <1>2, <1>3, <1>4, QueueShrinks
<1>6. Everything' \subseteq Everything BY <1>4, <1>5, EverythingIs DEF IdInv
<1>7. FilesTypeOK' BY <1>1, <1>4 DEF IdInv, FilesTypeOK
<1> QED BY <1>4, <1>5, <1>6, <1>7, NothingNew DEF IdInv

(* A write fails.                                                            *)
LEMMA FailKeepsIds ==
  ASSUME IdInv, WriteFails PROVE IdInv'
<1>1. /\ queued # <<>> /\ queued' = Tail(queued) /\ faults < MaxFaults /\ faults' = faults + 1
      /\ holes' = holes \cup IdsOf(Head(queued).lines)
      /\ UNCHANGED <<entries, leaf, flushed, file, disk, minted, record, compacting, moved,
                     strays, moves>>
  BY DEF WriteFails, managerVars
<1>2. queued \in Seq(Writes) /\ disk \in [Files -> Seq(Lines)] BY DEF IdInv, FilesTypeOK
<1>3. Head(queued) \in Writes /\ Tail(queued) \in Seq(Writes) BY <1>1, <1>2, OneWriteLess
<1>4. IdsOf(Head(queued).lines) \subseteq 0..MaxEntries
  <2>1. Head(queued).lines \in Seq(Lines) BY <1>3, WriteFields
  <2>2. ToSet(Head(queued).lines) \subseteq Lines BY <2>1 DEF ToSet
  <2> QED BY <2>2, LineFields, IdsAre DEF AnyId
<1>5. faults' \in 0..MaxFaults BY <1>1, SessionFilesAssumption DEF IdInv, FilesTypeOK
<1>6. FilesTypeOK' BY <1>1, <1>3, <1>4, <1>5 DEF IdInv, FilesTypeOK
<1>7. FilesSound' /\ InOrder' /\ Everything' \subseteq Everything \cup ToSet(entries')
  <2>1. /\ \A f \in Files : FileLike(disk'[f])
        /\ \A f \in Files : f > file => disk'[f] = <<>>
        /\ \A f \in Files : ToSet(disk'[f]) \subseteq ToSet(disk[f]) \cup ToSet(Head(queued).lines)
    BY <1>1 DEF IdInv, FilesSound
  <2> QED BY <1>1, <1>2, <2>1, QueueShrinks
<1>8. Everything' \subseteq Everything BY <1>1, <1>7, EverythingIs DEF IdInv
<1> QED BY <1>1, <1>6, <1>7, <1>8, NothingNew DEF IdInv

(* A session file is read for a run record.                                  *)
LEMMA ReadKeepsIds ==
  ASSUME IdInv, NEW f \in Files, ReadForRecord(f) PROVE IdInv'
<1>1. /\ record' = [file |-> f, parent |-> LeafOf(Load(disk[f]))]
      /\ queued = <<>> /\ Answered(Load(disk[f]))
      /\ UNCHANGED <<entries, leaf, flushed, file, disk, queued, faults, minted, compacting,
                     moved, strays, moves, holes>>
  BY DEF ReadForRecord, managerVars, writerVars
<1>2. disk[f] \in Seq(Lines) /\ FileLike(disk[f]) BY DEF IdInv, FilesTypeOK, FilesSound
<1>3. /\ Load(disk[f]) \in Seq(Entries) /\ ToSet(Load(disk[f])) \subseteq ToSet(disk[f])
  BY <1>2, LoadIs
<1>4. ToSet(disk[f]) \subseteq Everything /\ Header \in Everything BY EverythingIs DEF IdInv
<1>5. Everything' = Everything BY <1>1 DEF Everything
<1>6. \E a \in Everything : a.kind # "record" /\ a.id = record'.parent
  <2>1. CASE LeafOf(Load(disk[f])) = 0 BY <1>1, <1>4, <2>1, HeaderIs
  <2>2. CASE LeafOf(Load(disk[f])) # 0
    <3>1. PICK e \in ToSet(Load(disk[f])) : e.kind # "record" /\ LeafOf(Load(disk[f])) = e.id
      BY <1>3, <2>2, LeafOfIs
    <3> QED BY <1>1, <1>3, <1>4, <3>1
  <2> QED BY <2>1, <2>2
<1>7. record'.parent \in 0..MaxEntries
  <2>1. Everything \subseteq Lines BY EverythingIs DEF IdInv
  <2> QED BY <1>6, <2>1, LineFields DEF AnyId
<1>8. FilesTypeOK' BY <1>1, <1>7 DEF IdInv, FilesTypeOK
<1>9. f <= file
  <2>1. disk[f] # <<>>
    <3> SUFFICES ASSUME disk[f] = <<>> PROVE FALSE OBVIOUS
    <3>1. Load(disk[f]) = <<>> BY DEF Load
    <3>2. DOMAIN Load(disk[f]) = {} BY <3>1
    <3> QED BY <1>1, <3>2 DEF Answered
  <2>2. f \in Nat /\ file \in Nat BY FilesAre DEF IdInv, FilesTypeOK
  <2> QED BY <2>1, <2>2 DEF IdInv, FilesSound
<1>10. FilesSound' /\ InOrder' BY <1>1, <1>9 DEF IdInv, FilesSound, InOrder
<1> QED BY <1>1, <1>5, <1>6, <1>8, <1>10, NothingNew DEF IdInv

(* The run record is queued.                                                 *)
LEMMA RecordKeepsIds ==
  ASSUME IdInv, QueueRecord
  PROVE  /\ IdInv'
         /\ \E w \in Writes, e \in Entries :
              /\ queued' = Append(queued, w) /\ w.file = record.file /\ ~w.whole /\ w.lines = <<e>>
              /\ e.kind = "record" /\ e.parent = record.parent /\ e.id = minted + 1 /\ WriteOK(w)
<1> DEFINE e == Entry(minted + 1, record.parent, "record")
           w == Append1(record.file, <<e>>)
<1>1. /\ record # NoRecord /\ minted < MaxEntries /\ minted' = minted + 1 /\ record' = NoRecord
      /\ queued' = Append(queued, w)
      /\ UNCHANGED <<entries, leaf, flushed, file, disk, faults, compacting, moved, strays,
                     moves, holes>>
  BY DEF QueueRecord, managerVars
<1>2. /\ queued \in Seq(Writes) /\ disk \in [Files -> Seq(Lines)] /\ minted \in Nat
      /\ record \in {NoRecord} \cup [file : Files, parent : 0..MaxEntries] /\ file \in Files
  BY SessionFilesAssumption DEF IdInv, FilesTypeOK
<1>3. record.parent \in 0..MaxEntries /\ record.file \in Files BY <1>1, <1>2, RecordFields
<1>4. e \in Entries /\ e.id = minted + 1 /\ e.parent = record.parent /\ e.kind = "record"
  <2>1. minted + 1 \in EntryIds BY <1>1, <1>2, SessionFilesAssumption DEF EntryIds
  <2>2. "record" \in EntryKinds /\ 0 \in 0..MaxEntries
    BY SessionFilesAssumption DEF EntryKinds
  <2> QED BY <1>3, <2>1, <2>2 DEF Entry, Entries
<1> HIDE DEF e
<1>5. e \in Lines /\ e.id \in Nat /\ e.parent \in Nat /\ e.id <= MaxEntries
  BY <1>1, <1>2, <1>4, LineFields, SessionFilesAssumption DEF Lines
<1>6. ToSet(<<e>>) = {e} /\ <<e>> \in Seq(Lines)
  <2>1. DOMAIN <<e>> = {1} /\ <<e>>[1] = e OBVIOUS
  <2> QED BY <1>5, <2>1 DEF ToSet
<1>7. w \in Writes /\ w.file = record.file /\ ~w.whole /\ w.lines = <<e>>
  BY <1>3, <1>6 DEF Append1, Writes
<1> HIDE DEF w
<1>8. WriteOK(w)
  <2>1. w.lines = <<w.lines[1]>> /\ w.lines[1] \in Entries BY <1>4, <1>7
  <2> QED BY <1>7, <2>1 DEF WriteOK, Alone
<1>9. /\ FilesSound' /\ InOrder' /\ queued' \in Seq(Writes)
      /\ LinesOf(queued') = LinesOf(queued) \cup {e}
  <2>1. w.file <= file /\ record.file <= file BY <1>7 DEF IdInv, FilesSound
  <2>2. ~w.whole => w.lines[1].id = minted + 1 BY <1>4, <1>7
  <2>3. record'.file <= file BY <1>1, <1>2, FilesAre DEF NoRecord
  <2>4. ToSet(w.lines) = {e} BY <1>6, <1>7
  <2> QED BY <1>1, <1>7, <1>8, <2>1, <2>2, <2>3, <2>4, QueueGrows
<1>10. FilesTypeOK'
  <2>1. minted' \in 0..MaxEntries BY <1>1, <1>2, SessionFilesAssumption
  <2> QED BY <1>1, <1>9, <2>1 DEF IdInv, FilesTypeOK
<1>11. Everything' \subseteq Everything \cup {e} BY <1>1, <1>9 DEF Everything
<1>12. OneLineAnId' /\ RecordsApart'
  <2> DEFINE N == {e}
  <2>1. N \subseteq Lines /\ Everything' \subseteq Everything \cup N BY <1>5, <1>11
  <2>2. /\ leaf <= minted /\ leaf \notin RecordIds /\ record.parent <= minted
        /\ record.parent \notin RecordIds
    BY DEF IdInv, OneLineAnId, RecordsApart
  <2>3. minted <= minted' /\ record.parent <= minted' /\ minted < e.id /\ e.id <= minted'
        /\ e.parent # e.id
    BY <1>1, <1>2, <1>4, <1>5, <2>2
  <2>4. /\ \A a \in N : minted < a.id /\ a.id <= minted' /\ a.parent <= minted'
        /\ \A a, b \in N : a.id = b.id => a = b
        /\ \A a \in N : a.parent \notin RecordIds
        /\ \A a, b \in N : a.kind = "record" => b.parent # a.id
    BY <1>4, <2>2, <2>3
  <2>5. leaf' <= minted /\ leaf' \notin RecordIds BY <1>1, <2>2
  <2>6. \E a \in Everything' : a.kind # "record" /\ a.id = record'.parent
    BY <1>1, <1>10, EverythingIs, HeaderIs DEF NoRecord, Everything
  <2> HIDE DEF N
  <2> QED BY <1>10, <2>1, <2>3, <2>4, <2>5, <2>6, IdsStay DEF IdInv
<1> QED BY <1>1, <1>4, <1>7, <1>8, <1>9, <1>10, <1>12 DEF IdInv

(* Two sequences in a row.                                                   *)
LEMMA DistinctConcat ==
  ASSUME NEW S, NEW s \in Seq(S), NEW t \in Seq(S), Distinct(s), Distinct(t),
         IdsOf(s) \cap IdsOf(t) = {}
  PROVE  Distinct(s \o t) /\ IdsOf(s \o t) = IdsOf(s) \cup IdsOf(t)
<1> DEFINE n == Len(s)
           st == s \o t
<1>1. /\ n \in Nat /\ Len(t) \in Nat /\ DOMAIN s = 1..n /\ DOMAIN t = 1..Len(t)
      /\ DOMAIN st = 1..(n + Len(t))
      /\ \A i \in (n + 1)..(n + Len(t)) : st[i] = t[i - n]
  OBVIOUS
<1>2. \A i \in 1..n : st[i] = s[i] OBVIOUS
<1> HIDE DEF n, st
<1>3. \A i \in 1..n : st[i].id \in IdsOf(s) BY <1>1, <1>2 DEF IdsOf
<1>4. ASSUME NEW i \in (n + 1)..(n + Len(t)) PROVE i - n \in DOMAIN t /\ st[i].id \in IdsOf(t)
  <2>1. i - n \in DOMAIN t /\ st[i] = t[i - n] BY <1>1
  <2> QED BY <2>1 DEF IdsOf
<1>5. ASSUME NEW i \in DOMAIN st, NEW j \in DOMAIN st, st[i].id = st[j].id PROVE i = j
  <2>1. CASE i \in 1..n /\ j \in 1..n BY <1>1, <1>2, <1>5, <2>1 DEF Distinct
  <2>2. CASE i \notin 1..n /\ j \notin 1..n
    <3>1. i \in (n + 1)..(n + Len(t)) /\ j \in (n + 1)..(n + Len(t)) BY <1>1, <2>2
    <3>2. i - n = j - n BY <1>1, <1>4, <1>5, <3>1 DEF Distinct
    <3> QED BY <1>1, <3>1, <3>2
  <2>3. CASE i \in 1..n /\ j \notin 1..n
    <3>1. j \in (n + 1)..(n + Len(t)) BY <1>1, <2>3
    <3> QED BY <1>3, <1>4, <1>5, <2>3, <3>1
  <2>4. CASE i \notin 1..n /\ j \in 1..n
    <3>1. i \in (n + 1)..(n + Len(t)) BY <1>1, <2>4
    <3> QED BY <1>3, <1>4, <1>5, <2>4, <3>1
  <2> QED BY <2>1, <2>2, <2>3, <2>4
<1>6. ToSet(st) = ToSet(s) \cup ToSet(t) BY ToSetConcat DEF st
<1>7. IdsOf(st) = IdsOf(s) \cup IdsOf(t) BY <1>6, IdsAre
<1> QED BY <1>5, <1>7 DEF Distinct, st

(* All on a branch but its end is a parent.                                  *)
LEMMA BranchAncestors ==
  ASSUME NEW es \in Seq(Entries), NEW x \in AnyId
  PROVE  \A e \in ToSet(Branch(es, x)) : e.id = x \/ \E d \in ToSet(es) : d.parent = e.id
<1> DEFINE Ends(s, y) ==
             \A e \in ToSet(Branch(s, y)) : e.id = y \/ \E d \in ToSet(s) : d.parent = e.id
           P(s) == \A y \in AnyId : Ends(s, y)
           T == {s \in Seq(Entries) : P(s)}
<1>1. <<>> \in T
  <2>1. ASSUME NEW y \in AnyId PROVE Ends(<<>>, y)
    <3>1. Branch(<<>>, y) = <<>> BY BranchEmpty
    <3>2. ToSet(<<>>) = {} BY DEF ToSet
    <3> QED BY <3>1, <3>2
  <2> QED BY <2>1
<1>2. \A s \in T, e \in Entries : Append(s, e) \in T
  <2> TAKE s \in T, e \in Entries
  <2>1. s \in Seq(Entries) /\ P(s) OBVIOUS
  <2>2. ASSUME NEW y \in AnyId PROVE Ends(Append(s, e), y)
    <3>1. Branch(Append(s, e), y) = IF e.id = y THEN Append(Branch(s, e.parent), e)
            ELSE Branch(s, y)
      BY <2>1, BranchAppend
    <3>2. ToSet(Append(s, e)) = ToSet(s) \cup {e} BY <2>1, ToSetAppend
    <3>3. e.parent \in AnyId BY EntryFields
    <3> DEFINE b == Branch(s, e.parent)
    <3>4. b \in Seq(Entries) BY <2>1, <3>3, BranchElements
    <3>5. Ends(s, y) /\ Ends(s, e.parent) BY <2>1, <3>3
    <3>6. CASE e.id = y
      <4>1. ToSet(Append(b, e)) = ToSet(b) \cup {e} BY <3>4, ToSetAppend
      <4> QED BY <3>1, <3>2, <3>5, <3>6, <4>1
    <3>7. CASE e.id # y BY <3>1, <3>2, <3>5, <3>7
    <3> QED BY <3>6, <3>7
  <2>3. P(Append(s, e)) BY <2>2
  <2>4. Append(s, e) \in Seq(Entries) BY <2>1
  <2> HIDE DEF P
  <2> QED BY <2>3, <2>4
<1>3. T \subseteq Seq(Entries) OBVIOUS
<1>4. es \in T
  <2> HIDE DEF T
  <2>1. Seq(Entries) \subseteq T BY <1>1, <1>2, <1>3, SeqInduct
  <2> QED BY <2>1
<1> QED BY <1>4

(* A sequence of the members of a finite set.                                *)
LEMMA SetToSeqIs ==
  ASSUME NEW S, IsFiniteSet(S)
  PROVE  SetToSeq(S) \in Seq(S) /\ Len(SetToSeq(S)) = Cardinality(S) /\ Cardinality(S) \in Nat
<1>1. PICK n \in Nat : ExistsBijection(1..n, S) BY FS_NatBijection
<1>2. Cardinality(S) = n BY <1>1, FS_CountingElements
<1>3. PICK f : f \in Bijection(1..n, S) BY <1>1 DEF ExistsBijection
<1>4. f \in [1..n -> S] /\ \A a, b \in 1..n : f[a] = f[b] => a = b
  BY <1>3 DEF Bijection, Injection, IsInjective
<1>5. IsInjective(f) BY <1>4 DEF IsInjective
<1>6. SetToSeq(S) \in [1..n -> S] BY <1>2, <1>4, <1>5 DEF SetToSeq
<1> QED BY <1>2, <1>6

(* A fork's copy is the path without its labels, and new labels in a chain.  *)
LastId(s) == IF s = <<>> THEN 0 ELSE Last(s).id
Unlabelled(path) == Only(path, EntryKinds \ {"label"})
LabelChain(labels, kept) ==
  \A i \in 1..Len(labels) :
    /\ labels[i].id = minted + i /\ labels[i].kind = "label"
    /\ labels[i].parent = IF i = 1 THEN LastId(kept) ELSE minted + i - 1

(* What Forked makes of a path: the labels' ids were not given out.          *)
LEMMA ForkedIs ==
  ASSUME minted \in Nat, NEW path \in Seq(Entries),
         minted + Cardinality(LabelIds(path)) <= MaxEntries
  PROVE  /\ Unlabelled(path) \in Seq(Entries)
         /\ Cardinality(LabelIds(path)) \in Nat
         /\ \E labels \in Seq(Entries) :
              /\ Forked(path) = Unlabelled(path) \o labels
              /\ LabelChain(labels, Unlabelled(path))
              /\ Len(labels) <= Cardinality(LabelIds(path))
<1> DEFINE kept == Unlabelled(path)
           T == LabelIds(kept)
           target == SetToSeq(T)
           above(i) == IF i = 1 THEN (IF kept = <<>> THEN 0 ELSE Last(kept).id) ELSE minted + i - 1
           label(i) == [Entry(minted + i, above(i), "label") EXCEPT !.ref = target[i]]
           labels == [i \in DOMAIN target |-> label(i)]
<1>1. kept \in Seq(Entries) /\ ToSet(kept) \subseteq ToSet(path) BY OnlyElements DEF Unlabelled
<1>2. Forked(path) = kept \o labels BY DEF Forked, Unlabelled
<1> HIDE DEF kept
<1>3. IdsOf(kept) \subseteq IdsOf(path) /\ IdsOf(path) \subseteq EntryIds
  BY <1>1, IdsAre, IdsTyped
<1>4. T \subseteq LabelIds(path) /\ LabelIds(path) \subseteq EntryIds /\ T \subseteq EntryIds
  BY <1>3 DEF LabelIds
<1>5. IsFiniteSet(EntryIds) BY SessionFilesAssumption, FS_Interval DEF EntryIds
<1>6. /\ IsFiniteSet(LabelIds(path)) /\ IsFiniteSet(T)
      /\ Cardinality(T) <= Cardinality(LabelIds(path))
  BY <1>4, <1>5, FS_Subset
<1>7. Cardinality(T) \in Nat /\ Cardinality(LabelIds(path)) \in Nat BY <1>6, FS_CardinalityType
<1>8. target \in Seq(T) /\ Len(target) = Cardinality(T) BY <1>6, SetToSeqIs
<1> HIDE DEF target, T
<1>9. \A i \in 1..Len(target) :
        /\ i \in Nat /\ minted + i \in EntryIds /\ target[i] \in 0..MaxEntries
        /\ above(i) \in 0..MaxEntries
  <2> TAKE i \in 1..Len(target)
  <2>1. i \in Nat /\ i >= 1 /\ i <= Cardinality(T) BY <1>7, <1>8
  <2>2. minted + i \in EntryIds BY <1>6, <1>7, <2>1, SessionFilesAssumption DEF EntryIds
  <2>3. target[i] \in T BY <1>8
  <2>4. target[i] \in 0..MaxEntries
    <3>1. EntryIds \subseteq 0..MaxEntries BY SessionFilesAssumption DEF EntryIds
    <3> QED BY <1>4, <2>3, <3>1
  <2>5. above(i) \in 0..MaxEntries
    <3>1. CASE i # 1 BY <1>6, <1>7, <2>1, <3>1, SessionFilesAssumption
    <3>2. CASE i = 1 /\ kept = <<>> BY <3>2, SessionFilesAssumption
    <3>3. CASE i = 1 /\ kept # <<>>
      <4>1. Last(kept) \in Entries BY <1>1, <3>3 DEF Last
      <4> QED BY <3>3, <4>1, EntryFields DEF AnyId
    <3> QED BY <3>1, <3>2, <3>3
  <2> QED BY <2>1, <2>2, <2>4, <2>5
<1> HIDE DEF above
<1>10. \A i \in 1..Len(target) :
         label(i) = [id |-> minted + i, parent |-> above(i), kind |-> "label", ref |-> target[i],
                     sum |-> {}]
  <2> TAKE i \in 1..Len(target)
  <2> DEFINE x == Entry(minted + i, above(i), "label")
             r == target[i]
             m == minted + i
             p == above(i)
  <2>1. x = [id |-> m, parent |-> p, kind |-> "label", ref |-> 0, sum |-> {}] BY DEF Entry
  <2> HIDE DEF x, r, m, p
  <2> DEFINE s == {}
  <2>2. x = [id |-> m, parent |-> p, kind |-> "label", ref |-> 0, sum |-> s] BY <2>1
  <2> HIDE DEF s
  <2>3. [x EXCEPT !.ref = r] = [id |-> m, parent |-> p, kind |-> "label", ref |-> r, sum |-> s]
    BY <2>2
  <2> QED BY <2>3 DEF x, r, m, p, s
<1>11. "label" \in EntryKinds BY DEF EntryKinds
<1> HIDE DEF label
<1>12. \A i \in 1..Len(target) : label(i) \in Entries BY <1>9, <1>10, <1>11, SMTT(30) DEF Entries
<1>13. /\ labels \in Seq(Entries) /\ Len(labels) = Len(target)
       /\ \A i \in 1..Len(labels) : labels[i] = label(i)
  <2>1. DOMAIN target = 1..Len(target) /\ Len(target) \in Nat BY <1>8
  <2>2. labels \in [1..Len(target) -> Entries] BY <1>12, <2>1
  <2> QED BY <2>1, <2>2
<1> HIDE DEF labels
<1>14. LabelChain(labels, kept)
  <2> SUFFICES ASSUME NEW i \in 1..Len(labels)
               PROVE  /\ labels[i].id = minted + i /\ labels[i].kind = "label"
                      /\ labels[i].parent = IF i = 1 THEN LastId(kept) ELSE minted + i - 1
    BY DEF LabelChain
  <2>1. labels[i].id = minted + i /\ labels[i].kind = "label" /\ labels[i].parent = above(i)
    BY <1>10, <1>13
  <2> QED BY <2>1 DEF above, LastId
<1> QED BY <1>1, <1>2, <1>6, <1>7, <1>8, <1>13, <1>14 DEF kept

(* A session file is opened.                                                 *)
LEMMA OpenIs ==
  ASSUME NEW f \in Files, NEW lines \in Seq(Lines), FileLike(lines), Open(f, lines)
  PROVE  /\ file' = f /\ entries' = Load(lines) /\ flushed' = (lines # <<>>)
         /\ compacting' = NoCompaction /\ moved' = FALSE /\ strays' = strays
         /\ entries' \in Seq(Entries) /\ Distinct(entries')
         /\ ToSet(entries') \subseteq ToSet(lines)
         /\ leaf' = LeafOf(entries') /\ leaf' \in IdsOf(entries') \cup {0}
         /\ \E a \in {Header} \cup ToSet(entries') : a.kind # "record" /\ a.id = leaf'
         /\ flushed' \in BOOLEAN /\ (Answered(entries') => flushed')
<1>1. /\ file' = f /\ entries' = Load(lines) /\ flushed' = (lines # <<>>)
      /\ compacting' = NoCompaction /\ moved' = FALSE /\ strays' = strays
      /\ leaf' = LeafOf(entries')
  BY DEF Open, AfterOpen
<1>2. entries' \in Seq(Entries) /\ Distinct(entries') /\ ToSet(entries') \subseteq ToSet(lines)
  BY <1>1, LoadIs
<1>3. /\ leaf' \in IdsOf(entries') \cup {0}
      /\ \E a \in {Header} \cup ToSet(entries') : a.kind # "record" /\ a.id = leaf'
  <2>1. CASE leaf' = 0 BY <2>1, HeaderIs
  <2>2. CASE leaf' # 0
    <3>1. PICK e \in ToSet(entries') : e.kind # "record" /\ e.id = leaf'
      BY <1>1, <1>2, <2>2, LeafOfIs
    <3>2. leaf' \in IdsOf(entries') BY <3>1, IdsAre
    <3> QED BY <3>1, <3>2
  <2> QED BY <2>1, <2>2
<1>4. flushed' \in BOOLEAN /\ (Answered(entries') => flushed')
  <2> SUFFICES ASSUME lines = <<>>, Answered(entries') PROVE FALSE BY <1>1
  <2>1. entries' = <<>> BY <1>1 DEF Load
  <2>2. DOMAIN entries' = {} BY <2>1
  <2> QED BY <2>2 DEF Answered
<1> QED BY <1>1, <1>2, <1>3, <1>4

(* The program restarts.                                                     *)
LEMMA RestartIs ==
  ASSUME IdInv, Restart
  PROVE  LET lines == disk[file]
         IN /\ moves' \in 0..MaxMoves /\ record' = NoRecord
            /\ UNCHANGED <<disk, faults, minted, holes>>
            /\ lines \in Seq(Lines) /\ FileLike(lines) /\ file \in Files /\ file \in Nat
            /\ disk \in [Files -> Seq(Lines)]
            /\ ToSet(lines) \subseteq Everything /\ Header \in Everything
            /\ file' = file /\ entries' = Load(lines) /\ flushed' = (lines # <<>>)
            /\ compacting' = NoCompaction /\ moved' = FALSE /\ strays' = strays
            /\ entries' \in Seq(Entries) /\ Distinct(entries')
            /\ ToSet(entries') \subseteq ToSet(lines)
            /\ leaf' = LeafOf(entries') /\ leaf' \in IdsOf(entries') \cup {0}
            /\ \E a \in {Header} \cup ToSet(entries') : a.kind # "record" /\ a.id = leaf'
            /\ flushed' \in BOOLEAN /\ (Answered(entries') => flushed')
            /\ \/ queued' = <<>> /\ (lines = <<>> \/ Load(lines) # <<>>)
               \/ /\ lines # <<>> /\ Load(lines) = <<>>
                  /\ \E w \in Writes :
                       /\ queued' = <<w>> /\ w.file = file /\ w.whole /\ WriteOK(w)
                       /\ w.lines = <<Header>> /\ w.lines = <<Header>> \o entries'
<1> DEFINE lines == disk[file]
<1>1. /\ moves' \in 0..MaxMoves /\ Open(file, lines) /\ record' = NoRecord
      /\ queued' = IF lines # <<>> /\ Load(lines) = <<>> THEN <<Replace(file, <<>>)>> ELSE <<>>
      /\ UNCHANGED <<disk, faults, minted, holes>>
  BY SessionFilesAssumption DEF Restart, MayMove, IdInv, FilesTypeOK
<1>2. /\ lines \in Seq(Lines) /\ FileLike(lines) /\ file \in Files /\ file \in Nat
      /\ disk \in [Files -> Seq(Lines)]
  BY FilesAre DEF IdInv, FilesTypeOK, FilesSound
<1>3. ToSet(lines) \subseteq Everything /\ Header \in Everything
  BY <1>2, EverythingIs DEF IdInv
<1> HIDE DEF lines
<1>4. /\ file' = file /\ entries' = Load(lines) /\ flushed' = (lines # <<>>)
      /\ compacting' = NoCompaction /\ moved' = FALSE /\ strays' = strays
      /\ entries' \in Seq(Entries) /\ Distinct(entries') /\ ToSet(entries') \subseteq ToSet(lines)
      /\ leaf' = LeafOf(entries') /\ leaf' \in IdsOf(entries') \cup {0}
      /\ \E a \in {Header} \cup ToSet(entries') : a.kind # "record" /\ a.id = leaf'
      /\ flushed' \in BOOLEAN /\ (Answered(entries') => flushed')
  BY <1>1, <1>2, OpenIs
<1>5. ASSUME lines # <<>>, Load(lines) = <<>>
      PROVE  \E w \in Writes : /\ queued' = <<w>> /\ w.file = file /\ w.whole /\ WriteOK(w)
                               /\ w.lines = <<Header>> /\ w.lines = <<Header>> \o entries'
  <2> DEFINE none == <<>>
             w == Replace(file, none)
             h == <<Header>> \o none
  <2>1. none \in Seq(Entries) /\ Distinct(none) BY DEF Distinct
  <2>2. entries' = none BY <1>4, <1>5
  <2>3. h = <<Header>> OBVIOUS
  <2> HIDE DEF none
  <2>4. h \in Seq(Lines) /\ h # <<>> /\ Head(h) = Header /\ FileLike(h) BY <2>1, HeaderFirst
  <2>5. w = [file |-> file, whole |-> TRUE, lines |-> h] BY DEF Replace
  <2>6. queued' = <<w>> BY <1>1, <1>5 DEF none
  <2>7. h = <<Header>> \o entries' BY <2>2
  <2> HIDE DEF h
  <2>8. w \in Writes /\ w.file = file /\ w.whole /\ w.lines = h BY <1>2, <2>4, <2>5 DEF Writes
  <2>9. WriteOK(w) BY <2>4, <2>8 DEF WriteOK
  <2> HIDE DEF w
  <2> QED BY <2>3, <2>6, <2>7, <2>8, <2>9
<1>6. CASE lines # <<>> /\ Load(lines) = <<>> BY <1>1, <1>2, <1>3, <1>4, <1>5, <1>6 DEF lines
<1>7. CASE lines = <<>> \/ Load(lines) # <<>>
  <2>1. queued' = <<>> BY <1>1, <1>7
  <2> QED BY <1>1, <1>2, <1>3, <1>4, <1>7, <2>1 DEF lines
<1> QED BY <1>6, <1>7

(* Types, ids and files: a restart.                                          *)
LEMMA RestartKeepsIds ==
  ASSUME IdInv, Restart PROVE IdInv'
<1> DEFINE lines == disk[file]
<1>1. /\ moves' \in 0..MaxMoves /\ record' = NoRecord /\ UNCHANGED <<disk, faults, minted, holes>>
  BY RestartIs
<1>2. /\ lines \in Seq(Lines) /\ FileLike(lines) /\ file \in Files /\ file \in Nat
      /\ disk \in [Files -> Seq(Lines)]
  BY RestartIs
<1>3. ToSet(lines) \subseteq Everything /\ Header \in Everything
  BY RestartIs
<1>4. /\ file' = file /\ compacting' = NoCompaction /\ moved' = FALSE /\ strays' = strays
      /\ entries' \in Seq(Entries) /\ Distinct(entries') /\ ToSet(entries') \subseteq ToSet(lines)
      /\ leaf' \in IdsOf(entries') \cup {0}
      /\ \E a \in {Header} \cup ToSet(entries') : a.kind # "record" /\ a.id = leaf'
      /\ flushed' \in BOOLEAN /\ (Answered(entries') => flushed')
  BY RestartIs
<1> HIDE DEF lines
<1>5. /\ queued' \in Seq(Writes) /\ LinesOf(queued') \subseteq {Header}
      /\ \A k \in DOMAIN queued' : queued'[k].whole /\ WriteOK(queued'[k]) /\ queued'[k].file = file
  <2>1. CASE queued' = <<>>
    <3>1. DOMAIN queued' = {} BY <2>1
    <3>2. LinesOf(queued') = {} BY <3>1 DEF LinesOf
    <3> QED BY <2>1, <3>1, <3>2
  <2>2. ASSUME NEW w \in Writes, queued' = <<w>>, w.file = file, w.whole, WriteOK(w),
               w.lines = <<Header>>
        PROVE  /\ queued' \in Seq(Writes) /\ LinesOf(queued') \subseteq {Header}
               /\ \A k \in DOMAIN queued' :
                    queued'[k].whole /\ WriteOK(queued'[k]) /\ queued'[k].file = file
    <3>1. DOMAIN w.lines = {1} /\ w.lines[1] = Header BY <2>2
    <3>2. ToSet(w.lines) = {Header} BY <3>1 DEF ToSet
    <3>3. queued' \in Seq(Writes) /\ DOMAIN queued' = {1} /\ queued'[1] = w BY <2>2
    <3>4. LinesOf(queued') = {Header} BY <3>2, <3>3 DEF LinesOf
    <3> QED BY <2>2, <3>3, <3>4
  <2> QED BY <2>1, <2>2, RestartIs
<1>6. FilesTypeOK'
  <2>1. NoCompaction \in [ref : 0..MaxEntries, sum : SUBSET EntryIds]
    BY SessionFilesAssumption DEF NoCompaction
  <2> QED BY <1>1, <1>4, <1>5, <2>1 DEF IdInv, FilesTypeOK
<1>7. FilesSound' /\ InOrder'
  <2>1. file <= file /\ 0 <= file BY <1>2
  <2>2. FilesSound' BY <1>1, <1>4, <1>5, <2>1 DEF IdInv, FilesSound, NoRecord
  <2> QED BY <1>5, <2>2 DEF InOrder
<1>8. Everything' \subseteq Everything
  BY <1>1, <1>3, <1>4, <1>5 DEF Everything
<1>9. /\ \E a \in Everything' : a.kind # "record" /\ a.id = leaf'
      /\ \E a \in Everything' : a.kind # "record" /\ a.id = record'.parent
  <2>1. Header \in Everything' /\ ToSet(entries') \subseteq Everything' BY DEF Everything
  <2> QED BY <1>1, <1>4, <2>1, HeaderIs DEF NoRecord
<1> QED BY <1>1, <1>6, <1>7, <1>8, <1>9, NothingNew DEF IdInv

(* A new session is begun.                                                   *)
LEMMA NewSessionKeepsIds ==
  ASSUME IdInv, NewSession PROVE IdInv'
<1> DEFINE none == <<>>
<1>1. /\ moves' \in 0..MaxMoves /\ file + 1 \in Files /\ Open(file + 1, none)
      /\ UNCHANGED <<disk, queued, faults, record, minted, holes>>
  BY SessionFilesAssumption DEF NewSession, MayMove, IdInv, FilesTypeOK, writerVars
<1>2. none \in Seq(Lines) /\ FileLike(none) /\ file \in Nat /\ ToSet(none) = {}
  BY FilesAre DEF IdInv, FilesTypeOK, FileLike, Distinct, ToSet
<1> HIDE DEF none
<1>3. /\ file' = file + 1 /\ compacting' = NoCompaction /\ moved' = FALSE /\ strays' = strays
      /\ entries' \in Seq(Entries) /\ Distinct(entries') /\ ToSet(entries') \subseteq ToSet(none)
      /\ leaf' \in IdsOf(entries') \cup {0}
      /\ \E a \in {Header} \cup ToSet(entries') : a.kind # "record" /\ a.id = leaf'
      /\ flushed' \in BOOLEAN /\ (Answered(entries') => flushed')
  BY <1>1, <1>2, OpenIs
<1>4. FilesTypeOK'
  <2>1. NoCompaction \in [ref : 0..MaxEntries, sum : SUBSET EntryIds]
    BY SessionFilesAssumption DEF NoCompaction
  <2> QED BY <1>1, <1>3, <2>1 DEF IdInv, FilesTypeOK
<1>5. FilesSound' /\ InOrder'
  <2>1. \A k \in DOMAIN queued : queued[k].file <= file /\ queued[k].file \in Nat
    BY EverythingIs, WriteFields, FilesAre DEF IdInv, FilesSound
  <2>2. \A k \in DOMAIN queued : queued[k].file <= file + 1
    <3> TAKE k \in DOMAIN queued
    <3> QED BY <1>2, <2>1
  <2>3. \A f \in Files : f > file + 1 => f > file
    <3> TAKE f \in Files
    <3>1. f \in Nat BY FilesAre
    <3> QED BY <1>2, <3>1
  <2>4. record.file <= file + 1
    <3>1. record.file \in Files \cup {0} BY RecordFields DEF IdInv, FilesTypeOK
    <3>2. record.file \in Nat BY <3>1, FilesAre
    <3> QED BY <1>2, <3>2 DEF IdInv, FilesSound
  <2> QED BY <1>1, <1>3, <2>2, <2>3, <2>4 DEF IdInv, FilesSound, InOrder
<1>6. Everything' \subseteq Everything BY <1>1, <1>2, <1>3 DEF Everything
<1>7. \E a \in Everything' : a.kind # "record" /\ a.id = leaf'
  <2>1. Header \in Everything' /\ ToSet(entries') \subseteq Everything' BY DEF Everything
  <2> QED BY <1>3, <2>1
<1> QED BY <1>1, <1>4, <1>5, <1>6, <1>7, NothingNew DEF IdInv

(* Navigation, and compactions that are prepared and dropped, change no file *)
(* and no entry.                                                             *)
LEMMA OthersKeepIds ==
  ASSUME IdInv,
         \/ \E e \in ToSet(entries) : Navigate(e)
         \/ PrepareCompaction \/ DropCompaction \/ UNCHANGED filesVars
  PROVE  IdInv'
<1>0. UNCHANGED <<entries, flushed, file, disk, queued, faults, minted, record, strays, holes>>
  BY DEF Navigate, PrepareCompaction, DropCompaction, filesVars, managerVars, writerVars
<1>1. Everything' = Everything /\ FilesSound' /\ InOrder'
  BY <1>0 DEF Everything, IdInv, FilesSound, InOrder
<1>2. /\ moves' \in 0..MaxMoves /\ moved' \in BOOLEAN
      /\ compacting' \in [ref : 0..MaxEntries, sum : SUBSET EntryIds]
      /\ leaf' \in IdsOf(entries) \cup {0}
      /\ leaf' = leaf \/ \E a \in Everything : a.kind # "record" /\ a.id = leaf'
  <2>0. /\ moves \in 0..MaxMoves /\ moved \in BOOLEAN /\ leaf \in IdsOf(entries) \cup {0}
        /\ compacting \in [ref : 0..MaxEntries, sum : SUBSET EntryIds]
        /\ entries \in Seq(Entries)
    BY DEF IdInv, FilesTypeOK
  <2>1. ASSUME NEW e \in ToSet(entries), Navigate(e) PROVE <1>2
    <3>1. /\ moves < MaxMoves /\ moves' = moves + 1 /\ moved' = TRUE /\ compacting' = compacting
          /\ leaf' = NewLeaf(e) /\ MayGoTo(e)
      BY <2>1 DEF Navigate, MayMove
    <3>2. leaf' \in IdsOf(entries) \cup {0} /\ leaf' \notin RecordIds
      BY <3>1, NewLeafApart DEF IdInv
    <3>3. \E a \in Everything : a.kind # "record" /\ a.id = leaf'
      <4>1. CASE leaf' = 0 BY <4>1, EverythingIs, HeaderIs DEF IdInv
      <4>2. CASE leaf' \in IdsOf(entries)
        <5>1. PICK a \in ToSet(entries) : a.id = leaf' BY <4>2, IdsAre
        <5>2. a \in Everything BY EverythingIs DEF IdInv
        <5> QED BY <3>2, <5>1, <5>2 DEF RecordIds
      <4> QED BY <3>2, <4>1, <4>2
    <3> QED BY <2>0, <3>1, <3>2, <3>3, SessionFilesAssumption
  <2>2. CASE PrepareCompaction
    <3>1. /\ CanCompact(Current) /\ compacting' = Compaction(Current) /\ moved' = FALSE
          /\ UNCHANGED <<leaf, moves>>
      BY <2>2 DEF PrepareCompaction, managerVars
    <3>2. Current \in Seq(Entries)
      <4>1. leaf \in AnyId BY <2>0, IdsTyped, SessionFilesAssumption DEF AnyId
      <4> QED BY <2>0, <4>1, BranchElements DEF Current
    <3>3. Compaction(Current) \in [ref : EntryIds, sum : SUBSET EntryIds]
      BY <3>1, <3>2, CompactionIs
    <3>4. EntryIds \subseteq 0..MaxEntries BY SessionFilesAssumption DEF EntryIds
    <3> QED BY <2>0, <3>1, <3>3, <3>4
  <2>3. CASE DropCompaction
    <3>1. compacting' = NoCompaction /\ UNCHANGED <<leaf, moves, moved>>
      BY <2>3 DEF DropCompaction, managerVars
    <3> QED BY <2>0, <3>1, SessionFilesAssumption DEF NoCompaction
  <2>4. CASE UNCHANGED filesVars BY <2>0, <2>4 DEF filesVars, managerVars
  <2> QED BY <2>1, <2>2, <2>3, <2>4
<1>3. FilesTypeOK' BY <1>0, <1>2 DEF IdInv, FilesTypeOK
<1> QED BY <1>0, <1>1, <1>2, <1>3, NothingNew DEF IdInv

(* What a fork takes over is no run record's, and nothing goes on from one.  *)
LEMMA ForkedPath ==
  ASSUME IdInv, NEW to, to \in Forkable, to \in IdsOf(Load(disk[file]))
  PROVE  LET es == Load(disk[file])
             path == Branch(es, to)
         IN /\ to \in AnyId /\ to \notin RecordIds
            /\ es \in Seq(Entries) /\ Distinct(es) /\ ToSet(es) \subseteq Everything
            /\ path \in Seq(Entries) /\ Distinct(path) /\ ToSet(path) \subseteq ToSet(es)
            /\ path # <<>> /\ Last(path).id = to
            /\ \A e \in ToSet(path) : e.id \notin RecordIds /\ e.kind # "record"
            /\ \A x \in IdsOf(path) : x <= minted
<1> DEFINE lines == disk[file]
           es == Load(lines)
           path == Branch(es, to)
<1>1. /\ lines \in Seq(Lines) /\ FileLike(lines) /\ ToSet(lines) \subseteq Everything
      /\ entries \in Seq(Entries) /\ ToSet(entries) \subseteq Everything
  BY EverythingIs DEF IdInv, FilesTypeOK, FilesSound
<1>2. es \in Seq(Entries) /\ Distinct(es) /\ ToSet(es) \subseteq Everything
  <2> HIDE DEF lines
  <2> QED BY <1>1, LoadIs
<1> HIDE DEF es
<1>3. to \in IdsOf(es) BY DEF es
<1>4. to \in AnyId BY <1>2, <1>3, IdsTyped
<1>5. to \notin RecordIds
  <2>1. CASE to = leaf BY <2>1 DEF IdInv, RecordsApart
  <2>2. CASE to # leaf
    <3>1. PICK e \in ToSet(entries) : to = e.parent BY <2>2 DEF Forkable
    <3> QED BY <1>1, <3>1 DEF IdInv, RecordsApart
  <2> QED BY <2>1, <2>2
<1>6. /\ path \in Seq(Entries) /\ Distinct(path) /\ ToSet(path) \subseteq ToSet(es)
      /\ path # <<>> /\ Last(path).id = to
  BY <1>2, <1>3, <1>4, BranchElements, BranchDistinct
<1>7. \A e \in ToSet(path) : e.id = to \/ \E d \in ToSet(es) : d.parent = e.id
  BY <1>2, <1>4, BranchAncestors
<1> HIDE DEF path
<1>8. ASSUME NEW e \in ToSet(path)
      PROVE e.id \notin RecordIds /\ e.kind # "record" /\ e.id <= minted
  <2>1. e \in Everything BY <1>2, <1>6
  <2>2. e.id \notin RecordIds
    <3>1. CASE e.id = to BY <1>5, <3>1
    <3>2. CASE e.id # to
      <4>1. PICK d \in ToSet(es) : d.parent = e.id BY <1>7, <3>2
      <4> QED BY <1>2, <4>1 DEF IdInv, RecordsApart
    <3> QED BY <3>1, <3>2
  <2>3. e.id <= minted BY <2>1 DEF IdInv, OneLineAnId
  <2> QED BY <2>1, <2>2, <2>3 DEF RecordIds
<1>9. \A x \in IdsOf(path) : x <= minted BY <1>8, IdsAre
<1> QED BY <1>2, <1>4, <1>5, <1>6, <1>8, <1>9 DEF es, path

(* What a fork does.                                                         *)
LEMMA ForkIs ==
  ASSUME IdInv, NEW to \in EntryIds, Fork(to)
  PROVE  LET es == Load(disk[file])
             path == Branch(es, to)
         IN /\ to \in Forkable /\ to \in IdsOf(es) /\ queued = <<>>
            /\ file + 1 \in Files /\ file \in Nat /\ file' = file + 1
            /\ disk' \in [Files -> Seq(Lines)]
            /\ \A f \in Files : f # file + 1 => disk'[f] = disk[f]
            /\ UNCHANGED <<queued, faults, record, strays>>
            /\ moves' \in 0..MaxMoves /\ moved' = FALSE /\ compacting' = NoCompaction
            /\ minted' = minted + Cardinality(LabelIds(path)) /\ minted' \in Nat
            /\ minted' <= MaxEntries /\ minted <= minted'
            /\ holes' = holes \cup {e.id : e \in {x \in ToSet(path) : x.kind = "label"}}
            /\ flushed' \in BOOLEAN /\ (Answered(entries') => flushed')
            /\ \E labels \in Seq(Entries) :
                 /\ LabelChain(labels, Unlabelled(path))
                 /\ \A e \in ToSet(labels) : minted < e.id /\ e.id <= minted'
                 /\ Forked(path) = Unlabelled(path) \o labels
                 /\ Forked(path) \in Seq(Entries) /\ Distinct(Forked(path))
                 /\ ToSet(Forked(path)) \subseteq ToSet(path) \cup ToSet(labels)
                 /\ \/ /\ Answered(Forked(path)) /\ flushed' /\ entries' = Forked(path)
                       /\ disk'[file'] = <<Header>> \o entries' /\ FileLike(disk'[file'])
                    \/ /\ ~Answered(Forked(path)) /\ ~flushed' /\ entries' = <<>>
                       /\ disk'[file'] = <<>>
            /\ leaf' = LeafOf(entries') /\ leaf' \in IdsOf(entries') \cup {0}
            /\ \E a \in {Header} \cup ToSet(entries') : a.kind # "record" /\ a.id = leaf'
<1> DEFINE es == Load(disk[file])
           path == Branch(es, to)
           copy == Forked(path)
           kept == Unlabelled(path)
           whole == IF Answered(copy) THEN <<Header>> \o copy ELSE <<>>
<1>1. /\ moves' \in 0..MaxMoves /\ queued = <<>> /\ file + 1 \in Files
      /\ to \in Forkable /\ to \in IdsOf(es)
      /\ minted + Cardinality(LabelIds(path)) <= MaxEntries
      /\ disk' = [disk EXCEPT ![file + 1] = whole]
      /\ Open(file + 1, disk'[file + 1])
      /\ minted' = minted + Cardinality(LabelIds(path))
      /\ holes' = holes \cup {e.id : e \in {x \in ToSet(path) : x.kind = "label"}}
      /\ UNCHANGED <<queued, faults, record>>
  BY SessionFilesAssumption DEF Fork, MayMove, IdInv, FilesTypeOK
<1>2. disk \in [Files -> Seq(Lines)] /\ minted \in Nat /\ file \in Nat
  BY FilesAre, SessionFilesAssumption DEF IdInv, FilesTypeOK
<1>3. /\ path \in Seq(Entries) /\ Distinct(path) /\ \A x \in IdsOf(path) : x <= minted
  BY <1>1, ForkedPath
<1> HIDE DEF path
<1>4. kept \in Seq(Entries) /\ Cardinality(LabelIds(path)) \in Nat
  BY <1>1, <1>2, <1>3, ForkedIs
<1>5. PICK labels \in Seq(Entries) : /\ copy = kept \o labels /\ LabelChain(labels, kept)
                                     /\ Len(labels) <= Cardinality(LabelIds(path))
  BY <1>1, <1>2, <1>3, ForkedIs
<1>6. ToSet(kept) \subseteq ToSet(path) /\ Distinct(kept)
  BY <1>3, OnlyElements, OnlyDistinct DEF Unlabelled
<1> HIDE DEF kept, copy
<1>7. /\ DOMAIN labels = 1..Len(labels) /\ Len(labels) \in Nat
      /\ \A i \in 1..Len(labels) : labels[i].id = minted + i /\ i \in Nat /\ i >= 1
  BY <1>5 DEF LabelChain
<1>8. \A e \in ToSet(labels) : minted < e.id /\ e.id <= minted'
  <2> SUFFICES ASSUME NEW i \in 1..Len(labels)
               PROVE  minted < labels[i].id /\ labels[i].id <= minted'
    BY <1>7 DEF ToSet
  <2> QED BY <1>1, <1>2, <1>4, <1>5, <1>7
<1>9. Distinct(labels) BY <1>2, <1>7 DEF Distinct
<1>10. IdsOf(kept) \cap IdsOf(labels) = {}
  <2> SUFFICES ASSUME NEW a \in ToSet(kept), NEW b \in ToSet(labels), a.id = b.id PROVE FALSE
    BY IdsAre
  <2>1. a.id \in IdsOf(path) BY <1>6, IdsAre
  <2>2. a.id <= minted /\ minted < b.id BY <1>3, <1>8, <2>1
  <2>3. a.id \in Nat
    <3>1. a.id \in AnyId BY <1>3, <2>1, IdsTyped
    <3> QED BY <3>1, SessionFilesAssumption DEF AnyId
  <2> QED BY <1>2, <2>2, <2>3
<1>11. copy \in Seq(Entries) /\ Distinct(copy) BY <1>4, <1>5, <1>6, <1>9, <1>10, DistinctConcat
<1>12. ToSet(copy) \subseteq ToSet(path) \cup ToSet(labels) BY <1>4, <1>5, <1>6, ToSetConcat
<1>13. /\ <<Header>> \o copy \in Seq(Lines) /\ FileLike(<<Header>> \o copy)
       /\ Load(<<Header>> \o copy) = copy /\ <<Header>> \o copy # <<>>
  BY <1>11, HeaderFirst
<1>14. whole \in Seq(Lines) /\ FileLike(whole)
  BY <1>13 DEF FileLike, Distinct
<1>15. disk'[file + 1] = whole /\ disk' \in [Files -> Seq(Lines)]
       /\ \A f \in Files : f # file + 1 => disk'[f] = disk[f]
  <2> HIDE DEF whole
  <2> QED BY <1>1, <1>2, <1>14
<1>16. Open(file + 1, whole) BY <1>1, <1>15
<1>17. /\ file' = file + 1 /\ entries' = Load(whole) /\ flushed' = (whole # <<>>)
       /\ compacting' = NoCompaction /\ moved' = FALSE /\ strays' = strays
       /\ leaf' = LeafOf(entries') /\ leaf' \in IdsOf(entries') \cup {0}
       /\ \E a \in {Header} \cup ToSet(entries') : a.kind # "record" /\ a.id = leaf'
       /\ flushed' \in BOOLEAN /\ (Answered(entries') => flushed')
  <2> HIDE DEF whole
  <2> QED BY <1>1, <1>14, <1>16, OpenIs
<1>18. \/ /\ Answered(copy) /\ flushed' /\ entries' = copy
          /\ disk'[file'] = <<Header>> \o entries' /\ FileLike(disk'[file'])
       \/ /\ ~Answered(copy) /\ ~flushed' /\ entries' = <<>>
          /\ disk'[file'] = <<>>
  <2>1. CASE Answered(copy) BY <1>13, <1>15, <1>17, <2>1
  <2>2. CASE ~Answered(copy) BY <1>15, <1>17, <2>2 DEF Load
  <2> QED BY <2>1, <2>2
<1>19. minted' \in Nat /\ minted <= minted' BY <1>1, <1>2, <1>4
<1> HIDE DEF whole
<1> QED BY <1>1, <1>2, <1>5, <1>8, <1>11, <1>12, <1>15, <1>17, <1>18, <1>19 DEF path, copy, kept

(* A branch is forked.                                                       *)
LEMMA ForkKeepsIds ==
  ASSUME IdInv, NEW to \in EntryIds, Fork(to) PROVE IdInv'
<1> DEFINE path == Branch(Load(disk[file]), to)
           copy == Forked(path)
<1>1. /\ to \in Forkable /\ to \in IdsOf(Load(disk[file])) /\ queued = <<>>
      /\ file + 1 \in Files /\ file \in Nat /\ file' = file + 1
      /\ disk' \in [Files -> Seq(Lines)]
      /\ \A f \in Files : f # file + 1 => disk'[f] = disk[f]
      /\ UNCHANGED <<queued, faults, record, strays>>
      /\ moves' \in 0..MaxMoves /\ moved' = FALSE /\ compacting' = NoCompaction
      /\ minted' \in Nat /\ minted' <= MaxEntries /\ minted <= minted'
      /\ holes' = holes \cup {e.id : e \in {x \in ToSet(path) : x.kind = "label"}}
      /\ flushed' \in BOOLEAN /\ (Answered(entries') => flushed')
      /\ leaf' = LeafOf(entries') /\ leaf' \in IdsOf(entries') \cup {0}
      /\ \E a \in {Header} \cup ToSet(entries') : a.kind # "record" /\ a.id = leaf'
  BY ForkIs
<1>2. PICK labels \in Seq(Entries) :
        /\ LabelChain(labels, Unlabelled(path))
        /\ \A e \in ToSet(labels) : minted < e.id /\ e.id <= minted'
        /\ copy = Unlabelled(path) \o labels
        /\ copy \in Seq(Entries) /\ Distinct(copy)
        /\ ToSet(copy) \subseteq ToSet(path) \cup ToSet(labels)
        /\ \/ /\ Answered(copy) /\ flushed' /\ entries' = copy
              /\ disk'[file'] = <<Header>> \o entries' /\ FileLike(disk'[file'])
           \/ /\ ~Answered(copy) /\ ~flushed' /\ entries' = <<>>
              /\ disk'[file'] = <<>>
  BY ForkIs
<1>3. /\ path \in Seq(Entries) /\ ToSet(path) \subseteq Everything
      /\ \A e \in ToSet(path) : e.id \notin RecordIds /\ e.kind # "record"
      /\ \A x \in IdsOf(path) : x <= minted
  BY <1>1, ForkedPath
<1> HIDE DEF path, copy
<1>4. /\ entries' \in Seq(Entries) /\ Distinct(entries') /\ FileLike(disk'[file'])
      /\ ToSet(entries') \subseteq Everything \cup ToSet(labels)
      /\ ToSet(disk'[file']) \subseteq Everything \cup ToSet(labels)
  <2>1. Header \in Everything BY EverythingIs DEF IdInv
  <2>2. CASE entries' = copy /\ disk'[file'] = <<Header>> \o entries' /\ FileLike(disk'[file'])
    <3>1. ToSet(<<Header>> \o copy) = {Header} \cup ToSet(copy) BY <1>2, HeaderFirst
    <3> QED BY <1>2, <1>3, <2>1, <2>2, <3>1
  <2>3. CASE entries' = <<>> /\ disk'[file'] = <<>>
    <3> DEFINE none == <<>>
    <3>1. none \in Seq(Entries) /\ Distinct(none) /\ FileLike(none) /\ ToSet(none) = {}
      BY DEF Distinct, FileLike, ToSet
    <3> QED BY <2>3, <3>1
  <2> QED BY <1>2, <2>2, <2>3
<1>5. FilesTypeOK'
  <2>1. NoCompaction \in [ref : 0..MaxEntries, sum : SUBSET EntryIds]
    BY SessionFilesAssumption DEF NoCompaction
  <2>2. minted' \in 0..MaxEntries BY <1>1, SessionFilesAssumption
  <2>3. holes' \subseteq 0..MaxEntries
    <3>1. {e.id : e \in {x \in ToSet(path) : x.kind = "label"}} \subseteq IdsOf(path) BY IdsAre
    <3>2. IdsOf(path) \subseteq AnyId BY <1>3, IdsTyped
    <3> QED BY <1>1, <3>1, <3>2 DEF IdInv, FilesTypeOK, AnyId
  <2> QED BY <1>1, <1>4, <2>1, <2>2, <2>3 DEF IdInv, FilesTypeOK
<1>6. FilesSound' /\ InOrder'
  <2>1. DOMAIN queued' = {} BY <1>1
  <2>2. \A f \in Files : f > file' => f > file /\ f # file + 1
    <3> TAKE f \in Files
    <3>1. f \in Nat BY FilesAre
    <3> QED BY <1>1, <3>1
  <2>3. record'.file <= file'
    <3>1. record.file \in Files \cup {0} BY RecordFields DEF IdInv, FilesTypeOK
    <3>2. record.file \in Nat BY <3>1, FilesAre
    <3> QED BY <1>1, <3>2 DEF IdInv, FilesSound
  <2>4. \A f \in Files : FileLike(disk'[f]) BY <1>1, <1>4 DEF IdInv, FilesSound
  <2>5. \A f \in Files : f > file' => disk'[f] = <<>> BY <1>1, <2>2 DEF IdInv, FilesSound
  <2> QED BY <2>1, <2>3, <2>4, <2>5 DEF FilesSound, InOrder
<1>7. Everything' \subseteq Everything \cup ToSet(labels)
  <2>1. LinesOf(queued') = {} BY <1>1 DEF LinesOf
  <2>2. \A f \in Files : ToSet(disk'[f]) \subseteq Everything \cup ToSet(labels)
    BY <1>1, <1>4, EverythingIs DEF IdInv
  <2> DEFINE D == UNION {ToSet(disk'[f]) : f \in Files}
  <2>3. Everything' = {Header} \cup ToSet(entries') \cup D \cup LinesOf(queued')
    BY DEF Everything
  <2>4. D \subseteq Everything \cup ToSet(labels) BY <2>2
  <2> HIDE DEF D
  <2>5. Header \in Everything BY EverythingIs DEF IdInv
  <2> QED BY <1>4, <2>1, <2>3, <2>4, <2>5
<1>8. Header \in Everything' /\ ToSet(entries') \subseteq Everything' BY DEF Everything
<1>9. \E a \in Everything' : a.kind # "record" /\ a.id = leaf' BY <1>1, <1>8
<1>10. record'.parent <= minted /\ record'.parent \notin RecordIds
  BY <1>1 DEF IdInv, OneLineAnId, RecordsApart
<1>11. LastId(Unlabelled(path)) \notin RecordIds /\ LastId(Unlabelled(path)) <= minted
       /\ LastId(Unlabelled(path)) \in Nat
  <2> DEFINE kept == Unlabelled(path)
  <2>1. kept \in Seq(Entries) /\ ToSet(kept) \subseteq ToSet(path)
    BY <1>3, OnlyElements DEF Unlabelled
  <2> HIDE DEF kept
  <2>2. CASE kept = <<>>
    <3>1. Header.id \notin RecordIds /\ Header.id <= minted
      BY EverythingIs, HeaderIs, NoRecordId DEF IdInv
    <3> QED BY <2>2, <3>1, HeaderIs DEF LastId, kept
  <2>3. CASE kept # <<>>
    <3>1. Last(kept) \in ToSet(kept) BY <2>1, <2>3 DEF Last, ToSet
    <3>2. Last(kept) \in Lines BY <1>3, <2>1, <3>1, EverythingIs DEF IdInv
    <3>3. Last(kept).id \in Nat BY <3>2, LineFields
    <3>4. Last(kept).id \in IdsOf(path) BY <2>1, <3>1, IdsAre
    <3> QED BY <1>3, <2>1, <2>3, <3>1, <3>3, <3>4 DEF LastId, kept
  <2> QED BY <2>2, <2>3
<1>12. OneLineAnId' /\ RecordsApart'
  <2> DEFINE N == ToSet(labels)
  <2>0. minted \in Nat /\ \A x \in RecordIds : x <= minted
    BY SessionFilesAssumption DEF IdInv, FilesTypeOK, OneLineAnId, RecordIds
  <2>1. /\ DOMAIN labels = 1..Len(labels) /\ Len(labels) \in Nat
        /\ \A i \in 1..Len(labels) :
             /\ labels[i].id = minted + i /\ labels[i].kind = "label"
             /\ labels[i].parent = IF i = 1 THEN LastId(Unlabelled(path)) ELSE minted + i - 1
    BY <1>2 DEF LabelChain
  <2>2. N \subseteq Lines BY DEF Lines, ToSet
  <2>3. ASSUME NEW a \in N
        PROVE  minted < a.id /\ a.id <= minted' /\ a.parent <= minted' /\ a.parent \notin RecordIds
               /\ a.kind # "record"
    <3>1. PICK i \in 1..Len(labels) : a = labels[i] BY <2>1 DEF ToSet
    <3>2. minted < a.id /\ a.id <= minted' BY <1>2
    <3>3. CASE i = 1 BY <1>1, <1>11, <2>0, <2>1, <3>1, <3>2, <3>3
    <3>4. CASE i # 1
      <4>1. i \in Nat /\ i > 1 /\ a.parent = minted + i - 1 /\ a.id = minted + i
        BY <2>1, <3>1, <3>4
      <4>2. a.parent \in Nat /\ a.parent > minted /\ a.parent <= minted' BY <1>1, <2>0, <3>2, <4>1
      <4>3. a.parent \notin RecordIds BY <2>0, <4>2
      <4> QED BY <2>1, <3>1, <3>2, <4>2, <4>3
    <3> QED BY <3>3, <3>4
  <2>4. ASSUME NEW a \in N, NEW b \in N, a.id = b.id PROVE a = b
    <3>1. PICK i \in 1..Len(labels) : a = labels[i] BY <2>1 DEF ToSet
    <3>2. PICK j \in 1..Len(labels) : b = labels[j] BY <2>1 DEF ToSet
    <3>3. minted + i = minted + j BY <2>1, <2>4, <3>1, <3>2
    <3>4. i = j BY <2>0, <3>3
    <3> QED BY <3>1, <3>2, <3>4
  <2> HIDE DEF N
  <2>5. Everything' \subseteq Everything \cup N BY <1>7 DEF N
  <2> QED BY <1>1, <1>5, <1>9, <1>10, <2>2, <2>3, <2>4, <2>5, IdsStay DEF IdInv
<1> QED BY <1>5, <1>6, <1>12 DEF IdInv

(* The initial states.                                                       *)
LEMMA FilesInitIs ==
  ASSUME FilesInit
  PROVE  /\ entries \in Seq(Entries) /\ Distinct(entries) /\ file = 1 /\ file \in Files
         /\ entries = <<>> \/ \E e \in Entries : /\ entries = <<e>> /\ e.id = 1 /\ e.parent = 0
                                                /\ e.kind = "user"
         /\ (leaf = 0 /\ entries = <<>>) \/ (leaf = 1 /\ entries # <<>>)
         /\ minted = Len(entries) /\ flushed = (entries # <<>>)
         /\ disk \in [Files -> Seq(Lines)] /\ \A f \in Files : FileLike(disk[f])
         /\ \A f \in Files : f # 1 => disk[f] = <<>>
         /\ disk[1] = IF flushed THEN <<Header>> \o entries ELSE <<>>
         /\ queued = <<>> /\ record = NoRecord /\ compacting = NoCompaction /\ moved = FALSE
         /\ strays = {} /\ moves = 0 /\ faults = 0 /\ holes = {}
<1> DEFINE u == Entry(1, 0, "user")
           lines == IF flushed THEN <<Header>> \o entries ELSE <<>>
<1>1. /\ entries \in {<<>>, <<u>>} /\ leaf = LeafOf(entries) /\ flushed = (entries # <<>>)
      /\ file = 1
      /\ disk = [f \in Files |-> IF f = 1 /\ flushed THEN <<Header>> \o entries ELSE <<>>]
      /\ minted = Len(entries)
      /\ queued = <<>> /\ record = NoRecord /\ compacting = NoCompaction /\ moved = FALSE
      /\ strays = {} /\ moves = 0 /\ faults = 0 /\ holes = {}
  BY DEF FilesInit
<1>2. u \in Entries /\ u.id = 1 /\ u.parent = 0 /\ u.kind = "user"
  <2>1. 1 \in EntryIds /\ 0 \in 0..MaxEntries BY SessionFilesAssumption DEF EntryIds
  <2>2. "user" \in EntryKinds BY DEF EntryKinds, InContext, MessageKinds
  <2> QED BY <2>1, <2>2 DEF Entry, Entries
<1> HIDE DEF u
<1>3. entries \in Seq(Entries) /\ Distinct(entries)
  <2>1. CASE entries = <<>> BY <2>1 DEF Distinct
  <2>2. CASE entries = <<u>>
    <3>1. DOMAIN entries = {1} /\ entries \in Seq(Entries) BY <1>2, <2>2
    <3> QED BY <3>1 DEF Distinct
  <2> QED BY <1>1, <2>1, <2>2
<1>4. file \in Files
  <2>1. Cardinality(Files) # 0 BY FilesAre, SessionFilesAssumption
  <2> QED BY <1>1, <2>1, FilesAre
<1>5. /\ <<Header>> \o entries \in Seq(Lines) /\ FileLike(<<Header>> \o entries)
  BY <1>3, HeaderFirst
<1>6. FileLike(<<>>) /\ <<>> \in Seq(Lines) BY DEF FileLike, Distinct
<1>7. /\ disk \in [Files -> Seq(Lines)] /\ \A f \in Files : FileLike(disk[f])
      /\ \A f \in Files : f # 1 => disk[f] = <<>>
      /\ disk[1] = IF flushed THEN <<Header>> \o entries ELSE <<>>
  <2>1. \A f \in Files : disk[f] \in Seq(Lines) /\ FileLike(disk[f])
    <3> TAKE f \in Files
    <3>1. CASE f = 1 /\ flushed BY <1>1, <1>5, <3>1
    <3>2. CASE ~(f = 1 /\ flushed) BY <1>1, <1>6, <3>2
    <3> QED BY <3>1, <3>2
  <2> QED BY <1>1, <1>4, <2>1
<1>8. (leaf = 0 /\ entries = <<>>) \/ (leaf = 1 /\ entries # <<>>)
  <2>1. CASE entries = <<>>
    <3>1. Conversation(<<>>) = <<>> BY OnlyEmpty DEF Conversation
    <3>2. LeafOf(<<>>) = 0 BY <3>1 DEF LeafOf
    <3>3. LeafOf(entries) = 0 BY <2>1, <3>2
    <3> QED BY <1>1, <2>1, <3>3
  <2>2. CASE entries = <<u>>
    <3> DEFINE none == <<>>
    <3>1. none \in Seq(Entries) /\ Append(none, u) = <<u>> OBVIOUS
    <3>2. Conversation(none) = none BY OnlyEmpty DEF Conversation
    <3> HIDE DEF none
    <3>3. Conversation(Append(none, u)) = Append(none, u)
      BY <1>2, <3>1, <3>2, ConversationAppend
    <3>4. Conversation(entries) = <<u>> BY <2>2, <3>1, <3>3
    <3>5. leaf = 1 BY <1>1, <1>2, <3>4 DEF LeafOf, Last
    <3> QED BY <2>2, <3>5
  <2> QED BY <1>1, <2>1, <2>2
<1>9. entries = <<>> \/ \E e \in Entries : /\ entries = <<e>> /\ e.id = 1 /\ e.parent = 0
                                          /\ e.kind = "user"
  BY <1>1, <1>2
<1> QED BY <1>1, <1>3, <1>4, <1>7, <1>8, <1>9

(* Types, ids and files hold in the initial states.                          *)
LEMMA FilesInitIds == FilesInit => IdInv
<1> SUFFICES ASSUME FilesInit PROVE IdInv OBVIOUS
<1>1. /\ entries \in Seq(Entries) /\ Distinct(entries) /\ file = 1 /\ file \in Files
      /\ entries = <<>> \/ \E e \in Entries : /\ entries = <<e>> /\ e.id = 1 /\ e.parent = 0
                                             /\ e.kind = "user"
      /\ (leaf = 0 /\ entries = <<>>) \/ (leaf = 1 /\ entries # <<>>)
      /\ minted = Len(entries) /\ flushed = (entries # <<>>)
      /\ disk \in [Files -> Seq(Lines)] /\ \A f \in Files : FileLike(disk[f])
      /\ \A f \in Files : f # 1 => disk[f] = <<>>
      /\ disk[1] = IF flushed THEN <<Header>> \o entries ELSE <<>>
      /\ queued = <<>> /\ record = NoRecord /\ compacting = NoCompaction /\ moved = FALSE
      /\ strays = {} /\ moves = 0 /\ faults = 0 /\ holes = {}
  BY FilesInitIs
<1>2. minted \in 0..MaxEntries /\ leaf \in IdsOf(entries) \cup {0}
      /\ (Answered(entries) => flushed) /\ leaf <= minted
      /\ \A e \in ToSet(entries) : e.id = 1 /\ e.parent = 0 /\ e.kind = "user" /\ 1 <= minted
      /\ \A a, b \in ToSet(entries) : a = b
  <2>1. CASE entries = <<>>
    <3>1. DOMAIN entries = {} /\ Len(entries) = 0 BY <2>1
    <3> QED BY <1>1, <2>1, <3>1, SessionFilesAssumption DEF Answered, ToSet, IdsOf
  <2>2. CASE entries # <<>>
    <3>1. PICK e \in Entries : entries = <<e>> /\ e.id = 1 /\ e.parent = 0 /\ e.kind = "user"
      BY <1>1, <2>2
    <3>2. DOMAIN entries = {1} /\ entries[1] = e /\ Len(entries) = 1 BY <3>1
    <3>3. ToSet(entries) = {e} /\ IdsOf(entries) = {1} BY <3>1, <3>2 DEF ToSet, IdsOf
    <3>4. minted = 1 /\ 1 \in 0..MaxEntries BY <1>1, <3>2, SessionFilesAssumption
    <3>5. leaf = 1 /\ flushed BY <1>1, <2>2
    <3> QED BY <3>1, <3>3, <3>4, <3>5
  <2> QED BY <2>1, <2>2
<1>3. FilesTypeOK
  <2>1. NoCompaction \in [ref : 0..MaxEntries, sum : SUBSET EntryIds]
    BY SessionFilesAssumption DEF NoCompaction
  <2>2. queued \in Seq(Writes) BY <1>1
  <2>5. flushed \in BOOLEAN /\ moved \in BOOLEAN BY <1>1
  <2>3. moves \in 0..MaxMoves /\ faults \in 0..MaxFaults BY <1>1, SessionFilesAssumption
  <2>4. strays \subseteq EntryIds /\ holes \subseteq 0..MaxEntries BY <1>1
  <2> QED BY <1>1, <1>2, <2>1, <2>2, <2>3, <2>4, <2>5 DEF FilesTypeOK
<1>4. FilesSound /\ InOrder
  <2>1. DOMAIN queued = {} BY <1>1
  <2>2. \A f \in Files : f > file => disk[f] = <<>>
    <3> TAKE f \in Files
    <3>1. f \in Nat BY FilesAre
    <3> QED BY <1>1, <3>1
  <2> QED BY <1>1, <2>1, <2>2 DEF FilesSound, InOrder, NoRecord
<1>5. Everything \subseteq {Header} \cup ToSet(entries)
  <2>1. LinesOf(queued) = {} BY <1>1 DEF LinesOf
  <2>2. \A f \in Files : ToSet(disk[f]) \subseteq {Header} \cup ToSet(entries)
    <3>1. ToSet(<<Header>> \o entries) = {Header} \cup ToSet(entries) BY <1>1, HeaderFirst
    <3>2. ToSet(<<>>) = {} BY DEF ToSet
    <3> TAKE f \in Files
    <3>3. CASE f = 1 BY <1>1, <3>1, <3>2, <3>3
    <3>4. CASE f # 1 BY <1>1, <3>2, <3>4
    <3> QED BY <3>3, <3>4
  <2> DEFINE D == UNION {ToSet(disk[f]) : f \in Files}
  <2>3. D \subseteq {Header} \cup ToSet(entries) BY <2>2
  <2>4. Everything = {Header} \cup ToSet(entries) \cup D \cup LinesOf(queued) BY DEF Everything
  <2> HIDE DEF D
  <2> QED BY <2>1, <2>3, <2>4
<1>6. OneLineAnId
  <2>1. \A a, b \in Everything : a.id = b.id => a = b BY <1>2, <1>5, HeaderIs
  <2>2. \A a \in Everything : a.id <= minted /\ a.parent <= minted
    <3>1. 0 <= minted BY <1>2, SessionFilesAssumption
    <3> QED BY <1>2, <1>5, <3>1, HeaderIs
  <2>3. record.parent <= minted BY <1>1, <1>2, SessionFilesAssumption DEF NoRecord
  <2> QED BY <1>2, <2>1, <2>2, <2>3 DEF OneLineAnId
<1>7. RecordsApart
  <2>1. RecordIds = {} BY <1>2, <1>5, HeaderIs DEF RecordIds
  <2> QED BY <2>1 DEF RecordsApart
<1> QED BY <1>3, <1>4, <1>6, <1>7 DEF IdInv

(* Types, ids and files: every step.                                         *)
LEMMA FilesStepIds == IdInv /\ [FilesNext]_filesVars => IdInv'
<1> SUFFICES ASSUME IdInv, [FilesNext]_filesVars PROVE IdInv' OBVIOUS
<1>1. ASSUME NEW kind \in MessageKinds, AppendMessage(kind) PROVE IdInv'
  BY <1>1, AddSteps, AddKeepsIds DEF IdInv
<1>2. ASSUME NEW target \in EntryIds, Label(target) PROVE IdInv'
  BY <1>2, AddSteps, AddKeepsIds DEF IdInv
<1>3. CASE ApplyCompaction BY <1>3, AddSteps, AddKeepsIds DEF IdInv
<1>4. ASSUME NEW e \in ToSet(entries), NavigateSummarized(e) PROVE IdInv'
  BY <1>4, AddSteps, AddKeepsIds DEF IdInv
<1>5. ASSUME NEW e \in ToSet(entries), Navigate(e) PROVE IdInv' BY <1>5, OthersKeepIds
<1>6. CASE PrepareCompaction BY <1>6, OthersKeepIds
<1>7. CASE DropCompaction BY <1>7, OthersKeepIds
<1>8. CASE WriteOne BY <1>8, WriteKeepsIds
<1>9. CASE WriteFails BY <1>9, FailKeepsIds
<1>10. ASSUME NEW f \in Files, ReadForRecord(f) PROVE IdInv' BY <1>10, ReadKeepsIds
<1>11. CASE QueueRecord BY <1>11, RecordKeepsIds
<1>12. CASE Restart BY <1>12, RestartKeepsIds
<1>13. CASE NewSession BY <1>13, NewSessionKeepsIds
<1>14. ASSUME NEW to \in EntryIds, Fork(to) PROVE IdInv' BY <1>14, ForkKeepsIds
<1>15. CASE UNCHANGED filesVars BY <1>15, OthersKeepIds
<1> QED BY <1>1, <1>2, <1>3, <1>4, <1>5, <1>6, <1>7, <1>8, <1>9, <1>10, <1>11, <1>12, <1>13, <1>14,
           <1>15 DEF FilesNext

(* An id is one line's and no entry goes on from a run record, in memory, in *)
(* the queue and in every session file.                                      *)
THEOREM IdsAlways == FilesSpec => []IdInv
BY FilesInitIds, FilesStepIds, PTL DEF FilesSpec

(* The state has its types, the entries have their ids for themselves, and   *)
(* the leaf is one of them.                                                  *)
THEOREM FilesTypeCorrect == FilesSpec => []FilesTypeOK
<1>1. IdInv => FilesTypeOK BY DEF IdInv
<1> QED BY <1>1, IdsAlways, PTL

(* The branch of the leaf.                                                   *)
LEMMA CurrentIs ==
  ASSUME FilesTypeOK
  PROVE  leaf \in AnyId /\ Current \in Seq(Entries) /\ Distinct(Current)
         /\ ToSet(Current) \subseteq ToSet(entries)
<1>1. entries \in Seq(Entries) /\ Distinct(entries) /\ leaf \in IdsOf(entries) \cup {0}
  BY DEF FilesTypeOK
<1>2. leaf \in AnyId BY <1>1, IdsTyped, SessionFilesAssumption DEF AnyId
<1> QED BY <1>1, <1>2, BranchElements, BranchDistinct DEF Current

(* Each message of a branch since its last boundary is kept by a compaction  *)
(* or is in its summary, whatever the branch: prepare_compaction.            *)
THEOREM NothingSkippedAlways == FilesSpec => []NothingSkipped
<1>1. ASSUME FilesTypeOK PROVE NothingSkipped
  <2> SUFFICES ASSUME CanCompact(Current) PROVE NothingSkipped BY DEF NothingSkipped
  <2> DEFINE path == Current
             start == Boundary(path)
             cut == Cut(path, start)
             c == Compaction(path)
             S == {i \in DOMAIN path : path[i].id = c.ref}
             keptFrom == Min(S)
  <2>1. path \in Seq(Entries) BY <1>1, CurrentIs
  <2>2. /\ start \in 1..Len(path) /\ cut \in start..Len(path) /\ c.ref = path[cut].id
        /\ Ids(path, start, cut - 1) \subseteq c.sum
    <3> HIDE DEF path
    <3>1. CanCompact(path) BY DEF path
    <3> QED BY <2>1, <3>1, CompactionIs
  <2> HIDE DEF path, start, cut, c
  <2>3. Len(path) \in Nat /\ DOMAIN path = 1..Len(path) BY <2>1
  <2>4. cut \in S BY <2>2, <2>3
  <2>5. S \subseteq Nat BY <2>3
  <2> HIDE DEF S
  <2>6. keptFrom \in Nat /\ keptFrom <= cut BY <2>4, <2>5, MinIs
  <2>7. Ids(path, start, keptFrom - 1) \subseteq Ids(path, start, cut - 1)
    <3>1. start..(keptFrom - 1) \subseteq start..(cut - 1) BY <2>2, <2>3, <2>6
    <3> QED BY <3>1 DEF Ids
  <2>8. Ids(path, start, keptFrom - 1) \subseteq c.sum BY <2>2, <2>7
  <2> QED BY <2>8 DEF NothingSkipped, path, start, c, S
<1> QED BY <1>1, FilesTypeCorrect, PTL

-----------------------------------------------------------------------------
(* What the session knows of its own file.                                   *)

(* Steps that leave the entries, the files and the queue alone.              *)
Looks ==
  /\ UNCHANGED <<entries, flushed, file, disk, queued, faults, minted, record, holes, strays>>
  /\ \/ UNCHANGED <<leaf, compacting, moved>>
     \/ /\ compacting = NoCompaction /\ CanCompact(Current)
        /\ compacting' = Compaction(Current) /\ moved' = FALSE /\ leaf' = leaf
     \/ compacting' = NoCompaction /\ UNCHANGED <<leaf, moved>>
     \/ moved' = TRUE /\ compacting' = compacting

(* Every step is of one of these forms.                                      *)
LEMMA StepCases ==
  ASSUME IdInv, [FilesNext]_filesVars
  PROVE  \/ \E e : Adds(e)
         \/ WriteOne \/ WriteFails
         \/ (\E f \in Files : ReadForRecord(f)) \/ QueueRecord
         \/ Restart \/ NewSession \/ \E to \in EntryIds : Fork(to)
         \/ Looks
<1>1. ASSUME NEW kind \in MessageKinds, AppendMessage(kind) PROVE \E e : Adds(e)
  BY <1>1, AddSteps DEF IdInv
<1>2. ASSUME NEW target \in EntryIds, Label(target) PROVE \E e : Adds(e)
  BY <1>2, AddSteps DEF IdInv
<1>3. ASSUME ApplyCompaction PROVE \E e : Adds(e) BY <1>3, AddSteps DEF IdInv
<1>4. ASSUME NEW e \in ToSet(entries), NavigateSummarized(e) PROVE \E d : Adds(d)
  BY <1>4, AddSteps DEF IdInv
<1>5. ASSUME NEW e \in ToSet(entries), Navigate(e) PROVE Looks
  BY <1>5 DEF Navigate, Looks, writerVars
<1>6. ASSUME PrepareCompaction PROVE Looks
  BY <1>6 DEF PrepareCompaction, Looks, managerVars, writerVars
<1>7. ASSUME DropCompaction PROVE Looks
  BY <1>7 DEF DropCompaction, Looks, managerVars, writerVars
<1>8. ASSUME UNCHANGED filesVars PROVE Looks
  BY <1>8 DEF filesVars, Looks, managerVars, writerVars
<1> QED BY <1>1, <1>2, <1>3, <1>4, <1>5, <1>6, <1>7, <1>8 DEF FilesNext

(* The ids of lines that are entries or the header.                          *)
LEMMA TalkIs ==
  ASSUME NEW lines, NEW es, ToSet(lines) \subseteq {Header} \cup ToSet(es)
  PROVE  Talk(lines) \subseteq IdsOf(es) \cup {0}
BY IdsAre, HeaderIs DEF Talk

(* The leaf of a session that is read back is one of its entries.            *)
LEMMA LeafTalks ==
  ASSUME NEW lines \in Seq(Lines), FileLike(lines)
  PROVE  \/ LeafOf(Load(lines)) = 0
         \/ lines # <<>> /\ Head(lines) = Header /\ LeafOf(Load(lines)) \in Talk(lines)
<1>1. Load(lines) \in Seq(Entries) /\ ToSet(Load(lines)) \subseteq ToSet(lines) BY LoadIs
<1>2. ASSUME NEW e \in ToSet(Load(lines)) PROVE lines # <<>> /\ Head(lines) = Header
  <2> SUFFICES ASSUME ~(lines # <<>> /\ Head(lines) = Header) PROVE FALSE OBVIOUS
  <2>1. Load(lines) = <<>> BY LoadIs
  <2>2. DOMAIN Load(lines) = {} BY <2>1
  <2> QED BY <1>2, <2>2 DEF ToSet
<1> QED BY <1>1, <1>2, LeafOfIs DEF Talk

(* What is in the file of a session and in its queue is in the session.      *)
LEMMA InEntriesStays ==
  ASSUME IdInv, InEntries, [FilesNext]_filesVars PROVE InEntries'
<1>0. /\ file \in Files /\ file \in Nat /\ file + 1 # file /\ file + 1 > file
      /\ disk[file] \in Seq(Lines) /\ FileLike(disk[file])
      /\ entries \in Seq(Entries) /\ queued \in Seq(Writes)
      /\ record \in {NoRecord} \cup [file : Files, parent : 0..MaxEntries] /\ record.file <= file
      /\ \A k \in DOMAIN queued : WriteOK(queued[k]) /\ queued[k].file <= file
  BY FilesAre DEF IdInv, FilesTypeOK, FilesSound
<1>1. ASSUME NEW e, Adds(e) PROVE InEntries'
  <2>1. /\ entries' \in Seq(Entries) /\ IdsOf(entries') = IdsOf(entries) \cup {e.id}
        /\ UNCHANGED <<file, disk, record>>
    BY <1>1, AddQueues DEF IdInv
  <2>2. \A k \in DOMAIN queued' : queued'[k].file = file
          => Talk(queued'[k].lines) \subseteq IdsOf(entries') \cup {0}
    <3>1. CASE queued' = queued BY <2>1, <3>1 DEF InEntries
    <3>2. ASSUME NEW w \in Writes, queued' = Append(queued, w),
                 ToSet(w.lines) \subseteq {Header} \cup ToSet(entries')
          PROVE  \A k \in DOMAIN queued' : queued'[k].file = file
                   => Talk(queued'[k].lines) \subseteq IdsOf(entries') \cup {0}
      <4>1. Talk(w.lines) \subseteq IdsOf(entries') \cup {0} BY <3>2, TalkIs
      <4>2. /\ DOMAIN queued = 1..Len(queued) /\ DOMAIN queued' = 1..(Len(queued) + 1)
            /\ queued'[Len(queued) + 1] = w /\ Len(queued) \in Nat
            /\ \A k \in 1..Len(queued) : queued'[k] = queued[k]
        BY <1>0, <3>2, OneMoreWrite
      <4> TAKE k \in DOMAIN queued'
      <4>3. CASE k = Len(queued) + 1 BY <4>1, <4>2, <4>3
      <4>4. CASE k \in 1..Len(queued) BY <2>1, <4>2, <4>4 DEF InEntries
      <4> QED BY <4>2, <4>3, <4>4
    <3> QED BY <1>1, <3>1, <3>2, AddQueues DEF IdInv
  <2> QED BY <2>1, <2>2 DEF InEntries
<1>2. ASSUME queued # <<>>, queued' = Tail(queued), UNCHANGED <<entries, file, record>>,
             disk'[file] # <<>> /\ Head(disk'[file]) = Header =>
               Talk(disk'[file]) \subseteq IdsOf(entries) \cup {0}
      PROVE  InEntries'
  <2>1. \A k \in DOMAIN queued' : k + 1 \in DOMAIN queued /\ queued'[k] = queued[k + 1]
    BY <1>0, <1>2, OneWriteLess
  <2>2. \A k \in DOMAIN queued' : queued'[k].file = file
          => Talk(queued'[k].lines) \subseteq IdsOf(entries) \cup {0}
    BY <2>1 DEF InEntries
  <2> QED BY <1>2, <2>2 DEF InEntries
<1>3. ASSUME WriteOne PROVE InEntries'
  <2> DEFINE w == Head(queued)
  <2>1. /\ queued # <<>> /\ w \in Writes /\ WriteOK(w)
        /\ queued' = Tail(queued) /\ UNCHANGED <<entries, file, record>>
        /\ \A f \in Files : f # w.file => disk'[f] = disk[f]
        /\ disk'[w.file] = Written(disk[w.file], w)
    BY <1>3, WriteIs DEF managerVars
  <2>2. w = queued[1] /\ 1 \in DOMAIN queued BY <1>0, <2>1, OneWriteLess
  <2> HIDE DEF w
  <2>3. disk'[file] # <<>> /\ Head(disk'[file]) = Header =>
          Talk(disk'[file]) \subseteq IdsOf(entries) \cup {0}
    <3>1. CASE w.file # file BY <1>0, <2>1, <3>1 DEF InEntries
    <3>2. CASE w.file = file /\ w.whole
      <4>1. disk'[file] = w.lines BY <2>1, <3>2 DEF Written
      <4> QED BY <2>2, <3>2, <4>1 DEF InEntries
    <3>3. CASE w.file = file /\ ~w.whole
      <4>1. w.lines = <<w.lines[1]>> /\ w.lines[1] \in Entries BY <2>1, <3>3 DEF WriteOK, Alone
      <4> DEFINE e == w.lines[1]
      <4>2. disk'[file] = disk[file] \o <<e>> BY <2>1, <3>3, <4>1 DEF Written
      <4>3. Talk(<<e>>) \subseteq IdsOf(entries) \cup {0} BY <2>2, <3>3, <4>1 DEF InEntries
      <4>4. e \in Entries BY <4>1
      <4>5. e # Header BY <4>4, EntryFields
      <4>6. DOMAIN <<e>> = {1} /\ <<e>>[1] = e OBVIOUS
      <4> HIDE DEF e
      <4>7. disk'[file] = Append(disk[file], e) BY <1>0, <4>2, <4>4, LoadAppend
      <4>8. ToSet(disk'[file]) = ToSet(disk[file]) \cup {e} BY <1>0, <4>7, ToSetAppend
      <4>9. ToSet(<<e>>) = {e} BY <4>6 DEF ToSet
      <4>10. Talk(disk'[file]) \subseteq Talk(disk[file]) \cup Talk(<<e>>)
        BY <4>8, <4>9 DEF Talk
      <4>11. CASE disk[file] = <<>> BY <1>0, <4>4, <4>5, <4>7, <4>11, LoadAppend
      <4>12. CASE disk[file] # <<>>
        <5>1. Head(disk'[file]) = Head(disk[file]) BY <1>0, <4>4, <4>7, <4>12, LoadAppend
        <5> QED BY <4>3, <4>10, <4>12, <5>1 DEF InEntries
      <4> QED BY <4>11, <4>12
    <3> QED BY <3>1, <3>2, <3>3
  <2> QED BY <1>2, <2>1, <2>3
<1>4. ASSUME WriteFails PROVE InEntries'
  <2>1. queued # <<>> /\ queued' = Tail(queued) /\ UNCHANGED <<entries, file, record, disk>>
    BY <1>4 DEF WriteFails, managerVars
  <2>2. disk'[file] # <<>> /\ Head(disk'[file]) = Header =>
          Talk(disk'[file]) \subseteq IdsOf(entries) \cup {0}
    BY <2>1 DEF InEntries
  <2> QED BY <1>2, <2>1, <2>2
<1>5. ASSUME NEW f \in Files, ReadForRecord(f) PROVE InEntries'
  <2>1. /\ record' = [file |-> f, parent |-> LeafOf(Load(disk[f]))]
        /\ UNCHANGED <<entries, file, disk, queued>>
    BY <1>5 DEF ReadForRecord, managerVars, writerVars
  <2>2. record'.file = f /\ record'.parent = LeafOf(Load(disk[f])) BY <2>1
  <2>3. f = file => record'.parent \in IdsOf(entries) \cup {0}
    <3> SUFFICES ASSUME f = file PROVE record'.parent \in IdsOf(entries) \cup {0} OBVIOUS
    <3>1. \/ record'.parent = 0
          \/ disk[file] # <<>> /\ Head(disk[file]) = Header /\ record'.parent \in Talk(disk[file])
      BY <1>0, <2>2, LeafTalks
    <3> QED BY <3>1 DEF InEntries
  <2> QED BY <2>1, <2>2, <2>3 DEF InEntries
<1>6. ASSUME QueueRecord PROVE InEntries'
  <2>1. UNCHANGED <<entries, file, disk>> /\ record' = NoRecord
    BY <1>6 DEF QueueRecord, managerVars
  <2>2. PICK w \in Writes, e \in Entries :
          queued' = Append(queued, w) /\ w.lines = <<e>> /\ e.kind = "record"
    BY <1>6, RecordKeepsIds
  <2>3. Talk(w.lines) = {}
    <3>1. DOMAIN <<e>> = {1} /\ <<e>>[1] = e OBVIOUS
    <3>2. ToSet(w.lines) = {e} BY <2>2, <3>1 DEF ToSet
    <3> QED BY <2>2, <3>2 DEF Talk
  <2>4. /\ DOMAIN queued = 1..Len(queued) /\ DOMAIN queued' = 1..(Len(queued) + 1)
        /\ queued'[Len(queued) + 1] = w /\ Len(queued) \in Nat
        /\ \A k \in 1..Len(queued) : queued'[k] = queued[k]
    BY <1>0, <2>2, OneMoreWrite
  <2>5. ASSUME NEW k \in DOMAIN queued', queued'[k].file = file
        PROVE  Talk(queued'[k].lines) \subseteq IdsOf(entries) \cup {0}
    <3>1. CASE k = Len(queued) + 1 BY <2>3, <2>4, <3>1
    <3>2. CASE k \in 1..Len(queued) BY <2>4, <2>5, <3>2 DEF InEntries
    <3> QED BY <2>4, <3>1, <3>2
  <2>6. file # 0 BY FilesAre, <1>0
  <2> QED BY <2>1, <2>5, <2>6 DEF InEntries, NoRecord
<1>7. ASSUME Restart PROVE InEntries'
  <2>1. /\ file' = file /\ disk' = disk /\ record' = NoRecord /\ entries' = Load(disk[file])
    BY <1>7, RestartIs
  <2>2. disk[file] # <<>> /\ Head(disk[file]) = Header
          => Talk(disk[file]) \subseteq IdsOf(entries') \cup {0}
    <3> SUFFICES ASSUME disk[file] # <<>> /\ Head(disk[file]) = Header
                 PROVE  Talk(disk[file]) \subseteq IdsOf(entries') \cup {0}
      OBVIOUS
    <3>1. disk[file] = <<Header>> \o entries' /\ entries' \in Seq(Entries) BY <1>0, <2>1, LoadIs
    <3>2. ToSet(disk[file]) = {Header} \cup ToSet(entries') BY <3>1, HeaderFirst
    <3> QED BY <3>2, TalkIs
  <2>3. ASSUME NEW k \in DOMAIN queued'
        PROVE Talk(queued'[k].lines) \subseteq IdsOf(entries') \cup {0}
    <3>1. CASE queued' = <<>>
      <4>1. DOMAIN queued' = {} BY <3>1
      <4> QED BY <2>3, <4>1
    <3>2. ASSUME NEW w \in Writes, queued' = <<w>>, w.lines = <<Header>>
          PROVE  Talk(queued'[k].lines) \subseteq IdsOf(entries') \cup {0}
      <4>1. DOMAIN queued' = {1} /\ queued'[1] = w BY <3>2
      <4>2. DOMAIN w.lines = {1} /\ w.lines[1] = Header BY <3>2
      <4>3. ToSet(w.lines) \subseteq {Header} \cup ToSet(entries') BY <4>2 DEF ToSet
      <4> QED BY <2>3, <4>1, <4>3, TalkIs
    <3> QED BY <1>7, <3>1, <3>2, RestartIs
  <2>4. file # 0 BY FilesAre, <1>0
  <2> QED BY <2>1, <2>2, <2>3, <2>4 DEF InEntries, NoRecord
<1>8. ASSUME NewSession PROVE InEntries'
  <2>1. /\ file' = file + 1 /\ file' \in Files /\ UNCHANGED <<disk, queued, record>>
    BY <1>8 DEF NewSession, Open, writerVars
  <2>2. disk'[file'] = <<>> BY <1>0, <2>1 DEF IdInv, FilesSound
  <2>3. record.file # file' BY <1>0, <2>1, RecordFields
  <2>4. \A k \in DOMAIN queued : queued[k].file # file' BY <1>0, <2>1
  <2> QED BY <2>1, <2>2, <2>3, <2>4 DEF InEntries
<1>9. ASSUME NEW to \in EntryIds, Fork(to) PROVE InEntries'
  <2>1. /\ file' = file + 1 /\ UNCHANGED <<queued, record>> /\ queued = <<>>
    BY <1>9, ForkIs
  <2>2. disk'[file'] = <<>> \/ (disk'[file'] = <<Header>> \o entries' /\ entries' \in Seq(Entries))
    BY <1>9, ForkIs
  <2>3. disk'[file'] # <<>> /\ Head(disk'[file']) = Header =>
          Talk(disk'[file']) \subseteq IdsOf(entries') \cup {0}
    BY <2>2, HeaderFirst, TalkIs
  <2>4. record.file # file' BY <1>0, <2>1, RecordFields
  <2>5. DOMAIN queued = {} BY <2>1
  <2> QED BY <2>1, <2>3, <2>4, <2>5 DEF InEntries
<1>10. ASSUME Looks PROVE InEntries'
  BY <1>10 DEF Looks, InEntries
<1> QED BY <1>1, <1>3, <1>4, <1>5, <1>6, <1>7, <1>8, <1>9, <1>10, StepCases

-----------------------------------------------------------------------------
(* Compactions keep a part of their branch.                                  *)

(* The branch of an entry that was appended, and of the entries before it.   *)
LEMMA BranchGrows ==
  ASSUME IdInv, NEW e, Adds(e)
  PROVE  /\ e.parent \in AnyId /\ Branch(entries, e.parent) \in Seq(Entries)
         /\ Current' = Append(Branch(entries, e.parent), e)
         /\ \A x \in AnyId : x # e.id => Branch(entries', x) = Branch(entries, x)
<1>1. /\ e \in Entries /\ e.id \in AnyId /\ e.parent \in AnyId /\ entries \in Seq(Entries)
      /\ entries' = Append(entries, e) /\ leaf' = e.id
  BY EntryFields, AddQueues DEF Adds, IdInv, FilesTypeOK
<1>2. Current' = Branch(entries', leaf') BY DEF Current
<1> QED BY <1>1, <1>2, BranchAppend

(* The ids of a path with one more entry.                                    *)
LEMMA IdsOfAppend ==
  ASSUME NEW path \in Seq(Entries), NEW e \in Entries
  PROVE  IdsOf(Append(path, e)) = IdsOf(path) \cup {e.id}
BY ToSetAppend, IdsAre

(* What a compaction that is being summarized keeps, is on the branch.       *)
LEMMA OnPathStays ==
  ASSUME IdInv, OnPath, [FilesNext]_filesVars PROVE OnPath'
<1>1. ASSUME NEW e, Adds(e) PROVE OnPath'
  <2>1. compacting' = NoCompaction \/ moved' = TRUE \/
          (e.parent = leaf /\ UNCHANGED <<compacting, moved>>)
    BY <1>1 DEF Adds, Occasion
  <2>2. CASE e.parent = leaf /\ UNCHANGED <<compacting, moved>>
    <3>1. Current' = Append(Current, e) /\ Current \in Seq(Entries) /\ e \in Entries
      BY <1>1, <2>2, BranchGrows DEF Current, Adds
    <3>2. IdsOf(Current') = IdsOf(Current) \cup {e.id} BY <3>1, IdsOfAppend
    <3> QED BY <2>2, <3>2 DEF OnPath
  <2> QED BY <2>1, <2>2 DEF OnPath
<1>2. ASSUME UNCHANGED <<entries, leaf, compacting, moved>> PROVE OnPath'
  BY <1>2 DEF OnPath, Current
<1>3. ASSUME compacting' = NoCompaction PROVE OnPath' BY <1>3 DEF OnPath
<1>4. CASE WriteOne BY <1>2, <1>4 DEF WriteOne, managerVars
<1>5. CASE WriteFails BY <1>2, <1>5 DEF WriteFails, managerVars
<1>6. ASSUME NEW f \in Files, ReadForRecord(f) PROVE OnPath'
  BY <1>2, <1>6 DEF ReadForRecord, managerVars
<1>7. CASE QueueRecord BY <1>2, <1>7 DEF QueueRecord, managerVars
<1>8. CASE Restart BY <1>3, <1>8 DEF Restart, Open, AfterOpen
<1>9. CASE NewSession BY <1>3, <1>9 DEF NewSession, Open, AfterOpen
<1>10. ASSUME NEW to \in EntryIds, Fork(to) PROVE OnPath' BY <1>3, <1>10, ForkIs
<1>11. CASE Looks
  <2>1. CASE CanCompact(Current) /\ compacting' = Compaction(Current) /\ leaf' = leaf
    <3> DEFINE path == Current
               cut == Cut(path, Boundary(path))
    <3>1. path \in Seq(Entries) BY CurrentIs DEF IdInv
    <3>2. Current' = path BY <1>11, <2>1 DEF Looks, Current
    <3>3. CanCompact(path) /\ compacting' = Compaction(path) BY <2>1
    <3> HIDE DEF path
    <3>4. /\ Boundary(path) \in 1..Len(path) /\ cut \in Boundary(path)..Len(path)
          /\ Compaction(path).ref = path[cut].id
      BY <3>1, <3>3, CompactionIs
    <3>5. cut \in DOMAIN path BY <3>1, <3>4
    <3>6. compacting'.ref \in IdsOf(path) BY <3>3, <3>4, <3>5 DEF IdsOf
    <3> QED BY <3>2, <3>6 DEF OnPath
  <2>2. CASE compacting' = NoCompaction \/ moved' = TRUE BY <2>2 DEF OnPath
  <2> QED BY <1>2, <1>11, <2>1, <2>2 DEF Looks
<1> QED BY <1>1, <1>4, <1>5, <1>6, <1>7, <1>8, <1>9, <1>10, <1>11, StepCases

(* A compaction that a step brings was being summarized.                     *)
LEMMA NewCompaction ==
  ASSUME IdInv, InEntries, [FilesNext]_filesVars,
         NEW e \in ToSet(entries') \ ToSet(entries), e.kind = "compaction"
  PROVE  Adds(e)
<1>0. /\ file \in Files /\ disk[file] \in Seq(Lines) /\ FileLike(disk[file])
      /\ entries \in Seq(Entries)
  BY DEF IdInv, FilesTypeOK, FilesSound
<1>1. ASSUME NEW d, Adds(d) PROVE d = e
  BY <1>1, AddQueues DEF IdInv
<1>2. e \notin ToSet(Load(disk[file]))
  <2> SUFFICES ASSUME e \in ToSet(Load(disk[file])) PROVE FALSE OBVIOUS
  <2>1. /\ Load(disk[file]) \in Seq(Entries) /\ ToSet(Load(disk[file])) \subseteq ToSet(disk[file])
        /\ ~(disk[file] # <<>> /\ Head(disk[file]) = Header) => Load(disk[file]) = <<>>
    BY <1>0, LoadIs
  <2>2. e \in ToSet(disk[file]) BY <2>1
  <2>3. Load(disk[file]) # <<>>
    <3> SUFFICES ASSUME Load(disk[file]) = <<>> PROVE FALSE OBVIOUS
    <3>1. DOMAIN Load(disk[file]) = {} OBVIOUS
    <3> QED BY <3>1 DEF ToSet
  <2>4. e.id \in Talk(disk[file]) BY <2>2 DEF Talk
  <2>5. e.id \in IdsOf(entries) \cup {0} BY <2>1, <2>3, <2>4 DEF InEntries
  <2>6. e \in Entries
    <3>1. \A x \in ToSet(Load(disk[file])) : x \in Entries BY <2>1 DEF ToSet
    <3> QED BY <3>1
  <2>7. e.id # 0 BY <2>6, EntryFields
  <2>8. PICK x \in ToSet(entries) : x.id = e.id BY <2>5, <2>7, IdsAre
  <2>9. x \in Everything /\ e \in Everything BY <1>0, <2>2, <2>8, EverythingIs DEF IdInv
  <2>10. x = e BY <2>8, <2>9 DEF IdInv, OneLineAnId
  <2> QED BY <2>8, <2>10
<1>3. ASSUME entries' = entries PROVE FALSE BY <1>3
<1>4. CASE WriteOne BY <1>3, <1>4 DEF WriteOne, managerVars
<1>5. CASE WriteFails BY <1>3, <1>5 DEF WriteFails, managerVars
<1>6. ASSUME NEW f \in Files, ReadForRecord(f) PROVE FALSE
  BY <1>3, <1>6 DEF ReadForRecord, managerVars
<1>7. CASE QueueRecord BY <1>3, <1>7 DEF QueueRecord, managerVars
<1>8. CASE Restart
  <2>1. entries' = Load(disk[file]) BY <1>8, RestartIs
  <2> QED BY <1>2, <2>1
<1>9. CASE NewSession
  <2>1. entries' = Load(<<>>) BY <1>9 DEF NewSession, Open
  <2>2. entries' = <<>> BY <2>1 DEF Load
  <2>3. DOMAIN entries' = {} BY <2>2
  <2> QED BY <2>3 DEF ToSet
<1>10. ASSUME NEW to \in EntryIds, Fork(to) PROVE FALSE
  <2> DEFINE es == Load(disk[file])
             path == Branch(es, to)
  <2>1. /\ to \in Forkable /\ to \in IdsOf(es)
    BY <1>10, ForkIs
  <2>2. PICK labels \in Seq(Entries) :
          /\ LabelChain(labels, Unlabelled(path))
          /\ ToSet(Forked(path)) \subseteq ToSet(path) \cup ToSet(labels)
          /\ entries' = Forked(path) \/ entries' = <<>>
    BY <1>10, ForkIs
  <2>3. ToSet(path) \subseteq ToSet(es) BY <2>1, ForkedPath
  <2> HIDE DEF path
  <2>4. e \in ToSet(labels)
    <3>1. entries' # <<>>
      <4> SUFFICES ASSUME entries' = <<>> PROVE FALSE OBVIOUS
      <4>1. DOMAIN entries' = {} OBVIOUS
      <4> QED BY <4>1 DEF ToSet
    <3> QED BY <1>2, <2>2, <2>3, <3>1
  <2>5. PICK i \in 1..Len(labels) : labels[i] = e BY <2>4 DEF ToSet
  <2> QED BY <2>2, <2>5 DEF LabelChain
<1>11. CASE Looks BY <1>3, <1>11 DEF Looks
<1> QED BY <1>1, <1>4, <1>5, <1>6, <1>7, <1>8, <1>9, <1>10, <1>11, StepCases

-----------------------------------------------------------------------------
(* Sequences whose parents come first.                                       *)

(* One more line: its parent must be known or before it.                     *)
LEMMA RootedAppend ==
  ASSUME NEW S, NEW s \in Seq(S), NEW e, NEW known
  PROVE  Rooted(Append(s, e), known) <=> Rooted(s, known) /\ e.parent \in known \cup IdsOf(s)
<1> DEFINE t == Append(s, e)
<1>1. /\ DOMAIN t = 1..(Len(s) + 1) /\ DOMAIN s = 1..Len(s) /\ Len(s) \in Nat
      /\ t[Len(s) + 1] = e /\ \A i \in 1..Len(s) : t[i] = s[i]
  OBVIOUS
<1>2. \A i \in 1..(Len(s) + 1) : SubSeq(t, 1, i - 1) = SubSeq(s, 1, i - 1)
  <2> TAKE i \in 1..(Len(s) + 1)
  <2>1. i - 1 \in 0..Len(s) BY <1>1
  <2> DEFINE n == i - 1
  <2>2. n \in Nat /\ n <= Len(s) BY <2>1
  <2> HIDE DEF n
  <2>3. \A j \in 1..n : t[j] = s[j] BY <1>1, <2>2
  <2>4. SubSeq(t, 1, n) = [j \in 1..n |-> t[j]] /\ SubSeq(s, 1, n) = [j \in 1..n |-> s[j]]
    BY <2>2
  <2>5. SubSeq(t, 1, n) = SubSeq(s, 1, n) BY <2>3, <2>4
  <2> QED BY <2>5 DEF n
<1>3. SubSeq(s, 1, Len(s)) = s BY InitialParts
<1>4. (Len(s) + 1) - 1 = Len(s) /\ Len(s) + 1 \in 1..(Len(s) + 1) BY <1>1
<1>5. IdsOf(SubSeq(t, 1, (Len(s) + 1) - 1)) = IdsOf(s)
  <2>1. SubSeq(t, 1, (Len(s) + 1) - 1) = SubSeq(s, 1, (Len(s) + 1) - 1)
    <3> HIDE DEF t
    <3> QED BY <1>2, <1>4
  <2>2. SubSeq(s, 1, (Len(s) + 1) - 1) = s
    <3>1. SubSeq(s, 1, (Len(s) + 1) - 1) = SubSeq(s, 1, Len(s)) BY <1>4
    <3> QED BY <1>3, <3>1
  <2> QED BY <2>1, <2>2
<1> HIDE DEF t
<1>6. ASSUME Rooted(t, known) PROVE Rooted(s, known) /\ e.parent \in known \cup IdsOf(s)
  <2>1. e.parent \in known \cup IdsOf(s)
    <3>1. Len(s) + 1 \in DOMAIN t BY <1>1
    <3> QED BY <1>1, <1>5, <1>6, <3>1 DEF Rooted
  <2>2. ASSUME NEW i \in DOMAIN s PROVE s[i].parent \in known \cup IdsOf(SubSeq(s, 1, i - 1))
    <3>1. i \in DOMAIN t /\ t[i] = s[i] /\ SubSeq(t, 1, i - 1) = SubSeq(s, 1, i - 1)
      BY <1>1, <1>2
    <3>2. t[i].parent \in known \cup IdsOf(SubSeq(t, 1, i - 1)) BY <1>6, <3>1 DEF Rooted
    <3> QED BY <3>1, <3>2
  <2> QED BY <2>1, <2>2 DEF Rooted
<1>7. ASSUME Rooted(s, known), e.parent \in known \cup IdsOf(s) PROVE Rooted(t, known)
  <2> SUFFICES ASSUME NEW i \in DOMAIN t
               PROVE  t[i].parent \in known \cup IdsOf(SubSeq(t, 1, i - 1))
    BY DEF Rooted
  <2>1. CASE i = Len(s) + 1 BY <1>1, <1>5, <1>7, <2>1
  <2>2. CASE i \in 1..Len(s)
    <3>1. i \in DOMAIN s /\ t[i] = s[i] /\ SubSeq(t, 1, i - 1) = SubSeq(s, 1, i - 1)
      BY <1>1, <1>2, <2>2
    <3>2. s[i].parent \in known \cup IdsOf(SubSeq(s, 1, i - 1)) BY <1>7, <3>1 DEF Rooted
    <3> QED BY <3>1, <3>2
  <2> QED BY <1>1, <2>1, <2>2
<1> QED BY <1>6, <1>7 DEF t

(* Nothing has no parents, and it does no harm to know more.                 *)
LEMMA RootedMore ==
  /\ \A known : Rooted(<<>>, known)
  /\ \A s, k, l : Rooted(s, k) /\ k \subseteq l => Rooted(s, l)
BY DEF Rooted

(* The header is known to all that comes after it.                           *)
LEMMA RootedHeader ==
  ASSUME NEW es \in Seq(Entries), NEW known, 0 \in known
  PROVE  Rooted(<<Header>> \o es, known) <=> Rooted(es, known)
<1> DEFINE P(s) == Rooted(<<Header>> \o s, known) <=> Rooted(s, known)
           T == {s \in Seq(Entries) : P(s)}
<1>1. <<>> \in T
  <2> DEFINE none == <<>>
  <2>1. <<Header>> \o none = Append(none, Header) /\ none \in Seq(Entries) OBVIOUS
  <2>2. Rooted(none, known) BY RootedMore
  <2> HIDE DEF none
  <2>3. Rooted(Append(none, Header), known) BY <2>1, <2>2, HeaderIs, RootedAppend
  <2>4. P(none) BY <2>1, <2>2, <2>3
  <2> QED BY <2>1, <2>4 DEF none
<1>2. \A s \in T, e \in Entries : Append(s, e) \in T
  <2> TAKE s \in T, e \in Entries
  <2> DEFINE h == <<Header>> \o s
  <2>1. s \in Seq(Entries) /\ P(s) /\ Append(s, e) \in Seq(Entries) OBVIOUS
  <2>2. h \in Seq(Lines) /\ ToSet(h) = {Header} \cup ToSet(s) BY <2>1, HeaderFirst
  <2>3. <<Header>> \o Append(s, e) = Append(h, e) BY <2>1
  <2>4. IdsOf(h) = {0} \cup IdsOf(s) BY <2>2, IdsAre, HeaderIs
  <2>5. Rooted(h, known) <=> Rooted(s, known) BY <2>1
  <2> HIDE DEF h, T
  <2>6. Rooted(Append(h, e), known) <=> Rooted(h, known) /\ e.parent \in known \cup IdsOf(h)
    BY <2>2, RootedAppend
  <2>7. Rooted(Append(s, e), known) <=> Rooted(s, known) /\ e.parent \in known \cup IdsOf(s)
    BY <2>1, RootedAppend
  <2>8. P(Append(s, e)) BY <2>3, <2>4, <2>5, <2>6, <2>7
  <2> QED BY <2>1, <2>8 DEF T
<1>3. T \subseteq Seq(Entries) OBVIOUS
<1>4. es \in T
  <2> HIDE DEF T
  <2>1. Seq(Entries) \subseteq T BY <1>1, <1>2, <1>3, SeqInduct
  <2> QED BY <2>1
<1> QED BY <1>4

(* What is read back from a file.                                            *)
LEMMA RootedLoad ==
  ASSUME NEW lines \in Seq(Lines), FileLike(lines), NEW known, 0 \in known, Rooted(lines, known)
  PROVE  Rooted(Load(lines), known)
<1>1. CASE lines # <<>> /\ Head(lines) = Header
  <2>1. lines = <<Header>> \o Load(lines) /\ Load(lines) \in Seq(Entries) BY <1>1, LoadIs
  <2> QED BY <2>1, RootedHeader
<1>2. CASE ~(lines # <<>> /\ Head(lines) = Header)
  <2>1. Load(lines) = <<>> BY <1>2, LoadIs
  <2> QED BY <2>1, RootedMore
<1> QED BY <1>1, <1>2

(* A branch of a tree.                                                       *)
LEMMA RootedBranch ==
  ASSUME NEW es \in Seq(Entries), NEW known, Rooted(es, known), NEW x \in AnyId
  PROVE  Rooted(Branch(es, x), known)
<1> DEFINE P(s) == Rooted(s, known) => \A y \in AnyId : Rooted(Branch(s, y), known)
           T == {s \in Seq(Entries) : P(s)}
<1>1. <<>> \in T
  <2>1. \A y \in AnyId : Branch(<<>>, y) = <<>> BY BranchEmpty
  <2>2. P(<<>>) BY <2>1, RootedMore
  <2> QED BY <2>2
<1>2. \A s \in T, e \in Entries : Append(s, e) \in T
  <2> TAKE s \in T, e \in Entries
  <2>1. s \in Seq(Entries) /\ P(s) /\ Append(s, e) \in Seq(Entries) OBVIOUS
  <2>2. ASSUME Rooted(Append(s, e), known), NEW y \in AnyId
        PROVE  Rooted(Branch(Append(s, e), y), known)
    <3> DEFINE q == Branch(s, e.parent)
    <3>1. Rooted(s, known) /\ e.parent \in known \cup IdsOf(s) BY <2>1, <2>2, RootedAppend
    <3>2. e.parent \in AnyId BY EntryFields
    <3>3. q \in Seq(Entries) /\ Rooted(q, known) BY <2>1, <3>1, <3>2, BranchElements
    <3>4. e.parent \in known \cup IdsOf(q)
      <4>1. CASE e.parent \in known BY <4>1
      <4>2. CASE e.parent \in IdsOf(s)
        <5>1. q # <<>> /\ Last(q).id = e.parent BY <2>1, <3>2, <4>2, BranchElements
        <5>2. Len(q) \in DOMAIN q BY <3>3, <5>1
        <5>3. Last(q).id \in IdsOf(q) BY <5>2 DEF IdsOf, Last
        <5> QED BY <5>1, <5>3
      <4> QED BY <3>1, <4>1, <4>2
    <3> HIDE DEF q
    <3>5. Rooted(Append(q, e), known) BY <3>3, <3>4, RootedAppend
    <3>6. Branch(Append(s, e), y) = IF e.id = y THEN Append(q, e) ELSE Branch(s, y)
      BY <2>1, BranchAppend DEF q
    <3>7. Rooted(Branch(s, y), known) BY <2>1, <3>1
    <3> QED BY <3>5, <3>6, <3>7
  <2>3. P(Append(s, e)) BY <2>2, Zenon
  <2> QED BY <2>1, <2>3
<1>3. T \subseteq Seq(Entries) OBVIOUS
<1>4. es \in T
  <2> HIDE DEF T
  <2>1. Seq(Entries) \subseteq T BY <1>1, <1>2, <1>3, SeqInduct
  <2> QED BY <2>1
<1> QED BY <1>4

(* Without some of its entries, whose ids are known instead.                 *)
LEMMA RootedOnly ==
  ASSUME NEW path \in Seq(Entries), NEW kinds, NEW known, NEW more, Rooted(path, known),
         known \subseteq more, \A e \in ToSet(path) : e.kind \notin kinds => e.id \in more
  PROVE  Rooted(Only(path, kinds), more)
<1> DEFINE P(s) == /\ Rooted(s, known)
                   /\ \A e \in ToSet(s) : e.kind \notin kinds => e.id \in more
           T == {s \in Seq(Entries) : P(s) => Rooted(Only(s, kinds), more)}
<1>1. <<>> \in T
  <2>1. Only(<<>>, kinds) = <<>> BY OnlyEmpty
  <2>2. Rooted(Only(<<>>, kinds), more) BY <2>1, RootedMore
  <2> QED BY <2>2
<1>2. \A s \in T, e \in Entries : Append(s, e) \in T
  <2> TAKE s \in T, e \in Entries
  <2>1. s \in Seq(Entries) /\ (P(s) => Rooted(Only(s, kinds), more))
        /\ Append(s, e) \in Seq(Entries)
    OBVIOUS
  <2>2. ASSUME P(Append(s, e)) PROVE Rooted(Only(Append(s, e), kinds), more)
    <3> DEFINE q == Only(s, kinds)
    <3>1. Rooted(s, known) /\ e.parent \in known \cup IdsOf(s) BY <2>1, <2>2, RootedAppend
    <3>2. ToSet(Append(s, e)) = ToSet(s) \cup {e} BY <2>1, ToSetAppend
    <3>3. P(s) BY <2>2, <3>1, <3>2
    <3>4. Rooted(q, more) BY <2>1, <3>3
    <3>5. q \in Seq(Entries) /\ ToSet(q) = {x \in ToSet(s) : x.kind \in kinds}
      BY <2>1, OnlyElements
    <3>6. IdsOf(s) \subseteq more \cup IdsOf(q) BY <3>3, <3>5, IdsAre
    <3>7. e.parent \in more \cup IdsOf(q) BY <3>1, <3>6
    <3>8. Only(Append(s, e), kinds) = IF e.kind \in kinds THEN Append(q, e) ELSE q
      BY <2>1, OnlyAppend
    <3> HIDE DEF q
    <3>9. Rooted(Append(q, e), more) BY <3>4, <3>5, <3>7, RootedAppend
    <3> QED BY <3>4, <3>8, <3>9
  <2> HIDE DEF P
  <2> QED BY <2>1, <2>2
<1>3. T \subseteq Seq(Entries) OBVIOUS
<1>4. path \in T
  <2> HIDE DEF T
  <2>1. Seq(Entries) \subseteq T BY <1>1, <1>2, <1>3, SeqInduct
  <2> QED BY <2>1
<1> QED BY <1>4

(* The labels that a fork puts behind the path it keeps.                     *)
LEMMA RootedChain ==
  ASSUME minted \in Nat, NEW kept \in Seq(Entries), NEW labels \in Seq(Entries), NEW known,
         0 \in known,
         Rooted(kept, known), LabelChain(labels, kept)
  PROVE  Rooted(kept \o labels, known)
<1> DEFINE upto(k) == kept \o SubSeq(labels, 1, k)
           T == {k \in 0..Len(labels) : Rooted(upto(k), known)}
<1>1. /\ SubSeq(labels, 1, 0) = <<>> /\ SubSeq(labels, 1, Len(labels)) = labels
      /\ \A i \in 1..Len(labels) :
           /\ SubSeq(labels, 1, i - 1) \in Seq(Entries) /\ labels[i] \in Entries
           /\ SubSeq(labels, 1, i) = Append(SubSeq(labels, 1, i - 1), labels[i])
  BY InitialParts
<1>2. Len(labels) \in Nat OBVIOUS
<1>3. 0 \in T
  <2>1. upto(0) = kept \o <<>> BY <1>1
  <2>2. upto(0) = kept BY <2>1
  <2> HIDE DEF upto
  <2>3. Rooted(upto(0), known) BY <2>2
  <2> QED BY <1>2, <2>3
<1>4. ASSUME NEW i \in 1..Len(labels), i - 1 \in T PROVE i \in T
  <2> DEFINE a == SubSeq(labels, 1, i - 1)
             e == labels[i]
             q == kept \o a
  <2>1. a \in Seq(Entries) /\ e \in Entries /\ SubSeq(labels, 1, i) = Append(a, e) BY <1>1
  <2>2. Rooted(q, known) BY <1>4
  <2>3. e.parent = IF i = 1 THEN LastId(kept) ELSE minted + i - 1 BY DEF LabelChain
  <2>5. IdsOf(q) = IdsOf(kept) \cup IdsOf(a)
    <3>1. ToSet(q) = ToSet(kept) \cup ToSet(a) BY <2>1, ToSetConcat, ZenonT(40)
    <3> QED BY <3>1, IdsAre
  <2>6. ASSUME i = 1, kept # <<>> PROVE e.parent \in IdsOf(q)
    <3>1. e.parent = kept[Len(kept)].id BY <2>3, <2>6 DEF LastId, Last
    <3>2. Len(kept) \in DOMAIN kept BY <2>6
    <3>3. e.parent \in IdsOf(kept) BY <3>1, <3>2 DEF IdsOf
    <3> QED BY <3>3, <2>5
  <2>7. ASSUME i # 1 PROVE e.parent \in IdsOf(q)
    <3> DEFINE j == i - 1
    <3>1. j \in 1..Len(labels) /\ j \in Nat BY <1>2, <2>7
    <3>2. labels[j].id = minted + j BY <3>1 DEF LabelChain
    <3>3. e.parent = minted + j BY <1>2, <2>3, <2>7
    <3>4. a[j] = labels[j] /\ j \in DOMAIN a BY <1>2, <3>1
    <3>5. e.parent \in IdsOf(a) BY <3>2, <3>3, <3>4 DEF IdsOf
    <3> QED BY <3>5, <2>5
  <2>8. e.parent \in known \cup IdsOf(q)
    <3>1. CASE i = 1 /\ kept = <<>>
      <4>1. e.parent = 0 BY <2>3, <3>1 DEF LastId
      <4> QED BY <4>1
    <3> QED BY <3>1, <2>6, <2>7
  <2>9. upto(i) = Append(q, e) BY <2>1
  <2>10. q \in Seq(Entries) BY <2>1
  <2> HIDE DEF q, e, upto
  <2>11. Rooted(Append(q, e), known) BY <2>2, <2>8, <2>10, RootedAppend
  <2>12. Rooted(upto(i), known) BY <2>9, <2>11
  <2> QED BY <1>2, <2>12
<1> HIDE DEF T
<1>5. 0..Len(labels) \subseteq T BY <1>2, <1>3, <1>4, Induct
<1>6. Len(labels) \in T BY <1>2, <1>5
<1> QED BY <1>1, <1>6 DEF T

-----------------------------------------------------------------------------
(* What a file has when the queue is being written.                          *)

(* One more write comes after the others.                                    *)
LEMMA UptoAppend ==
  ASSUME NEW lines \in Seq(Lines), NEW q \in Seq(Writes), NEW w \in Writes, NEW f
  PROVE  /\ \A k \in 0..Len(q) : /\ Upto(lines, q, f, k) \in Seq(Lines)
                                 /\ Upto(lines, Append(q, w), f, k) = Upto(lines, q, f, k)
         /\ Upto(lines, q, f, 0) = lines
         /\ Upto(lines, q, f, Len(q)) = After(lines, q, f)
         /\ After(lines, q, f) \in Seq(Lines)
         /\ After(lines, Append(q, w), f) =
              IF w.file = f THEN Written(After(lines, q, f), w) ELSE After(lines, q, f)
<1>1. /\ SubSeq(q, 1, 0) = <<>> /\ SubSeq(q, 1, Len(q)) = q BY InitialParts
<1>2. ASSUME NEW k \in 0..Len(q)
      PROVE  SubSeq(q, 1, k) \in Seq(Writes) /\ SubSeq(Append(q, w), 1, k) = SubSeq(q, 1, k)
  <2>1. k \in Nat /\ k <= Len(q) /\ Len(q) \in Nat OBVIOUS
  <2>2. SubSeq(q, 1, k) \in Seq(Writes) BY <2>1
  <2> DEFINE v == Append(q, w)
  <2>3. Len(v) = Len(q) + 1 /\ \A j \in 1..k : v[j] = q[j] BY <2>1
  <2> HIDE DEF v
  <2>4. SubSeq(v, 1, k) = [j \in 1..k |-> v[j]] /\ SubSeq(q, 1, k) = [j \in 1..k |-> q[j]]
    BY <2>1, <2>3
  <2>5. SubSeq(v, 1, k) = SubSeq(q, 1, k) BY <2>3, <2>4
  <2> QED BY <2>2, <2>5 DEF v
<1>3. \A k \in 0..Len(q) : /\ Upto(lines, q, f, k) \in Seq(Lines)
                           /\ Upto(lines, Append(q, w), f, k) = Upto(lines, q, f, k)
  BY <1>2, AfterElements DEF Upto
<1>4. After(lines, <<>>, f) = lines BY AfterNone
<1>5. Upto(lines, q, f, 0) = lines BY <1>1, <1>4 DEF Upto
<1>6. Upto(lines, q, f, Len(q)) = After(lines, q, f) BY <1>1 DEF Upto
<1>7. After(lines, q, f) \in Seq(Lines)
      /\ After(lines, Append(q, w), f) =
           IF w.file = f THEN Written(After(lines, q, f), w) ELSE After(lines, q, f)
  BY AfterAppend
<1> QED BY <1>3, <1>5, <1>6, <1>7

(* The first parts of a queue and of the queue without its head.             *)
LEMMA FirstParts ==
  ASSUME NEW q \in Seq(Writes), q # <<>>, NEW k \in 0..Len(Tail(q))
  PROVE  /\ SubSeq(Tail(q), 1, k) \in Seq(Writes)
         /\ SubSeq(q, 1, k + 1) = <<Head(q)>> \o SubSeq(Tail(q), 1, k)
<1> DEFINE w == Head(q)
           v == Tail(q)
<1>1. w \in Writes /\ v \in Seq(Writes) /\ q = <<w>> \o v BY OneWriteLess
<1> HIDE DEF w, v
<1>2. k \in Nat /\ k <= Len(v) /\ Len(v) \in Nat BY <1>1 DEF v
<1>3. SubSeq(v, 1, k) \in Seq(Writes) /\ Len(SubSeq(v, 1, k)) = k
      /\ \A j \in 1..k : SubSeq(v, 1, k)[j] = v[j]
  BY <1>1, <1>2
<1> DEFINE s == SubSeq(v, 1, k)
           t == <<w>> \o v
<1>4. Len(t) = Len(v) + 1 /\ t \in Seq(Writes) /\ t[1] = w
      /\ \A j \in 1..Len(v) : t[j + 1] = v[j]
  BY <1>1, <1>2
<1>5. SubSeq(t, 1, k + 1) \in Seq(Writes) /\ Len(SubSeq(t, 1, k + 1)) = k + 1
      /\ \A j \in 1..(k + 1) : SubSeq(t, 1, k + 1)[j] = t[j]
  <2> HIDE DEF t
  <2> QED BY <1>2, <1>4
<1>6. <<w>> \o s \in Seq(Writes) /\ Len(<<w>> \o s) = k + 1 /\ (<<w>> \o s)[1] = w
      /\ \A j \in 1..k : (<<w>> \o s)[j + 1] = s[j]
  BY <1>1, <1>2, <1>3
<1> HIDE DEF s
<1>7. \A j \in 1..(k + 1) : SubSeq(t, 1, k + 1)[j] = (<<w>> \o s)[j]
  <2> TAKE j \in 1..(k + 1)
  <2> HIDE DEF t
  <2>1. CASE j = 1 BY <1>2, <1>4, <1>5, <1>6, <2>1
  <2>2. CASE j # 1
    <3> DEFINE i == j - 1
    <3>1. i \in 1..k /\ i \in 1..Len(v) /\ j = i + 1 BY <1>2, <2>2
    <3> HIDE DEF i
    <3>2. t[j] = v[i] /\ (<<w>> \o s)[j] = s[i] BY <1>4, <1>6, <3>1
    <3>3. s[i] = v[i] BY <1>3, <3>1 DEF s
    <3> QED BY <1>5, <3>2, <3>3
  <2> QED BY <2>1, <2>2
<1>8. SubSeq(t, 1, k + 1) = <<w>> \o s
  <2> DEFINE a == SubSeq(t, 1, k + 1)
             b == <<w>> \o s
  <2>1. a \in Seq(Writes) /\ b \in Seq(Writes) /\ Len(a) = Len(b) /\ Len(a) = k + 1
    BY <1>5, <1>6
  <2>2. \A j \in 1..(k + 1) : a[j] = b[j] BY <1>7
  <2> HIDE DEF a, b
  <2>3. a = b BY <2>1, <2>2, SeqEqual
  <2> QED BY <2>3 DEF a, b
<1> QED BY <1>1, <1>3, <1>8 DEF s, t, v, w

(* The queue goes on when its head has been written.                         *)
LEMMA UptoTail ==
  ASSUME NEW lines \in Seq(Lines), NEW q \in Seq(Writes), q # <<>>, NEW f
  PROVE  LET first == IF Head(q).file = f THEN Written(lines, Head(q)) ELSE lines
         IN /\ first \in Seq(Lines)
            /\ \A k \in 0..Len(Tail(q)) : Upto(first, Tail(q), f, k) = Upto(lines, q, f, k + 1)
            /\ After(first, Tail(q), f) = After(lines, q, f)
<1> DEFINE first == IF Head(q).file = f THEN Written(lines, Head(q)) ELSE lines
<1>1. Head(q) \in Writes /\ Tail(q) \in Seq(Writes) /\ q = <<Head(q)>> \o Tail(q)
  BY OneWriteLess
<1>2. first \in Seq(Lines) BY <1>1, WrittenIs
<1>3. \A rest \in Seq(Writes) : After(lines, <<Head(q)>> \o rest, f) = After(first, rest, f)
  BY <1>1, AfterCons
<1> HIDE DEF first
<1>4. \A k \in 0..Len(Tail(q)) : Upto(first, Tail(q), f, k) = Upto(lines, q, f, k + 1)
  BY <1>3, FirstParts DEF Upto
<1>5. After(first, Tail(q), f) = After(lines, q, f) BY <1>1, <1>3
<1> QED BY <1>2, <1>4, <1>5 DEF first

(* A write that fails costs what it would have written and no more.          *)
LEMMA UptoLoss ==
  ASSUME NEW lines \in Seq(Lines), NEW q \in Seq(Writes), q # <<>>, NEW f
  PROVE  LET lost == IdsOf(Head(q).lines)
         IN /\ \A k \in 0..Len(Tail(q)) :
                 IdsOf(Upto(lines, q, f, k + 1))
                   \subseteq IdsOf(Upto(lines, Tail(q), f, k)) \cup lost
            /\ IdsOf(After(lines, q, f)) \subseteq IdsOf(After(lines, Tail(q), f)) \cup lost
<1> DEFINE first == IF Head(q).file = f THEN Written(lines, Head(q)) ELSE lines
           X == ToSet(Head(q).lines)
<1>1. Head(q) \in Writes /\ Tail(q) \in Seq(Writes) BY OneWriteLess
<1>2. first \in Seq(Lines) /\ ToSet(first) \subseteq ToSet(lines) \cup X BY <1>1, WrittenIs
<1>3. /\ \A k \in 0..Len(Tail(q)) : Upto(first, Tail(q), f, k) = Upto(lines, q, f, k + 1)
      /\ After(first, Tail(q), f) = After(lines, q, f)
  BY UptoTail
<1> HIDE DEF first
<1>4. \A rest \in Seq(Writes) :
        ToSet(After(first, rest, f)) \subseteq ToSet(After(lines, rest, f)) \cup X
  BY <1>2, AfterKeeps
<1>5. \A rest \in Seq(Writes) :
        IdsOf(After(first, rest, f))
          \subseteq IdsOf(After(lines, rest, f)) \cup IdsOf(Head(q).lines)
  <2> TAKE rest \in Seq(Writes)
  <2>1. ToSet(After(first, rest, f))
          \subseteq ToSet(After(lines, rest, f)) \cup ToSet(Head(q).lines)
    BY <1>4
  <2> QED BY <2>1, IdsAre
<1>6. \A k \in 0..Len(Tail(q)) : SubSeq(Tail(q), 1, k) \in Seq(Writes) BY FirstParts
<1> QED BY <1>1, <1>3, <1>5, <1>6 DEF Upto

-----------------------------------------------------------------------------
(* Every branch goes back to its root.                                       *)

(* What the roots of the queue, of a record and of the entries say.          *)
QueueRooted ==
  \A k \in DOMAIN queued : queued[k].file = file =>
    IF queued[k].whole THEN Rooted(queued[k].lines, Known)
    ELSE queued[k].lines[1].parent \in Known \cup IdsOf(Upto(disk[file], queued, file, k - 1))
RecordRooted == record.file = file => record.parent \in Known \cup IdsOf(Settled(file))
EntriesKnown == flushed => IdsOf(entries) \subseteq holes \cup IdsOf(Settled(file))

(* One more write.                                                           *)
LEMMA RootsQueue ==
  ASSUME FilesTypeOK, Roots, NEW w \in Writes, queued' = Append(queued, w),
         UNCHANGED <<disk, file, holes>>,
         w.file = file => IF w.whole THEN Rooted(w.lines, Known)
                          ELSE w.lines[1].parent \in Known \cup IdsOf(Settled(file))
  PROVE  /\ QueueRooted'
         /\ Settled(file) \in Seq(Lines)
         /\ Settled(file)' = IF w.file = file THEN Written(Settled(file), w) ELSE Settled(file)
         /\ w.file = file /\ w.whole => Settled(file)' = w.lines
         /\ ~(w.file = file /\ w.whole) => IdsOf(Settled(file)) \subseteq IdsOf(Settled(file)')
         /\ w.file = file => IdsOf(w.lines) \subseteq IdsOf(Settled(file)')
<1>1. /\ queued \in Seq(Writes) /\ disk[file] \in Seq(Lines) /\ w.lines \in Seq(Lines)
  BY WriteFields DEF FilesTypeOK
<1> DEFINE lines == disk[file]
           s == After(lines, queued, file)
           t == After(lines, Append(queued, w), file)
<1>2. /\ \A k \in 0..Len(queued) :
           Upto(lines, Append(queued, w), file, k) = Upto(lines, queued, file, k)
      /\ Upto(lines, queued, file, Len(queued)) = s /\ s \in Seq(Lines)
      /\ t = IF w.file = file THEN Written(s, w) ELSE s
  BY <1>1, UptoAppend
<1>3. Settled(file) = s /\ Settled(file)' = t BY DEF Settled
<1>4. /\ DOMAIN queued = 1..Len(queued) /\ DOMAIN queued' = 1..(Len(queued) + 1)
      /\ queued'[Len(queued) + 1] = w /\ Len(queued) \in Nat
      /\ \A k \in 1..Len(queued) : queued'[k] = queued[k]
  BY <1>1, OneMoreWrite
<1> HIDE DEF s, t
<1>5. ASSUME NEW k \in DOMAIN queued', queued'[k].file = file
      PROVE  IF queued'[k].whole THEN Rooted(queued'[k].lines, Known)
             ELSE queued'[k].lines[1].parent \in
                    Known \cup IdsOf(Upto(lines, Append(queued, w), file, k - 1))
  <2>1. CASE k = Len(queued) + 1
    <3>1. k - 1 = Len(queued) /\ Len(queued) \in 0..Len(queued) BY <1>4, <2>1
    <3>2. Upto(lines, Append(queued, w), file, k - 1) = s BY <1>2, <3>1
    <3>3. queued'[k] = w BY <1>4, <2>1
    <3> QED BY <1>3, <1>5, <3>2, <3>3
  <2>2. CASE k \in 1..Len(queued)
    <3>1. k - 1 \in 0..Len(queued) BY <1>4, <2>2
    <3>2. Upto(lines, Append(queued, w), file, k - 1) = Upto(lines, queued, file, k - 1)
      BY <1>2, <3>1
    <3>3. queued'[k] = queued[k] /\ k \in DOMAIN queued BY <1>4, <2>2
    <3> QED BY <1>5, <3>2, <3>3 DEF Roots
  <2> QED BY <1>4, <2>1, <2>2
<1>6. QueueRooted' BY <1>5 DEF QueueRooted, Known
<1>7. ToSet(s \o w.lines) = ToSet(s) \cup ToSet(w.lines) BY <1>1, <1>2, ToSetConcat
<1>8. IdsOf(s \o w.lines) = IdsOf(s) \cup IdsOf(w.lines) BY <1>7, IdsAre
<1>9. CASE w.file # file BY <1>2, <1>3, <1>6, <1>9
<1>10. CASE w.file = file /\ w.whole
  <2>1. t = w.lines BY <1>2, <1>10 DEF Written
  <2> QED BY <1>2, <1>3, <1>6, <1>10, <2>1
<1>11. CASE w.file = file /\ ~w.whole
  <2>1. t = s \o w.lines BY <1>2, <1>11 DEF Written
  <2> QED BY <1>2, <1>3, <1>6, <1>8, <1>11, <2>1
<1> QED BY <1>9, <1>10, <1>11

(* An entry is appended.                                                     *)
LEMMA RootsAdd ==
  ASSUME IdInv, InEntries, Roots, NEW e, Adds(e) PROVE Roots'
<1>1. /\ entries \in Seq(Entries) /\ e \in Entries /\ entries' = Append(entries, e)
      /\ entries' \in Seq(Entries) /\ IdsOf(entries') = IdsOf(entries) \cup {e.id}
      /\ UNCHANGED <<file, disk, record, holes>> /\ e.parent \in IdsOf(entries) \cup {0}
  BY AddQueues DEF IdInv, FilesTypeOK, Adds
<1>2. Known' = Known /\ 0 \in Known BY <1>1 DEF Known
<1>3. Rooted(entries', Known)
  <2>1. e.parent \in Known \cup IdsOf(entries) BY <1>1, <1>2
  <2> QED BY <1>1, <2>1, RootedAppend DEF Roots
<1>4. CASE ~flushed' /\ queued' = queued
  <2>1. Settled(file)' = Settled(file) BY <1>1, <1>4 DEF Settled
  <2> QED BY <1>1, <1>2, <1>3, <1>4, <2>1 DEF Roots
<1>5. ASSUME NEW w \in Writes, queued' = Append(queued, w), w.file = file,
             IF flushed THEN ~w.whole /\ w.lines = <<e>>
             ELSE w.whole /\ w.lines = <<Header>> \o entries'
      PROVE  Roots'
  <2>1. flushed \in BOOLEAN BY DEF IdInv, FilesTypeOK
  <2>2. IF w.whole THEN Rooted(w.lines, Known)
        ELSE w.lines[1].parent \in Known \cup IdsOf(Settled(file))
    <3>1. CASE flushed
      <4>1. w.lines[1] = e /\ ~w.whole BY <1>5, <3>1
      <4>2. IdsOf(entries) \subseteq holes \cup IdsOf(Settled(file)) BY <3>1 DEF Roots
      <4>3. e.parent \in Known \cup IdsOf(Settled(file)) BY <1>1, <4>2 DEF Known
      <4> QED BY <4>1, <4>3
    <3>2. CASE ~flushed
      <4>1. Rooted(<<Header>> \o entries', Known) BY <1>1, <1>2, <1>3, RootedHeader
      <4> QED BY <1>5, <3>2, <4>1
    <3> QED BY <2>1, <3>1, <3>2
  <2>3. /\ QueueRooted'
        /\ w.file = file /\ w.whole => Settled(file)' = w.lines
        /\ ~(w.file = file /\ w.whole) => IdsOf(Settled(file)) \subseteq IdsOf(Settled(file)')
        /\ w.file = file => IdsOf(w.lines) \subseteq IdsOf(Settled(file)')
    BY <1>1, <1>5, <2>2, RootsQueue DEF IdInv
  <2>4. CASE flushed
    <3>1. ~w.whole /\ w.lines = <<e>> BY <1>5, <2>4
    <3>2. DOMAIN <<e>> = {1} /\ <<e>>[1] = e OBVIOUS
    <3>3. e.id \in IdsOf(Settled(file)') /\ IdsOf(Settled(file)) \subseteq IdsOf(Settled(file)')
      BY <1>5, <2>3, <3>1, <3>2 DEF IdsOf
    <3>4. IdsOf(entries) \subseteq holes \cup IdsOf(Settled(file)) BY <2>4 DEF Roots
    <3>5. IdsOf(entries') \subseteq holes \cup IdsOf(Settled(file)') BY <1>1, <3>3, <3>4
    <3>6. EntriesKnown' BY <1>1, <3>5 DEF EntriesKnown
    <3>7. RecordRooted' BY <1>1, <1>2, <3>3 DEF Roots, RecordRooted
    <3> QED BY <1>1, <1>2, <1>3, <2>3, <3>6, <3>7
        DEF Roots, QueueRooted, RecordRooted, EntriesKnown
  <2>5. CASE ~flushed
    <3>1. Settled(file)' = <<Header>> \o entries' BY <1>5, <2>3, <2>5
    <3>2. ToSet(<<Header>> \o entries') = {Header} \cup ToSet(entries') BY <1>1, HeaderFirst
    <3>3. IdsOf(entries') \subseteq IdsOf(Settled(file)') BY <3>1, <3>2, IdsAre
    <3>4. EntriesKnown' BY <1>1, <3>3 DEF EntriesKnown
    <3>5. record.file = file => record.parent \in IdsOf(entries) \cup {0} BY DEF InEntries
    <3>6. record.file = file => record.parent \in Known \cup IdsOf(Settled(file)')
      BY <1>1, <1>2, <3>3, <3>5
    <3>7. RecordRooted' BY <1>1, <1>2, <3>6 DEF RecordRooted
    <3> QED BY <1>1, <1>2, <1>3, <2>3, <3>4, <3>7
        DEF Roots, QueueRooted, RecordRooted, EntriesKnown
  <2> QED BY <2>1, <2>4, <2>5
<1> QED BY <1>4, <1>5, AddQueues DEF IdInv

(* The head of the queue is written.                                         *)
LEMMA RootsWrite ==
  ASSUME IdInv, Roots, WriteOne PROVE Roots'
<1> DEFINE w == Head(queued)
           lines == disk[file]
           first == IF w.file = file THEN Written(lines, w) ELSE lines
<1>1. /\ queued # <<>> /\ w \in Writes /\ WriteOK(w) /\ queued' = Tail(queued)
      /\ UNCHANGED <<entries, leaf, flushed, file, record, holes>>
      /\ \A f \in Files : f # w.file => disk'[f] = disk[f]
      /\ disk'[w.file] = Written(disk[w.file], w)
  BY WriteIs DEF managerVars
<1>2. queued \in Seq(Writes) /\ lines \in Seq(Lines) /\ file \in Files BY DEF IdInv, FilesTypeOK
<1>3. /\ w = queued[1] /\ 1 \in DOMAIN queued /\ Tail(queued) \in Seq(Writes)
      /\ \A k \in DOMAIN Tail(queued) : k + 1 \in DOMAIN queued /\ Tail(queued)[k] = queued[k + 1]
  BY <1>1, <1>2, OneWriteLess
<1>4. disk'[file] = first BY <1>1, <1>2
<1>5. /\ \A k \in 0..Len(Tail(queued)) :
           Upto(first, Tail(queued), file, k) = Upto(lines, queued, file, k + 1)
      /\ After(first, Tail(queued), file) = After(lines, queued, file)
  BY <1>1, <1>2, UptoTail
<1>6. Upto(lines, queued, file, 0) = lines
  <2>1. \E v \in Writes : v = w BY <1>1
  <2> QED BY <1>2, <2>1, UptoAppend
<1> HIDE DEF w, lines, first
<1>7. Known' = Known BY <1>1 DEF Known
<1>8. Rooted(disk'[file], Known)
  <2>1. CASE w.file # file BY <1>4, <2>1 DEF Roots, first, lines
  <2>2. CASE w.file = file /\ w.whole
    <3>1. disk'[file] = w.lines BY <1>4, <2>2 DEF first, Written
    <3> QED BY <1>3, <2>2, <3>1 DEF Roots
  <2>3. CASE w.file = file /\ ~w.whole
    <3>1. w.lines = <<w.lines[1]>> /\ w.lines[1] \in Entries BY <1>1, <2>3 DEF WriteOK, Alone
    <3> DEFINE e == w.lines[1]
    <3>2. disk'[file] = lines \o <<e>> BY <1>4, <2>3, <3>1 DEF first, Written
    <3>3. e \in Entries /\ w.lines[1] = e BY <3>1
    <3>4. e.parent \in Known \cup IdsOf(Upto(lines, queued, file, 1 - 1))
      BY <1>3, <2>3, <3>3 DEF Roots, lines
    <3> HIDE DEF e
    <3>5. disk'[file] = Append(lines, e) BY <1>2, <3>2, <3>3, LoadAppend
    <3>6. e.parent \in Known \cup IdsOf(lines) BY <1>6, <3>4
    <3>7. Rooted(lines, Known) BY DEF Roots, lines
    <3> QED BY <1>2, <3>5, <3>6, <3>7, RootedAppend
  <2> QED BY <2>1, <2>2, <2>3
<1>9. ASSUME NEW k \in DOMAIN queued', queued'[k].file = file
      PROVE  IF queued'[k].whole THEN Rooted(queued'[k].lines, Known)
             ELSE queued'[k].lines[1].parent \in
                    Known \cup IdsOf(Upto(disk'[file], queued', file, k - 1))
  <2>1. k + 1 \in DOMAIN queued /\ queued'[k] = queued[k + 1] BY <1>1, <1>3
  <2>2. k \in Nat /\ k >= 1 /\ k - 1 \in 0..Len(Tail(queued)) /\ (k - 1) + 1 = (k + 1) - 1
    <3>1. DOMAIN Tail(queued) = 1..Len(Tail(queued)) /\ Len(Tail(queued)) \in Nat BY <1>3
    <3> QED BY <1>1, <3>1
  <2>3. Upto(disk'[file], queued', file, k - 1) = Upto(lines, queued, file, (k + 1) - 1)
    BY <1>1, <1>4, <1>5, <2>2
  <2> QED BY <1>9, <2>1, <2>3 DEF Roots, lines
<1>10. Settled(file)' = Settled(file)
  BY <1>1, <1>4, <1>5 DEF Settled, lines
<1>11. QueueRooted' BY <1>1, <1>7, <1>9 DEF QueueRooted
<1> QED BY <1>1, <1>7, <1>8, <1>10, <1>11 DEF Roots, QueueRooted

(* The head of the queue is lost.                                            *)
LEMMA RootsFail ==
  ASSUME IdInv, Roots, WriteFails PROVE Roots'
<1> DEFINE lost == IdsOf(Head(queued).lines)
           lines == disk[file]
<1>1. /\ queued # <<>> /\ queued' = Tail(queued) /\ holes' = holes \cup lost
      /\ UNCHANGED <<entries, leaf, flushed, file, record, disk>>
  BY DEF WriteFails, managerVars
<1>2. queued \in Seq(Writes) /\ lines \in Seq(Lines) /\ file \in Files BY DEF IdInv, FilesTypeOK
<1>3. /\ Tail(queued) \in Seq(Writes)
      /\ \A k \in DOMAIN Tail(queued) : k + 1 \in DOMAIN queued /\ Tail(queued)[k] = queued[k + 1]
  BY <1>1, <1>2, OneWriteLess
<1>4. /\ \A k \in 0..Len(Tail(queued)) :
           IdsOf(Upto(lines, queued, file, k + 1)) \subseteq
             IdsOf(Upto(lines, Tail(queued), file, k)) \cup lost
      /\ IdsOf(After(lines, queued, file))
           \subseteq IdsOf(After(lines, Tail(queued), file)) \cup lost
  BY <1>1, <1>2, UptoLoss
<1> HIDE DEF lines, lost
<1>5. Known' = Known \cup lost BY <1>1 DEF Known
<1>6. Rooted(disk'[file'], Known') /\ Rooted(entries', Known')
  BY <1>1, <1>5, RootedMore DEF Roots
<1>7. ASSUME NEW k \in DOMAIN queued', queued'[k].file = file
      PROVE  IF queued'[k].whole THEN Rooted(queued'[k].lines, Known')
             ELSE queued'[k].lines[1].parent \in
                    Known' \cup IdsOf(Upto(lines, queued', file, k - 1))
  <2>1. k + 1 \in DOMAIN queued /\ queued'[k] = queued[k + 1] BY <1>1, <1>3
  <2>2. k \in Nat /\ k >= 1 /\ k - 1 \in 0..Len(Tail(queued)) /\ (k - 1) + 1 = (k + 1) - 1
    <3>1. DOMAIN Tail(queued) = 1..Len(Tail(queued)) /\ Len(Tail(queued)) \in Nat BY <1>3
    <3> QED BY <1>1, <3>1
  <2>3. IdsOf(Upto(lines, queued, file, (k + 1) - 1)) \subseteq
          IdsOf(Upto(lines, queued', file, k - 1)) \cup lost
    BY <1>1, <1>4, <2>2
  <2>4. IF queued'[k].whole THEN Rooted(queued'[k].lines, Known)
        ELSE queued'[k].lines[1].parent \in
               Known \cup IdsOf(Upto(lines, queued, file, (k + 1) - 1))
    BY <1>7, <2>1 DEF Roots, lines
  <2>5. CASE queued'[k].whole BY <1>5, <2>4, <2>5, RootedMore
  <2>6. CASE ~queued'[k].whole BY <1>5, <2>3, <2>4, <2>6
  <2> QED BY <2>5, <2>6
<1>8. IdsOf(Settled(file)) \subseteq IdsOf(Settled(file)') \cup lost
  BY <1>1, <1>4 DEF Settled, lines
<1>9. QueueRooted' BY <1>1, <1>7 DEF QueueRooted, lines
<1>10. RecordRooted' BY <1>1, <1>5, <1>8 DEF Roots, RecordRooted
<1>11. EntriesKnown' BY <1>1, <1>8 DEF Roots, EntriesKnown
<1> QED BY <1>6, <1>9, <1>10, <1>11 DEF Roots, QueueRooted, RecordRooted, EntriesKnown

(* A run record is queued.                                                   *)
LEMMA RootsRecord ==
  ASSUME IdInv, Roots, QueueRecord PROVE Roots'
<1>1. UNCHANGED <<entries, leaf, flushed, file, disk, holes>> /\ record' = NoRecord
  BY DEF QueueRecord, managerVars
<1>2. PICK w \in Writes, e \in Entries :
        /\ queued' = Append(queued, w) /\ w.file = record.file /\ ~w.whole /\ w.lines = <<e>>
        /\ e.parent = record.parent
  BY RecordKeepsIds
<1>3. w.lines[1] = e BY <1>2
<1>4. w.file = file => IF w.whole THEN Rooted(w.lines, Known)
                       ELSE w.lines[1].parent \in Known \cup IdsOf(Settled(file))
  BY <1>2, <1>3 DEF Roots
<1>5. /\ QueueRooted'
      /\ ~(w.file = file /\ w.whole) => IdsOf(Settled(file)) \subseteq IdsOf(Settled(file)')
  BY <1>1, <1>2, <1>4, RootsQueue DEF IdInv
<1>6. Known' = Known BY <1>1 DEF Known
<1>7. 0 \in Known BY DEF Known
<1>8. RecordRooted' BY <1>1, <1>6, <1>7 DEF RecordRooted, NoRecord
<1>9. EntriesKnown' BY <1>1, <1>2, <1>5 DEF Roots, EntriesKnown
<1> QED BY <1>1, <1>5, <1>6, <1>8, <1>9 DEF Roots, QueueRooted, RecordRooted, EntriesKnown

(* A session file is read for a run record.                                  *)
LEMMA RootsRead ==
  ASSUME IdInv, Roots, NEW f \in Files, ReadForRecord(f) PROVE Roots'
<1>1. /\ queued = <<>> /\ record' = [file |-> f, parent |-> LeafOf(Load(disk[f]))]
      /\ UNCHANGED <<entries, leaf, flushed, file, disk, queued, holes>>
  BY DEF ReadForRecord, managerVars, writerVars
<1>2. disk[file] \in Seq(Lines) /\ FileLike(disk[file])
  BY DEF IdInv, FilesTypeOK, FilesSound
<1>3. Settled(file) = disk[file] /\ Settled(file)' = Settled(file)
  BY <1>1, <1>2, AfterNone DEF Settled
<1>4. record'.file = f /\ record'.parent = LeafOf(Load(disk[f])) BY <1>1
<1>5. f = file => record'.parent \in Known \cup IdsOf(disk[file])
  <2>1. LeafOf(Load(disk[file])) = 0 \/ LeafOf(Load(disk[file])) \in Talk(disk[file])
    BY <1>2, LeafTalks
  <2>2. Talk(disk[file]) \subseteq IdsOf(disk[file]) BY IdsAre DEF Talk
  <2> QED BY <1>4, <2>1, <2>2 DEF Known
<1>6. Known' = Known BY <1>1 DEF Known
<1>7. RecordRooted' BY <1>1, <1>3, <1>4, <1>5, <1>6 DEF RecordRooted
<1>8. QueueRooted' /\ EntriesKnown' BY <1>1, <1>3, <1>6 DEF Roots, QueueRooted, EntriesKnown
<1> QED BY <1>1, <1>6, <1>7, <1>8 DEF Roots, QueueRooted, RecordRooted, EntriesKnown

(* The program restarts.                                                     *)
LEMMA RootsRestart ==
  ASSUME IdInv, Roots, Restart PROVE Roots'
<1> DEFINE lines == disk[file]
<1>1. /\ lines \in Seq(Lines) /\ FileLike(lines) /\ file' = file /\ disk' = disk /\ holes' = holes
      /\ entries' = Load(lines) /\ flushed' = (lines # <<>>) /\ record' = NoRecord
      /\ entries' \in Seq(Entries) /\ ToSet(entries') \subseteq ToSet(lines) /\ file # 0
  BY RestartIs, FilesAre
<1>2. Known' = Known /\ 0 \in Known BY <1>1 DEF Known
<1>3. Rooted(lines, Known) /\ Rooted(entries', Known)
  <2>1. Rooted(lines, Known) BY DEF Roots
  <2> QED BY <1>1, <1>2, <2>1, RootedLoad
<1>4. RecordRooted' BY <1>1 DEF RecordRooted, NoRecord
<1>5. CASE queued' = <<>>
  <2>1. DOMAIN queued' = {} BY <1>5
  <2>2. QueueRooted' BY <2>1 DEF QueueRooted
  <2>3. Settled(file)' = lines BY <1>1, <1>5, AfterNone DEF Settled
  <2>4. IdsOf(entries') \subseteq IdsOf(lines) BY <1>1, IdsAre
  <2>5. EntriesKnown' BY <2>3, <2>4 DEF EntriesKnown
  <2> QED BY <1>1, <1>2, <1>3, <1>4, <2>2, <2>5
      DEF Roots, QueueRooted, RecordRooted, EntriesKnown
<1>6. ASSUME Load(lines) = <<>>, NEW w \in Writes, queued' = <<w>>, w.file = file, w.whole,
             w.lines = <<Header>> \o entries'
      PROVE  Roots'
  <2>1. Rooted(w.lines, Known)
    <3>1. Rooted(<<Header>> \o entries', Known) BY <1>1, <1>2, <1>3, RootedHeader
    <3> QED BY <1>6, <3>1
  <2>2. DOMAIN queued' = {1} /\ queued'[1] = w BY <1>6
  <2>3. QueueRooted' BY <1>2, <1>6, <2>1, <2>2 DEF QueueRooted
  <2>4. IdsOf(entries') = {}
    <3>1. DOMAIN entries' = {} BY <1>1, <1>6
    <3> QED BY <3>1 DEF IdsOf
  <2>5. EntriesKnown' BY <2>4 DEF EntriesKnown
  <2> QED BY <1>1, <1>2, <1>3, <1>4, <2>3, <2>5
      DEF Roots, QueueRooted, RecordRooted, EntriesKnown
<1> QED BY <1>5, <1>6, RestartIs

(* A new session is begun.                                                   *)
LEMMA RootsNew ==
  ASSUME IdInv, Roots, NewSession PROVE Roots'
<1>1. /\ file' = file + 1 /\ file' \in Files /\ entries' = Load(<<>>) /\ ~flushed'
      /\ UNCHANGED <<disk, queued, record, holes>>
  BY DEF NewSession, Open, writerVars
<1>2. /\ file \in Nat /\ record \in {NoRecord} \cup [file : Files, parent : 0..MaxEntries]
      /\ record.file <= file
      /\ \A k \in DOMAIN queued : queued[k].file <= file /\ queued[k] \in Writes
      /\ disk[file'] = <<>>
  BY <1>1, FilesAre, EverythingIs DEF IdInv, FilesTypeOK, FilesSound
<1>3. entries' = <<>> BY <1>1 DEF Load
<1>4. Rooted(entries', Known') /\ Rooted(disk'[file'], Known')
  BY <1>1, <1>2, <1>3, RootedMore
<1>5. \A k \in DOMAIN queued : queued[k].file # file'
  <2> SUFFICES ASSUME NEW k \in DOMAIN queued PROVE queued[k].file # file' OBVIOUS
  <2>1. queued[k].file \in Nat BY <1>2, WriteFields, FilesAre
  <2> QED BY <1>1, <1>2, <2>1
<1>6. QueueRooted' BY <1>1, <1>5 DEF QueueRooted
<1>7. record.file # file'
  <2>1. record.file \in Nat BY <1>2, RecordFields, FilesAre
  <2> QED BY <1>1, <1>2, <2>1
<1>8. RecordRooted' /\ EntriesKnown' BY <1>1, <1>7 DEF RecordRooted, EntriesKnown
<1> QED BY <1>4, <1>6, <1>8 DEF Roots, QueueRooted, RecordRooted, EntriesKnown

(* A branch is copied into a new file.                                       *)
LEMMA RootsFork ==
  ASSUME IdInv, Roots, NEW to \in EntryIds, Fork(to) PROVE Roots'
<1> DEFINE es == Load(disk[file])
           path == Branch(es, to)
           copy == Forked(path)
           kept == Unlabelled(path)
<1>1. /\ to \in Forkable /\ to \in IdsOf(es) /\ queued = <<>> /\ queued' = queued
      /\ record' = record
      /\ file \in Nat /\ file' = file + 1
      /\ holes' = holes \cup {e.id : e \in {x \in ToSet(path) : x.kind = "label"}}
  BY ForkIs
<1>2. PICK labels \in Seq(Entries) :
        /\ LabelChain(labels, kept) /\ copy = kept \o labels
        /\ \/ /\ entries' = copy /\ disk'[file'] = <<Header>> \o entries'
              /\ copy \in Seq(Entries)
           \/ entries' = <<>> /\ disk'[file'] = <<>>
  BY ForkIs
<1>3. /\ disk[file] \in Seq(Lines) /\ FileLike(disk[file]) /\ minted \in Nat
      /\ record \in {NoRecord} \cup [file : Files, parent : 0..MaxEntries] /\ record.file <= file
  BY SessionFilesAssumption DEF IdInv, FilesTypeOK, FilesSound
<1>4. to \in AnyId /\ es \in Seq(Entries) /\ path \in Seq(Entries) BY <1>1, ForkedPath
<1>5. 0 \in Known /\ Known \subseteq Known' BY <1>1 DEF Known
<1>6. Rooted(es, Known)
  <2>1. Rooted(disk[file], Known) BY DEF Roots
  <2> QED BY <1>3, <1>5, <2>1, RootedLoad
<1>7. Rooted(path, Known)
  <2> HIDE DEF es
  <2> QED BY <1>4, <1>6, RootedBranch
<1>8. \A e \in ToSet(path) : e.kind \notin EntryKinds \ {"label"} => e.id \in Known'
  <2> HIDE DEF path
  <2> SUFFICES ASSUME NEW e \in ToSet(path), e.kind \notin EntryKinds \ {"label"}
               PROVE  e.id \in Known'
    OBVIOUS
  <2>1. e \in Entries BY <1>4 DEF ToSet
  <2>2. e.kind = "label" BY <2>1, EntryFields
  <2> QED BY <1>1, <2>2 DEF Known
<1> HIDE DEF es, path
<1>9. Rooted(kept, Known') /\ kept \in Seq(Entries)
  BY <1>4, <1>5, <1>7, <1>8, RootedOnly, OnlyElements DEF Unlabelled
<1> HIDE DEF kept, copy
<1>10. Rooted(copy, Known') BY <1>2, <1>3, <1>5, <1>9, RootedChain
<1>11. Rooted(entries', Known') /\ Rooted(disk'[file'], Known')
  <2>1. CASE entries' = copy /\ disk'[file'] = <<Header>> \o entries' /\ copy \in Seq(Entries)
    BY <1>5, <1>10, <2>1, RootedHeader
  <2>2. CASE entries' = <<>> /\ disk'[file'] = <<>> BY <2>2, RootedMore
  <2> QED BY <1>2, <2>1, <2>2
<1>12. record.file # file'
  <2>1. record.file \in Nat BY <1>3, RecordFields, FilesAre
  <2> QED BY <1>1, <1>3, <2>1
<1>13. QueueRooted'
  <2>1. DOMAIN queued' = {} BY <1>1
  <2> QED BY <2>1 DEF QueueRooted
<1>14. EntriesKnown'
  <2>1. disk'[file'] \in Seq(Lines)
    <3>1. disk' \in [Files -> Seq(Lines)] /\ file' \in Files BY ForkIs
    <3> QED BY <3>1
  <2>2. Settled(file)' = disk'[file'] BY <1>1, <2>1, AfterNone DEF Settled
  <2>3. IdsOf(entries') \subseteq IdsOf(disk'[file'])
    <3>1. CASE disk'[file'] = <<Header>> \o entries' /\ entries' \in Seq(Entries)
      <4>1. ToSet(entries') \subseteq ToSet(disk'[file']) BY <3>1, HeaderFirst
      <4> QED BY <4>1, IdsAre
    <3>2. CASE entries' = <<>> /\ disk'[file'] = <<>> BY <3>2
    <3> QED BY <1>2, <3>1, <3>2
  <2> QED BY <2>2, <2>3 DEF EntriesKnown
<1>15. RecordRooted' BY <1>1, <1>12 DEF RecordRooted
<1> QED BY <1>11, <1>13, <1>14, <1>15 DEF Roots, QueueRooted, RecordRooted, EntriesKnown

(* Roots are kept by every step.                                             *)
LEMMA RootsStay ==
  ASSUME IdInv, InEntries, Roots, [FilesNext]_filesVars PROVE Roots'
<1>1. CASE Looks
  BY <1>1 DEF Looks, Roots, Known, Settled
<1> QED BY <1>1, StepCases, RootsAdd, RootsWrite, RootsFail, RootsRecord, RootsRead, RootsRestart,
           RootsNew, RootsFork

(* A session that begins has its entries, and its file has them or nothing.  *)
LEMMA FilesInitRoots == FilesInit => InEntries /\ OnPath /\ Roots
<1> SUFFICES ASSUME FilesInit PROVE InEntries /\ OnPath /\ Roots OBVIOUS
<1>1. /\ entries \in Seq(Entries) /\ file = 1 /\ flushed = (entries # <<>>)
      /\ disk[1] = IF flushed THEN <<Header>> \o entries ELSE <<>>
      /\ queued = <<>> /\ record = NoRecord /\ compacting = NoCompaction
      /\ entries = <<>> \/ \E e \in Entries : entries = <<e>> /\ e.parent = 0
  BY FilesInitIs
<1>2. disk[1] # <<>> /\ Head(disk[1]) = Header => Talk(disk[1]) \subseteq IdsOf(entries) \cup {0}
  BY <1>1, HeaderFirst, TalkIs
<1>3. DOMAIN queued = {} /\ record.file # file BY <1>1 DEF NoRecord
<1>4. InEntries /\ OnPath BY <1>1, <1>2, <1>3 DEF InEntries, OnPath
<1>5. Rooted(entries, Known)
  <2>1. CASE entries = <<>> BY <2>1, RootedMore
  <2>2. ASSUME NEW e \in Entries, entries = <<e>>, e.parent = 0 PROVE Rooted(entries, Known)
    <3> DEFINE none == <<>>
    <3>1. entries = Append(none, e) /\ none \in Seq(Entries) BY <2>2
    <3>2. Rooted(none, Known) BY RootedMore
    <3> HIDE DEF none
    <3>3. Rooted(Append(none, e), Known) BY <2>2, <3>1, <3>2, RootedAppend DEF Known
    <3> QED BY <3>1, <3>3
  <2> QED BY <1>1, <2>1, <2>2
<1>6. Rooted(disk[file], Known)
  <2>1. CASE flushed
    <3>1. disk[file] = <<Header>> \o entries BY <1>1, <2>1
    <3>2. 0 \in Known BY DEF Known
    <3>3. Rooted(<<Header>> \o entries, Known) BY <1>1, <1>5, <3>2, RootedHeader
    <3> QED BY <3>1, <3>3
  <2>2. CASE ~flushed
    <3>1. disk[file] = <<>> BY <1>1, <2>2
    <3> QED BY <3>1, RootedMore
  <2> QED BY <2>1, <2>2
<1>7. flushed => IdsOf(entries) \subseteq IdsOf(Settled(file))
  <2> SUFFICES ASSUME flushed PROVE IdsOf(entries) \subseteq IdsOf(Settled(file)) OBVIOUS
  <2> DEFINE lines == <<Header>> \o entries
  <2>1. disk[file] = lines BY <1>1
  <2>2. lines \in Seq(Lines) /\ ToSet(lines) = {Header} \cup ToSet(entries) BY <1>1, HeaderFirst
  <2> HIDE DEF lines
  <2>3. Settled(file) = lines BY <1>1, <2>1, <2>2, AfterNone DEF Settled
  <2> QED BY <2>2, <2>3, IdsAre
<1> QED BY <1>3, <1>4, <1>5, <1>6, <1>7 DEF Roots

(* The first two layers.                                                     *)
PathInv == IdInv /\ InEntries /\ OnPath /\ Roots

(* A compaction keeps a part of its branch, the file has nothing of the      *)
(* conversation that the session has not, and every branch goes back to its  *)
(* root: together, in every state.                                           *)
THEOREM PathsAlways == FilesSpec => []PathInv
<1>1. FilesInit => PathInv BY FilesInitIds, FilesInitRoots DEF PathInv
<1>2. PathInv /\ [FilesNext]_filesVars => PathInv'
  BY FilesStepIds, InEntriesStays, OnPathStays, RootsStay DEF PathInv
<1> QED BY <1>1, <1>2, PTL DEF FilesSpec

(* Walking parents from any entry ends at the root, at a lost write or at a  *)
(* label a fork left out, and never at an entry that comes later.            *)
THEOREM PathsRootedAlways == FilesSpec => []PathsRooted
<1>1. PathInv => PathsRooted
  <2> SUFFICES ASSUME PathInv, NEW i \in DOMAIN entries
               PROVE  entries[i].parent \in {0} \cup IdsOf(SubSeq(entries, 1, i - 1)) \cup holes
    BY DEF PathsRooted
  <2>1. Rooted(entries, Known) BY DEF PathInv, Roots
  <2> QED BY <2>1 DEF Rooted, Known
<1> QED BY <1>1, PathsAlways, PTL

(* No entry and no leaf goes on from a run record, in memory and in the file *)
(* as it will be (append_custom_entry_to_file's promise).                    *)
THEOREM RecordsBesideAlways == FilesSpec => []RecordsBeside
<1>1. ASSUME IdInv PROVE RecordsBeside
  <2> DEFINE lines == Settled(file)
             lost == {e.id : e \in {x \in ToSet(entries) \cup ToSet(Load(lines)) :
                                      x.kind = "record"}}
  <2>1. /\ disk[file] \in Seq(Lines) /\ queued \in Seq(Writes) /\ file \in Files
    BY <1>1 DEF IdInv, FilesTypeOK
  <2>2. lines \in Seq(Lines) /\ ToSet(lines) \subseteq ToSet(disk[file]) \cup LinesOf(queued)
    BY <2>1, AfterElements DEF Settled
  <2>3. ToSet(lines) \subseteq Everything /\ ToSet(entries) \subseteq Everything
    BY <1>1, <2>1, <2>2, EverythingIs DEF IdInv
  <2> HIDE DEF lines
  <2>4. ToSet(Load(lines)) \subseteq ToSet(lines)
    <3>1. CASE lines # <<>> /\ Head(lines) = Header
      <4>1. Load(lines) = Tail(lines) BY <3>1 DEF Load
      <4>2. \A i \in DOMAIN Tail(lines) : i + 1 \in DOMAIN lines /\ Tail(lines)[i] = lines[i + 1]
        BY <2>2, <3>1
      <4> QED BY <4>1, <4>2 DEF ToSet
    <3>2. CASE ~(lines # <<>> /\ Head(lines) = Header)
      <4>1. Load(lines) = <<>> BY <3>2 DEF Load
      <4>2. DOMAIN Load(lines) = {} BY <4>1
      <4> QED BY <4>2 DEF ToSet
    <3> QED BY <3>1, <3>2
  <2>5. lost \subseteq RecordIds BY <2>3, <2>4 DEF RecordIds
  <2>6. leaf \notin lost /\ \A e \in ToSet(lines) \cup ToSet(entries) : e.parent \notin lost
    BY <1>1, <2>3, <2>5 DEF IdInv, RecordsApart
  <2> QED BY <2>6 DEF RecordsBeside, lines
<1> QED BY <1>1, IdsAlways, PTL

(* A compaction is put on a branch that still has what it keeps, unless the  *)
(* leaf was moved while it was summarized.                                   *)
THEOREM CompactionOnPathAlways == FilesSpec => CompactionOnPath
<1>1. ASSUME PathInv, FilesNext
      PROVE  \A e \in ToSet(entries') \ ToSet(entries) :
               e.kind = "compaction" /\ compacting # NoCompaction /\ compacting' = NoCompaction
                 /\ ~moved
                 => e.ref \in IdsOf(Branch(entries, leaf))
  <2> TAKE e \in ToSet(entries') \ ToSet(entries)
  <2> HAVE e.kind = "compaction" /\ compacting # NoCompaction /\ compacting' = NoCompaction
        /\ ~moved
  <2>1. Adds(e) BY <1>1, NewCompaction DEF PathInv
  <2>2. e.ref = compacting.ref BY <2>1 DEF Adds, Occasion, MessageKinds
  <2> QED BY <1>1, <2>2 DEF PathInv, OnPath, Current
<1> QED BY <1>1, PathsAlways, PTL DEF FilesSpec, CompactionOnPath

-----------------------------------------------------------------------------
(* The file of a session holds its conversation.                             *)

(* What is read back from lines, from none, and from one more.               *)
LEMMA LoadLines ==
  ASSUME NEW lines \in Seq(Lines), Headed(lines)
  PROVE  /\ Load(lines) \in Seq(Lines)
         /\ lines = <<>> => Load(lines) = <<>>
         /\ \A e \in Entries : lines # <<>> =>
              /\ lines \o <<e>> \in Seq(Lines) /\ lines \o <<e>> # <<>> /\ Headed(lines \o <<e>>)
              /\ Load(lines \o <<e>>) = Append(Load(lines), e)
<1>1. CASE lines = <<>>
  <2>1. Load(lines) = <<>> BY <1>1 DEF Load
  <2> QED BY <1>1, <2>1
<1>2. CASE lines # <<>>
  <2>1. Head(lines) = Header BY <1>2 DEF Headed
  <2>2. Load(lines) = Tail(lines) BY <1>2, <2>1 DEF Load
  <2>3. Load(lines) \in Seq(Lines) BY <1>2, <2>2
  <2>4. ASSUME NEW e \in Entries
        PROVE  /\ lines \o <<e>> \in Seq(Lines) /\ lines \o <<e>> # <<>> /\ Headed(lines \o <<e>>)
               /\ Load(lines \o <<e>>) = Append(Load(lines), e)
    <3> DEFINE longer == lines \o <<e>>
    <3>1. /\ longer = Append(lines, e) /\ Append(lines, e) \in Seq(Lines)
          /\ Head(Append(lines, e)) = Header /\ Load(Append(lines, e)) = Append(Load(lines), e)
      BY <1>2, <2>1, LoadAppend
    <3>2. Append(lines, e) # <<>>
      <4>1. Len(Append(lines, e)) = Len(lines) + 1 /\ Len(lines) \in Nat OBVIOUS
      <4> QED BY <4>1
    <3> HIDE DEF longer
    <3>3. longer # <<>> /\ longer \in Seq(Lines) /\ Headed(longer) BY <3>1, <3>2 DEF Headed
    <3> QED BY <3>1, <3>3 DEF longer
  <2> QED BY <1>2, <2>3, <2>4
<1> QED BY <1>1, <1>2

(* A conversation goes on with what is no run record.                        *)
LEMMA ConversationGrows ==
  ASSUME NEW es \in Seq(Lines), NEW e \in Entries
  PROVE  /\ Conversation(es) \in Seq(Lines)
         /\ Conversation(Append(es, e)) = IF e.kind = "record" THEN Conversation(es)
                                          ELSE Append(Conversation(es), e)
         /\ IsPrefix(Conversation(es), Conversation(Append(es, e)))
         /\ \A s \in Seq(Lines) : IsPrefix(s, Conversation(es))
              => IsPrefix(s, Conversation(Append(es, e)))
<1> DEFINE c == Conversation(es)
           d == Conversation(Append(es, e))
<1>0. e \in Lines /\ (e.kind \in EntryKinds \ {"record"} <=> e.kind # "record")
  BY EntryFields DEF Lines
<1>1. c \in Seq(Lines) /\ d = IF e.kind = "record" THEN c ELSE Append(c, e)
  <2> DEFINE kinds == EntryKinds \ {"record"}
  <2>1. e.kind \in kinds <=> e.kind # "record" BY <1>0
  <2> HIDE DEF kinds
  <2>2. e \in Lines BY <1>0
  <2>3. Only(es, kinds) \in Seq(Lines) BY OnlyElements
  <2>4. Only(Append(es, e), kinds) = IF e.kind \in kinds THEN Append(Only(es, kinds), e)
                                     ELSE Only(es, kinds)
    BY <2>2, OnlyAppend
  <2> QED BY <2>1, <2>3, <2>4 DEF Conversation, kinds
<1> HIDE DEF c, d
<1>2. IsPrefix(c, c) /\ IsPrefix(c, c \o <<e>>)
  <2>1. <<e>> \in Seq(Lines) BY <1>0
  <2> QED BY <1>1, <2>1, PrefixConcat
<1>3. Append(c, e) = c \o <<e>> BY <1>1
<1>4. d \in Seq(Lines) /\ IsPrefix(c, d) BY <1>0, <1>1, <1>2, <1>3
<1>5. \A s \in Seq(Lines) : IsPrefix(s, c) => IsPrefix(s, d) BY <1>1, <1>4, PrefixTransitive
<1> QED BY <1>1, <1>4, <1>5 DEF c, d

(* What is read back from a file with its header.                            *)
LEMMA LoadEntries ==
  ASSUME NEW es \in Seq(Entries)
  PROVE  /\ <<Header>> \o es # <<>> /\ Headed(<<Header>> \o es) /\ Load(<<Header>> \o es) = es
         /\ <<Header>> \o es \in Seq(Lines) /\ es \in Seq(Lines)
<1>1. LET lines == <<Header>> \o es
      IN lines # <<>> /\ Head(lines) = Header /\ Load(lines) = es /\ lines \in Seq(Lines)
  BY HeaderFirst
<1>2. es \in Seq(Lines)
  <2>1. Entries \subseteq Lines BY DEF Lines
  <2> QED BY <2>1
<1> QED BY <1>1, <1>2 DEF Headed

(* The empty file is a beginning of any session.                             *)
LEMMA EmptyFile ==
  /\ Headed(<<>>) /\ Load(<<>>) = <<>>
  /\ \A es \in Seq(Lines) : /\ IsPrefix(Conversation(Load(<<>>)), Conversation(es))
                            /\ IsPrefix(Conversation(es), Conversation(es))
<1>1. Load(<<>>) = <<>> BY DEF Load
<1>2. Conversation(<<>>) = <<>> BY OnlyEmpty DEF Conversation
<1>3. ASSUME NEW es \in Seq(Lines)
      PROVE  IsPrefix(<<>>, Conversation(es)) /\ IsPrefix(Conversation(es), Conversation(es))
  <2> DEFINE c == Conversation(es)
             none == <<>>
  <2>1. c \in Seq(Lines) BY OnlyElements DEF Conversation
  <2> HIDE DEF c
  <2>2. none \in Seq(Lines) /\ none \o c = c BY <2>1
  <2> HIDE DEF none
  <2>3. IsPrefix(none, none \o c) /\ IsPrefix(c, c) BY <2>1, <2>2, PrefixConcat
  <2>4. IsPrefix(none, c) BY <2>2, <2>3
  <2> QED BY <2>3, <2>4 DEF c, none
<1> QED BY <1>1, <1>2, <1>3 DEF Headed

(* Lines that hold a session's conversation are a beginning of it.           *)
LEMMA HoldsBegins ==
  ASSUME NEW lines, Headed(lines), NEW es \in Seq(Lines),
         Conversation(Load(lines)) = Conversation(es)
  PROVE  Begins(lines, es)
BY EmptyFile DEF Begins

(* An entry is appended.                                                     *)
LEMMA SyncedAdd ==
  ASSUME IdInv, Synced, NEW e, Adds(e) PROVE Synced'
<1> SUFFICES ASSUME faults' = 0 PROVE Synced' BY DEF Synced
<1>1. /\ entries \in Seq(Entries) /\ e \in Entries /\ entries' = Append(entries, e)
      /\ entries' \in Seq(Entries) /\ UNCHANGED <<file, disk, record, faults>> /\ e.kind # "record"
  BY AddQueues DEF IdInv, FilesTypeOK, Adds
<1>2. /\ queued \in Seq(Writes) /\ disk[file] \in Seq(Lines) /\ flushed \in BOOLEAN
      /\ Len(queued) \in Nat
  BY DEF IdInv, FilesTypeOK
<1> DEFINE lines == disk[file]
           s == Settled(file)
           at(k) == Upto(lines, queued, file, k)
<1>3. /\ entries \in Seq(Lines) /\ entries' \in Seq(Lines)
  BY <1>1, LoadEntries
<1>4. \A k \in 0..Len(queued) : at(k) \in Seq(Lines) /\ Begins(at(k), entries)
  <2>1. \A k \in 0..Len(queued) : Begins(at(k), entries) BY <1>1 DEF Synced
  <2>2. \A k \in 0..Len(queued) : at(k) \in Seq(Lines)
    <3>1. \A k \in 0..Len(queued) : SubSeq(queued, 1, k) \in Seq(Writes) BY <1>2
    <3> QED BY <1>2, <3>1, AfterElements DEF Upto
  <2> QED BY <2>1, <2>2
<1>5. at(Len(queued)) = s /\ s \in Seq(Lines) /\ Begins(s, entries)
  <2>1. SubSeq(queued, 1, Len(queued)) = queued BY <1>2, InitialParts
  <2>2. at(Len(queued)) = s BY <2>1 DEF Upto, Settled
  <2>3. Len(queued) \in 0..Len(queued) BY <1>2
  <2> QED BY <1>4, <2>2, <2>3
<1> HIDE DEF s, at
<1>6. \A k \in 0..Len(queued) : Begins(at(k), entries')
  <2> TAKE k \in 0..Len(queued)
  <2>1. at(k) \in Seq(Lines) /\ Headed(at(k))
        /\ IsPrefix(Conversation(Load(at(k))), Conversation(entries))
    BY <1>4 DEF Begins
  <2>2. Load(at(k)) \in Seq(Lines) BY <2>1, LoadLines
  <2>3. Conversation(Load(at(k))) \in Seq(Lines) BY <2>2, OnlyElements DEF Conversation
  <2>4. IsPrefix(Conversation(Load(at(k))), Conversation(entries'))
    BY <1>1, <1>3, <2>1, <2>3, ConversationGrows
  <2> QED BY <2>1, <2>4 DEF Begins
<1>7. CASE ~flushed' /\ queued' = queued
  <2>1. \A k \in 0..Len(queued') : Begins(Upto(disk[file], queued', file, k), entries')
    BY <1>6, <1>7 DEF at
  <2>2. Settled(file)' = Settled(file) BY <1>1, <1>7 DEF Settled
  <2> QED BY <1>1, <1>7, <2>1, <2>2 DEF Synced
<1>8. ASSUME flushed', NEW w \in Writes, queued' = Append(queued, w), w.file = file,
             IF flushed THEN ~w.whole /\ w.lines = <<e>>
             ELSE w.whole /\ w.lines = <<Header>> \o entries'
      PROVE  Synced'
  <2> DEFINE t == Settled(file)'
  <2>1. /\ \A k \in 0..Len(queued) : Upto(lines, queued', file, k) = at(k)
        /\ t = Written(s, w)
    BY <1>1, <1>2, <1>8, UptoAppend DEF Settled, s, at
  <2>2. t # <<>> /\ t \in Seq(Lines) /\ Headed(t) /\ Conversation(Load(t)) = Conversation(entries')
    <3>1. CASE flushed
      <4>1. t = s \o <<e>> BY <1>8, <2>1, <3>1 DEF Written
      <4>2. s # <<>> /\ Conversation(Load(s)) = Conversation(entries)
        BY <1>1, <3>1 DEF Synced, s
      <4>3. Headed(s) BY <1>5 DEF Begins
      <4>4. t \in Seq(Lines) /\ t # <<>> /\ Headed(t) /\ Load(t) = Append(Load(s), e)
            /\ Load(s) \in Seq(Lines)
        BY <1>1, <1>5, <4>1, <4>2, <4>3, LoadLines
      <4> HIDE DEF t
      <4>5. Conversation(Load(t)) = Append(Conversation(Load(s)), e)
        BY <1>1, <4>4, ConversationGrows
      <4>6. Conversation(entries') = Append(Conversation(entries), e)
        BY <1>1, <1>3, ConversationGrows
      <4> QED BY <4>2, <4>4, <4>5, <4>6
    <3>2. CASE ~flushed
      <4>1. t = <<Header>> \o entries' BY <1>8, <2>1, <3>2 DEF Written
      <4>2. t # <<>> /\ Headed(t) /\ Load(t) = entries' /\ t \in Seq(Lines)
        BY <1>1, <4>1, LoadEntries
      <4> QED BY <4>2
    <3> QED BY <1>2, <3>1, <3>2
  <2> HIDE DEF t
  <2>3. Len(queued') = Len(queued) + 1 /\ queued' \in Seq(Writes) BY <1>2, <1>8
  <2>4. Upto(lines, queued', file, Len(queued')) = t
    <3>1. SubSeq(queued', 1, Len(queued')) = queued' BY <2>3, InitialParts
    <3> QED BY <1>1, <3>1 DEF Upto, Settled, t
  <2>5. Begins(t, entries') BY <1>3, <2>2, HoldsBegins
  <2>6. \A k \in 0..Len(queued') : Begins(Upto(lines, queued', file, k), entries')
    <3> TAKE k \in 0..Len(queued')
    <3>1. CASE k = Len(queued') BY <2>4, <2>5, <3>1
    <3>2. CASE k # Len(queued')
      <4>1. k \in 0..Len(queued) BY <1>2, <2>3, <3>2
      <4> QED BY <1>6, <2>1, <4>1
    <3> QED BY <3>1, <3>2
  <2> QED BY <1>1, <2>2, <2>6 DEF Synced, t
<1> QED BY <1>7, <1>8, AddQueues DEF IdInv

(* The head of the queue is written.                                         *)
LEMMA SyncedWrite ==
  ASSUME IdInv, Synced, WriteOne PROVE Synced'
<1> SUFFICES ASSUME faults' = 0 PROVE Synced' BY DEF Synced
<1> DEFINE w == Head(queued)
           lines == disk[file]
           first == IF w.file = file THEN Written(lines, w) ELSE lines
<1>1. /\ queued # <<>> /\ w \in Writes /\ queued' = Tail(queued)
      /\ UNCHANGED <<entries, leaf, flushed, file, record, faults>>
      /\ \A f \in Files : f # w.file => disk'[f] = disk[f]
      /\ disk'[w.file] = Written(disk[w.file], w)
  BY WriteIs DEF managerVars
<1>2. queued \in Seq(Writes) /\ lines \in Seq(Lines) /\ file \in Files BY DEF IdInv, FilesTypeOK
<1>3. Tail(queued) \in Seq(Writes) /\ Len(Tail(queued)) = Len(queued) - 1 /\ Len(queued) \in Nat
      /\ Len(queued) >= 1
  BY <1>1, <1>2, OneWriteLess
<1>4. disk'[file] = first BY <1>1, <1>2
<1>5. /\ \A k \in 0..Len(Tail(queued)) :
           Upto(first, Tail(queued), file, k) = Upto(lines, queued, file, k + 1)
      /\ After(first, Tail(queued), file) = After(lines, queued, file)
  BY <1>1, <1>2, UptoTail
<1> HIDE DEF w, lines, first
<1>6. Settled(file)' = Settled(file) BY <1>1, <1>4, <1>5 DEF Settled, lines
<1>7. \A k \in 0..Len(queued') : Begins(Upto(disk'[file], queued', file, k), entries)
  <2> TAKE k \in 0..Len(queued')
  <2>1. k \in 0..Len(Tail(queued)) /\ k + 1 \in 0..Len(queued) BY <1>1, <1>3
  <2>2. Upto(disk'[file], queued', file, k) = Upto(lines, queued, file, k + 1)
    BY <1>1, <1>4, <1>5, <2>1
  <2> QED BY <1>1, <2>1, <2>2 DEF Synced, lines
<1> QED BY <1>1, <1>6, <1>7 DEF Synced

(* A run record is queued: the conversation is none the longer.              *)
LEMMA SyncedRecord ==
  ASSUME IdInv, Synced, QueueRecord PROVE Synced'
<1> SUFFICES ASSUME faults' = 0 PROVE Synced' BY DEF Synced
<1>1. UNCHANGED <<entries, leaf, flushed, file, disk, faults>> /\ record' = NoRecord
  BY DEF QueueRecord, managerVars
<1>2. PICK w \in Writes, e \in Entries :
        /\ queued' = Append(queued, w) /\ w.file = record.file /\ ~w.whole /\ w.lines = <<e>>
        /\ e.kind = "record"
  BY RecordKeepsIds
<1>3. /\ queued \in Seq(Writes) /\ disk[file] \in Seq(Lines) /\ Len(queued) \in Nat
      /\ entries \in Seq(Entries) /\ file # 0
  BY FilesAre DEF IdInv, FilesTypeOK
<1> DEFINE lines == disk[file]
           s == Settled(file)
           t == Settled(file)'
           at(k) == Upto(lines, queued, file, k)
<1>4. entries \in Seq(Lines) BY <1>3, LoadEntries
<1>5. /\ \A k \in 0..Len(queued) : Upto(lines, queued', file, k) = at(k)
      /\ at(Len(queued)) = s /\ s \in Seq(Lines)
      /\ t = IF w.file = file THEN Written(s, w) ELSE s
  BY <1>1, <1>2, <1>3, UptoAppend DEF Settled
<1>6. \A k \in 0..Len(queued) : Begins(at(k), entries) BY <1>1 DEF Synced
<1> HIDE DEF at
<1>7. Begins(s, entries)
  <2>1. Len(queued) \in 0..Len(queued) BY <1>3
  <2> QED BY <1>5, <1>6, <2>1
<1>8. flushed => s # <<>> /\ Conversation(Load(s)) = Conversation(entries)
  BY <1>1 DEF Synced
<1>9. record.file = file => s # <<>> BY <1>1 DEF Synced
<1> HIDE DEF s, t
<1>10. Begins(t, entries) /\ (flushed => t # <<>> /\ Conversation(Load(t)) = Conversation(entries))
  <2>1. CASE w.file # file BY <1>5, <1>7, <1>8, <2>1
  <2>2. CASE w.file = file
    <3>1. s # <<>> BY <1>2, <1>9, <2>2
    <3>2. t = s \o <<e>> BY <1>2, <1>5, <2>2 DEF Written
    <3>3. Headed(s) BY <1>7 DEF Begins
    <3>4. t # <<>> /\ Headed(t) /\ Load(t) = Append(Load(s), e) /\ Load(s) \in Seq(Lines)
      BY <1>5, <3>1, <3>2, <3>3, LoadLines
    <3>5. Conversation(Load(t)) = Conversation(Load(s))
      BY <1>2, <3>4, ConversationGrows
    <3> QED BY <1>7, <1>8, <3>4, <3>5 DEF Begins
  <2> QED BY <2>1, <2>2
<1>11. Len(queued') = Len(queued) + 1 /\ queued' \in Seq(Writes) BY <1>2, <1>3
<1>12. Upto(lines, queued', file, Len(queued')) = t
  <2>1. SubSeq(queued', 1, Len(queued')) = queued' BY <1>11, InitialParts
  <2> QED BY <1>1, <2>1 DEF Upto, Settled, t
<1>13. \A k \in 0..Len(queued') : Begins(Upto(lines, queued', file, k), entries)
  <2> TAKE k \in 0..Len(queued')
  <2>1. CASE k = Len(queued') BY <1>10, <1>12, <2>1
  <2>2. CASE k # Len(queued')
    <3>1. k \in 0..Len(queued) BY <1>3, <1>11, <2>2
    <3> QED BY <1>5, <1>6, <3>1
  <2> QED BY <2>1, <2>2
<1> QED BY <1>1, <1>3, <1>10, <1>13 DEF Synced, NoRecord, t

(* The program restarts: the session is what its file holds.                 *)
LEMMA SyncedRestart ==
  ASSUME IdInv, Synced, Restart PROVE Synced'
<1> SUFFICES ASSUME faults' = 0 PROVE Synced' BY DEF Synced
<1> DEFINE lines == disk[file]
<1>1. /\ lines \in Seq(Lines) /\ file' = file /\ UNCHANGED <<disk, faults>>
      /\ entries' = Load(lines) /\ flushed' = (lines # <<>>) /\ record' = NoRecord
      /\ entries' \in Seq(Entries) /\ file # 0
  BY RestartIs, FilesAre
<1>2. Headed(lines)
  <2>1. queued \in Seq(Writes) /\ Len(queued) \in Nat BY DEF IdInv, FilesTypeOK
  <2>2. SubSeq(queued, 1, 0) = <<>> BY <2>1, InitialParts
  <2>3. Upto(lines, queued, file, 0) = lines BY <1>1, <2>2, AfterNone DEF Upto
  <2>4. 0 \in 0..Len(queued) BY <2>1
  <2> QED BY <1>1, <2>3, <2>4 DEF Synced, Begins
<1>3. entries' \in Seq(Lines) BY <1>1, LoadEntries
<1>4. Begins(lines, entries') BY <1>1, <1>2, <1>3, HoldsBegins
<1> HIDE DEF lines
<1>5. CASE queued' = <<>>
  <2>1. Len(queued') = 0 /\ queued' \in Seq(Writes) BY <1>5
  <2>2. \A k \in 0..Len(queued') : k = 0 BY <2>1
  <2>3. SubSeq(queued', 1, 0) = <<>> BY <2>1, InitialParts
  <2>4. Upto(lines, queued', file, 0) = lines BY <1>1, <2>3, AfterNone DEF Upto
  <2>5. Settled(file)' = lines BY <1>1, <1>5, AfterNone DEF Settled, lines
  <2>6. \A k \in 0..Len(queued') : Begins(Upto(lines, queued', file, k), entries')
    BY <1>4, <2>2, <2>4
  <2> QED BY <1>1, <2>5, <2>6 DEF Synced, NoRecord, lines
<1>6. ASSUME Load(lines) = <<>>, NEW w \in Writes, queued' = <<w>>, w.file = file, w.whole,
             w.lines = <<Header>> \o entries'
      PROVE  Synced'
  <2> DEFINE t == <<Header>> \o entries'
             none == <<>>
  <2>1. t # <<>> /\ Headed(t) /\ Load(t) = entries' /\ t \in Seq(Lines) BY <1>1, LoadEntries
  <2>2. Begins(t, entries') BY <1>3, <2>1, HoldsBegins
  <2>3. w.lines = t BY <1>6
  <2>4. none \in Seq(Writes) /\ queued' = Append(none, w) /\ Len(none) = 0 BY <1>6
  <2> HIDE DEF t, none
  <2>5. Upto(lines, queued', file, 0) = lines
    <3>1. lines \in Seq(Lines) BY <1>1 DEF lines
    <3>2. queued' \in Seq(Writes) BY <2>4
    <3>3. SubSeq(queued', 1, 0) = <<>> BY <3>2, InitialParts
    <3> QED BY <3>1, <3>3, AfterNone DEF Upto
  <2>12. After(lines, queued', file) = Written(lines, w)
    <3>1. lines \in Seq(Lines) BY <1>1 DEF lines
    <3>2. After(lines, Append(none, w), file)
            = IF w.file = file THEN Written(After(lines, none, file), w)
                                                ELSE After(lines, none, file)
      BY <2>4, <3>1, AfterAppend
    <3>3. After(lines, none, file) = lines BY <3>1, AfterNone DEF none
    <3> QED BY <1>6, <2>4, <3>2, <3>3
  <2>6. After(lines, queued', file) = t BY <1>6, <2>3, <2>12 DEF Written
  <2>7. queued' \in Seq(Writes) /\ Len(queued') = 1 BY <1>6
  <2>8. Upto(lines, queued', file, 1) = t
    <3>1. SubSeq(queued', 1, Len(queued')) = queued' BY <2>7, InitialParts
    <3> QED BY <2>6, <2>7, <3>1 DEF Upto
  <2>9. Upto(lines, queued', file, 0) = lines BY <2>5
  <2>10. \A k \in 0..Len(queued') : Begins(Upto(lines, queued', file, k), entries')
    <3> TAKE k \in 0..Len(queued')
    <3>1. k = 0 \/ k = 1 BY <2>7
    <3> QED BY <1>4, <2>2, <2>8, <2>9, <3>1
  <2>11. Settled(file)' = t BY <1>1, <2>6 DEF Settled, lines
  <2> QED BY <1>1, <2>1, <2>10, <2>11 DEF Synced, NoRecord, lines
<1> QED BY <1>5, <1>6, RestartIs DEF lines

(* Another file is opened, whose writes are yet to come.                     *)
LEMMA SyncedOpen ==
  ASSUME file' \in Nat, NEW lines \in Seq(Lines), disk'[file'] = lines, queued' \in Seq(Writes),
         \A k \in DOMAIN queued' : queued'[k].file # file', record'.file # file',
         entries' \in Seq(Entries), flushed' = (lines # <<>>),
         (lines = <<>> /\ entries' = <<>>) \/ lines = <<Header>> \o entries'
  PROVE  Synced'
<1>1. \A k \in 0..Len(queued') : Upto(lines, queued', file', k) = lines
  <2> TAKE k \in 0..Len(queued')
  <2> DEFINE q == queued'
             s == SubSeq(q, 1, k)
  <2>1. q \in Seq(Writes) /\ k \in Nat /\ k <= Len(q) /\ Len(q) \in Nat OBVIOUS
  <2>2. \A j \in DOMAIN q : q[j].file # file' OBVIOUS
  <2> HIDE DEF q
  <2>3. s \in Seq(Writes) /\ DOMAIN s = 1..k /\ \A j \in 1..k : s[j] = q[j] /\ j \in DOMAIN q
    BY <2>1
  <2>4. \A j \in DOMAIN s : s[j].file # file' BY <2>2, <2>3
  <2> HIDE DEF s
  <2>5. After(lines, s, file') = lines BY <2>3, <2>4, AfterOther
  <2> QED BY <2>5 DEF Upto, s, q
<1>2. Settled(file)' = lines BY AfterOther DEF Settled
<1>3. entries' \in Seq(Lines) BY LoadEntries
<1>4. Headed(lines) /\ Load(lines) = entries' BY LoadEntries, EmptyFile
<1>5. Begins(lines, entries') BY <1>3, <1>4, HoldsBegins
<1> QED BY <1>1, <1>2, <1>4, <1>5 DEF Synced

(* The file of the session has what the session has as long as no write      *)
(* failed.                                                                   *)
LEMMA SyncedStays ==
  ASSUME IdInv, Synced, [FilesNext]_filesVars PROVE Synced'
<1>0. /\ faults \in Nat /\ file \in Nat /\ queued \in Seq(Writes)
      /\ record \in {NoRecord} \cup [file : Files, parent : 0..MaxEntries] /\ record.file <= file
      /\ \A k \in DOMAIN queued : queued[k].file <= file /\ queued[k] \in Writes
      /\ \A f \in Files : disk[f] \in Seq(Lines)
  BY SessionFilesAssumption, FilesAre, EverythingIs DEF IdInv, FilesTypeOK, FilesSound
<1>1. record.file # file + 1 /\ \A k \in DOMAIN queued : queued[k].file # file + 1
  <2>1. record.file \in Nat BY <1>0, RecordFields, FilesAre
  <2>2. \A k \in DOMAIN queued : queued[k].file \in Nat BY <1>0, WriteFields, FilesAre
  <2> QED BY <1>0, <2>1, <2>2
<1>2. CASE WriteFails
  <2>1. faults' = faults + 1 BY <1>2 DEF WriteFails
  <2> QED BY <1>0, <2>1 DEF Synced
<1>3. ASSUME NEW f \in Files, ReadForRecord(f) PROVE Synced'
  <2>1. /\ queued = <<>> /\ Answered(Load(disk[f]))
        /\ record' = [file |-> f, parent |-> LeafOf(Load(disk[f]))]
        /\ UNCHANGED <<entries, leaf, flushed, file, disk, queued, faults>>
    BY <1>3 DEF ReadForRecord, managerVars, writerVars
  <2>2. Settled(file)' = Settled(file) /\ Settled(f) = disk[f]
    BY <1>0, <2>1, AfterNone DEF Settled
  <2>3. disk[f] # <<>>
    <3> SUFFICES ASSUME disk[f] = <<>> PROVE FALSE OBVIOUS
    <3>1. Load(disk[f]) = <<>> BY DEF Load
    <3>2. DOMAIN Load(disk[f]) = {} BY <3>1
    <3> QED BY <2>1, <3>2 DEF Answered
  <2>4. record'.file = file => Settled(file)' # <<>> BY <2>1, <2>2, <2>3
  <2> QED BY <2>1, <2>2, <2>4 DEF Synced
<1>4. CASE NewSession
  <2> DEFINE none == <<>>
  <2>1. /\ file' = file + 1 /\ file' \in Files /\ entries' = Load(none) /\ flushed' = (none # <<>>)
        /\ UNCHANGED <<disk, queued, record>>
    BY <1>4 DEF NewSession, Open, writerVars
  <2>2. disk[file'] = none
    <3>1. file' > file BY <1>0, <2>1
    <3> QED BY <2>1, <3>1 DEF IdInv, FilesSound
  <2>3. entries' = none /\ none \in Seq(Entries) /\ none \in Seq(Lines) BY <2>1 DEF Load
  <2>4. file' \in Nat BY <2>1, FilesAre
  <2>5. none = <<>> OBVIOUS
  <2> HIDE DEF none
  <2> QED BY <1>0, <1>1, <2>1, <2>2, <2>3, <2>4, <2>5, SyncedOpen
<1>5. ASSUME NEW to \in EntryIds, Fork(to) PROVE Synced'
  <2>1. /\ file' = file + 1 /\ file + 1 \in Files /\ queued' = queued /\ record' = record
        /\ disk' \in [Files -> Seq(Lines)]
    BY <1>5, ForkIs
  <2>2. /\ entries' \in Seq(Entries) /\ flushed' = (disk'[file'] # <<>>)
        /\ \/ disk'[file'] = <<Header>> \o entries'
           \/ disk'[file'] = <<>> /\ entries' = <<>>
    <3>1. \/ flushed' /\ disk'[file'] = <<Header>> \o entries' /\ entries' \in Seq(Entries)
          \/ ~flushed' /\ disk'[file'] = <<>> /\ entries' = <<>>
      BY <1>5, ForkIs
    <3>2. flushed' \in BOOLEAN BY <1>5, ForkIs
    <3>3. CASE flushed' /\ disk'[file'] = <<Header>> \o entries' /\ entries' \in Seq(Entries)
      <4>1. disk'[file'] # <<>> BY <3>3, LoadEntries
      <4> QED BY <3>2, <3>3, <4>1
    <3>4. CASE ~flushed' /\ disk'[file'] = <<>> /\ entries' = <<>>
      BY <3>2, <3>4
    <3> QED BY <3>1, <3>3, <3>4
  <2> DEFINE lines == disk'[file']
  <2>3. lines \in Seq(Lines) /\ file' \in Nat BY <2>1, FilesAre
  <2>4. disk'[file'] = lines OBVIOUS
  <2> HIDE DEF lines
  <2> QED BY <1>0, <1>1, <2>1, <2>2, <2>3, <2>4, SyncedOpen
<1>6. CASE Looks BY <1>6 DEF Looks, Synced, Settled
<1> QED BY <1>2, <1>3, <1>4, <1>5, <1>6, StepCases, SyncedAdd, SyncedWrite, SyncedRecord,
      SyncedRestart

(* The file of a session that begins, if there is one, holds its entries.    *)
LEMMA FilesInitSynced == FilesInit => Synced
<1> SUFFICES ASSUME FilesInit PROVE Synced OBVIOUS
<1>1. /\ entries \in Seq(Entries) /\ file = 1 /\ flushed = (entries # <<>>)
      /\ disk[1] = IF flushed THEN <<Header>> \o entries ELSE <<>>
      /\ queued = <<>> /\ record = NoRecord
  BY FilesInitIs
<1> DEFINE lines == disk[file]
<1>2. /\ Headed(lines) /\ Load(lines) = entries /\ lines \in Seq(Lines) /\ entries \in Seq(Lines)
      /\ flushed => lines # <<>>
  <2>1. CASE flushed
    <3>1. lines = <<Header>> \o entries BY <1>1, <2>1
    <3> QED BY <1>1, <3>1, LoadEntries
  <2>2. CASE ~flushed
    <3>1. lines = <<>> /\ entries = <<>>
      <4>1. entries # <<>> => flushed BY <1>1
      <4> QED BY <1>1, <2>2, <4>1
    <3>2. <<>> \in Seq(Lines) OBVIOUS
    <3> QED BY <2>2, <3>1, <3>2, EmptyFile
  <2> QED BY <2>1, <2>2
<1> HIDE DEF lines
<1>3. Begins(lines, entries) BY <1>2, HoldsBegins
<1>4. Settled(file) = lines BY <1>1, <1>2, AfterNone DEF Settled, lines
<1>5. \A k \in 0..Len(queued) : Upto(lines, queued, file, k) = lines
  <2>1. Len(queued) = 0 /\ queued \in Seq(Writes) BY <1>1
  <2>2. SubSeq(queued, 1, 0) = <<>> BY <2>1, InitialParts
  <2>3. Upto(lines, queued, file, 0) = lines BY <1>2, <2>2, AfterNone DEF Upto
  <2>4. \A k \in 0..Len(queued) : k = 0 BY <2>1
  <2> QED BY <2>3, <2>4
<1>6. record.file # file BY <1>1 DEF NoRecord
<1> QED BY <1>2, <1>3, <1>4, <1>5, <1>6 DEF Synced, lines

(* The first three layers.                                                   *)
FileInv == PathInv /\ Synced

(* A session's file holds a beginning of its conversation however much of    *)
(* its queue is written, and all of it once all is: append_entry and persist.*)
THEOREM FileAlways == FilesSpec => []FileInv
<1>1. FilesInit => Synced BY FilesInitSynced
<1>2. PathInv /\ Synced /\ [FilesNext]_filesVars => Synced' BY SyncedStays DEF PathInv
<1> QED BY <1>1, <1>2, PathsAlways, PTL DEF FilesSpec, FileInv

(* The file holds the whole conversation and nothing else of it, and is a    *)
(* tree whose records nothing goes on from.                                  *)
THEOREM FileHoldsSessionAlways == FilesSpec => []FileHoldsSession
<1>1. FileInv /\ RecordsBeside /\ PathsRooted => FileHoldsSession
  <2> SUFFICES ASSUME FileInv, RecordsBeside, PathsRooted, faults = 0, Answered(entries)
               PROVE  Conversation(Load(Settled(file))) = Conversation(entries)
    BY DEF FileHoldsSession
  <2>1. flushed BY DEF FileInv, PathInv, IdInv, FilesTypeOK
  <2> QED BY <2>1 DEF FileInv, Synced
<1> QED BY <1>1, FileAlways, RecordsBesideAlways, PathsRootedAlways, PTL

(* A restart at any moment, with any part of the queue lost, finds the       *)
(* conversation as it was at an earlier moment, and no other step takes      *)
(* anything of it back.                                                      *)
THEOREM RestartFindsPrefixAlways == FilesSpec => RestartFindsPrefix
<1> DEFINE Onward == \/ IsPrefix(Conversation(entries), Conversation(entries'))
                     \/ IsPrefix(Conversation(entries'), Conversation(entries))
<1>1. ASSUME FileInv, [FilesNext]_filesVars, file' = file, faults = 0 PROVE Onward
  <2>0. /\ IdInv /\ entries \in Seq(Entries) /\ entries \in Seq(Lines)
        /\ queued \in Seq(Writes) /\ Len(queued) \in Nat /\ disk[file] \in Seq(Lines)
    BY <1>1, LoadEntries DEF FileInv, PathInv, IdInv, FilesTypeOK
  <2>1. ASSUME NEW e, Adds(e) PROVE Onward
    <3>1. e \in Entries /\ entries' = Append(entries, e) BY <2>0, <2>1, AddQueues DEF Adds, IdInv
    <3> QED BY <2>0, <3>1, ConversationGrows
  <2>2. ASSUME entries' = entries PROVE Onward BY <2>0, <2>2, EmptyFile
  <2>3. CASE Restart
    <3>1. entries' = Load(disk[file]) BY <2>0, <2>3, RestartIs
    <3>2. SubSeq(queued, 1, 0) = <<>> BY <2>0, InitialParts
    <3>3. Upto(disk[file], queued, file, 0) = disk[file] BY <2>0, <3>2, AfterNone DEF Upto
    <3>4. 0 \in 0..Len(queued) BY <2>0
    <3>5. Begins(disk[file], entries) BY <1>1, <3>3, <3>4 DEF FileInv, Synced
    <3> QED BY <3>1, <3>5 DEF Begins
  <2>4. CASE WriteOne BY <2>2, <2>4 DEF WriteOne, managerVars
  <2>5. CASE WriteFails BY <2>2, <2>5 DEF WriteFails, managerVars
  <2>6. ASSUME NEW f \in Files, ReadForRecord(f) PROVE Onward
    BY <2>2, <2>6 DEF ReadForRecord, managerVars
  <2>7. CASE QueueRecord BY <2>2, <2>7 DEF QueueRecord, managerVars
  <2>9. CASE NewSession
    <3>1. file' = file + 1 BY <2>9 DEF NewSession, Open
    <3>2. file \in Nat BY <2>0, FilesAre DEF IdInv, FilesTypeOK
    <3> QED BY <1>1, <3>1, <3>2
  <2>10. ASSUME NEW to \in EntryIds, Fork(to) PROVE Onward
    <3>1. file' = file + 1 BY <2>0, <2>10, ForkIs
    <3>2. file \in Nat BY <2>0, FilesAre DEF IdInv, FilesTypeOK
    <3> QED BY <1>1, <3>1, <3>2
  <2>11. CASE Looks BY <2>2, <2>11 DEF Looks
  <2> QED BY <1>1, <2>0, <2>1, <2>3, <2>4, <2>5, <2>6, <2>7, <2>9, <2>10, <2>11, StepCases
<1>2. FileInv /\ [FilesNext]_filesVars => [file' = file /\ faults = 0 => Onward]_filesVars
  BY <1>1
<1> QED BY <1>2, FileAlways, PTL DEF FilesSpec, RestartFindsPrefix

-----------------------------------------------------------------------------
(* What the model is shown.                                                  *)

(* The first that is picked comes no later than any that is.                 *)
LEMMA OnlyFirst ==
  ASSUME NEW S, NEW path \in Seq(S), NEW kinds, NEW k \in DOMAIN path, path[k].kind \in kinds
  PROVE  /\ Only(path, kinds) # <<>>
         /\ \E j \in 1..k : Only(path, kinds)[1] = path[j] /\ path[j].kind \in kinds
<1> DEFINE First(s, i) == /\ Only(s, kinds) # <<>>
                          /\ \E j \in 1..i : Only(s, kinds)[1] = s[j] /\ s[j].kind \in kinds
           P(s) == \A i \in DOMAIN s : s[i].kind \in kinds => First(s, i)
           T == {s \in Seq(S) : P(s)}
<1>1. <<>> \in T
  <2> DEFINE none == <<>>
  <2>1. none \in Seq(S) /\ DOMAIN none = {} OBVIOUS
  <2> HIDE DEF none
  <2>2. P(none) BY <2>1
  <2> QED BY <2>1, <2>2 DEF none
<1>2. ASSUME NEW s \in T, NEW e \in S PROVE Append(s, e) \in T
  <2> DEFINE longer == Append(s, e)
             o == Only(s, kinds)
             p == Only(longer, kinds)
  <2>1. s \in Seq(S) /\ P(s) OBVIOUS
  <2>2. /\ longer \in Seq(S) /\ DOMAIN longer = 1..(Len(s) + 1) /\ DOMAIN s = 1..Len(s)
        /\ Len(s) \in Nat /\ longer[Len(s) + 1] = e /\ \A i \in 1..Len(s) : longer[i] = s[i]
    BY <2>1
  <2>3. o \in Seq(S) /\ ToSet(o) = {x \in ToSet(s) : x.kind \in kinds} BY <2>1, OnlyElements
  <2>4. p = IF e.kind \in kinds THEN Append(o, e) ELSE o BY <2>1, OnlyAppend
  <2> HIDE DEF longer, o, p
  <2>5. o # <<>> => p # <<>> /\ p[1] = o[1] BY <2>3, <2>4, SMTT(30)
  <2>6. ASSUME NEW i \in 1..(Len(s) + 1), longer[i].kind \in kinds
        PROVE  p # <<>> /\ \E j \in 1..i : p[1] = longer[j] /\ longer[j].kind \in kinds
    <3>1. CASE i \in 1..Len(s)
      <4>1. First(s, i) BY <2>1, <2>2, <2>6, <3>1
      <4>2. PICK j \in 1..i : o[1] = s[j] /\ s[j].kind \in kinds BY <4>1 DEF o
      <4>3. longer[j] = s[j]
        <5>1. j \in 1..Len(s) BY <2>2, <3>1
        <5> QED BY <2>2, <5>1
      <4> QED BY <2>5, <4>1, <4>2, <4>3 DEF o
    <3>2. CASE i = Len(s) + 1
      <4>1. e.kind \in kinds /\ p = Append(o, e) BY <2>2, <2>4, <2>6, <3>2
      <4>2. CASE o = <<>>
        <5>1. p # <<>> /\ p[1] = e BY <4>1, <4>2
        <5>2. i \in 1..i BY <2>2, <3>2
        <5> QED BY <2>2, <2>6, <3>2, <5>1, <5>2
      <4>3. CASE o # <<>>
        <5>1. p # <<>> /\ p[1] = o[1] BY <2>5, <4>3
        <5>2. o[1] \in ToSet(o)
          <6>1. 1 \in DOMAIN o BY <2>3, <4>3
          <6> QED BY <6>1 DEF ToSet
        <5>3. o[1] \in ToSet(s) /\ o[1].kind \in kinds BY <2>3, <5>2
        <5>4. PICK j \in 1..Len(s) : s[j] = o[1] BY <2>2, <5>3 DEF ToSet
        <5>5. j \in 1..i BY <2>2, <3>2, <5>4
        <5> QED BY <2>2, <5>1, <5>3, <5>4, <5>5
      <4> QED BY <4>2, <4>3
    <3> QED BY <2>2, <3>1, <3>2
  <2>7. P(longer) BY <2>2, <2>6 DEF p
  <2> HIDE DEF P
  <2> QED BY <2>2, <2>7 DEF longer
<1>3. T \subseteq Seq(S) OBVIOUS
<1>4. path \in T
  <2> HIDE DEF T
  <2>1. Seq(S) \subseteq T BY <1>1, <1>2, <1>3, SeqInduct
  <2> QED BY <2>1
<1> QED BY <1>4

(* What is shown of a path, and what is before it.                           *)
LEMMA ShownIs ==
  ASSUME NEW p \in Seq(Entries), NEW r \in 1..Len(p)
  PROVE  /\ Shown(p, r) \in Seq(Entries)
         /\ Only(SubSeq(p, 1, r - 1), InContext) \in Seq(Entries)
         /\ Only(p, InContext) = Only(SubSeq(p, 1, r - 1), InContext) \o Shown(p, r)
<1>1. Len(p) \in Nat /\ r \in Nat /\ r >= 1 /\ r <= Len(p) /\ (r - 1) + 1 = r
      /\ \A i \in 1..Len(p) : p[i] \in Entries
  OBVIOUS
<1>2. SubSeq(p, 1, r - 1) \in Seq(Entries) /\ SubSeq(p, r, Len(p)) \in Seq(Entries)
  BY <1>1, SubSeqProperties
<1>3. SubSeq(p, 1, r - 1) \o SubSeq(p, r, Len(p)) = SubSeq(p, 1, Len(p))
  <2>1. 1 \in 1..(Len(p) + 1) /\ r - 1 \in 0..Len(p) /\ Len(p) \in (r - 1)..Len(p) BY <1>1
  <2>2. 1 - 1 = 0 OBVIOUS
  <2>3. SubSeq(p, 1, r - 1) \o SubSeq(p, (r - 1) + 1, Len(p)) = SubSeq(p, 1, Len(p))
    BY <2>1, <2>2, ConcatAdjacentSubSeq
  <2> QED BY <1>1, <2>3
<1>4. SubSeq(p, 1, Len(p)) = p BY SubSeqFull
<1> DEFINE s == SubSeq(p, 1, r - 1)
           t == SubSeq(p, r, Len(p))
           shown == InContext
<1>5. s \in Seq(Entries) /\ t \in Seq(Entries) BY <1>2
<1>6. s \o t = p BY <1>3, <1>4
<1> HIDE DEF s, t, shown
<1>7. Only(s \o t, shown) = Only(s, shown) \o Only(t, shown) BY <1>5, OnlyConcat
<1>8. Only(s, shown) \in Seq(Entries) /\ Only(t, shown) \in Seq(Entries)
  BY <1>5, OnlyElements
<1> QED BY <1>6, <1>7, <1>8 DEF Shown, s, t, shown

(* Showing from the first place on shows all.                                *)
LEMMA ShownAll ==
  ASSUME NEW p \in Seq(Entries) PROVE Shown(p, 1) = Only(p, InContext)
BY SubSeqFull DEF Shown

(* One more entry is shown if it is a message or a summary.                  *)
LEMMA ShownAppend ==
  ASSUME NEW p \in Seq(Entries), NEW e \in Entries, NEW r \in 1..Len(p)
  PROVE  Shown(Append(p, e), r) = IF e.kind \in InContext THEN Append(Shown(p, r), e)
                                  ELSE Shown(p, r)
<1> DEFINE q == Append(p, e)
           n == Len(p)
           s == SubSeq(p, r, n)
<1>1. /\ q \in Seq(Entries) /\ Len(q) = n + 1 /\ q[n + 1] = e /\ q = p \o <<e>> /\ n \in Nat
      /\ r \in Nat /\ r >= 1 /\ r <= n /\ <<e>> \in Seq(Entries)
      /\ \A i \in 1..n : p[i] \in Entries
  OBVIOUS
<1>2. s \in Seq(Entries) BY <1>1, SubSeqProperties
<1> HIDE DEF q
<1>3. SubSeq(q, r, n) = s
  <2>1. n \in 1..n BY <1>1
  <2>2. SubSeq(p \o <<e>>, r, n) = SubSeq(p, r, n) BY <1>1, <2>1, SubSeqOfConcat1
  <2> QED BY <1>1, <2>2
<1>4. SubSeq(q, r, n + 1) = SubSeq(q, r, (n + 1) - 1) \o <<q[n + 1]>>
  <2>1. r \in 1..Len(q) /\ n + 1 \in r..Len(q) BY <1>1
  <2> QED BY <1>1, <2>1, SubSeqRecursiveSecond
<1>5. (n + 1) - 1 = n BY <1>1
<1>6. SubSeq(q, r, Len(q)) = s \o <<e>> BY <1>1, <1>3, <1>4, <1>5
<1> HIDE DEF s
<1>7. SubSeq(q, r, Len(q)) = Append(s, e) BY <1>2, <1>6
<1>8. Only(Append(s, e), InContext) = IF e.kind \in InContext THEN Append(Only(s, InContext), e)
                                      ELSE Only(s, InContext)
  BY <1>2, OnlyAppend
<1> QED BY <1>7, <1>8 DEF Shown, s, q

(* A tool result can only be appended behind a call or another result.       *)
Expected(p, e) ==
  LET said == Only(p, InContext)
  IN e.kind = "tool" => said # <<>> /\ Last(said).kind \in {"assistant", "tool"}

(* What is kept of a path is still kept of a longer one.                     *)
LEMMA KeptAppend ==
  ASSUME NEW p \in Seq(Entries), NEW e \in Entries, Expected(p, e), NEW ref,
         NEW n \in 0..Len(p), NEW m \in n..(Len(p) + 1), KeptAt(p, ref, n)
  PROVE  KeptAt(Append(p, e), ref, m)
<1>1. PICK r \in 1..n : p[r].id = ref /\ Keeps(p, r) BY DEF KeptAt
<1>2. r \in 1..Len(p) /\ r \in 1..m /\ Append(p, e)[r] = p[r] OBVIOUS
<1> DEFINE o == Only(p, InContext)
           s == Shown(p, r)
<1>3. o \in Seq(Entries) /\ s \in Seq(Entries)
  BY <1>2, ShownIs, OnlyElements
<1>4. Only(Append(p, e), InContext) = IF e.kind \in InContext THEN Append(o, e) ELSE o
  BY OnlyAppend
<1>5. Shown(Append(p, e), r) = IF e.kind \in InContext THEN Append(s, e) ELSE s
  BY <1>2, ShownAppend
<1>6. /\ s # <<>> => s[1].kind # "tool" /\ Append(s, e)[1] = s[1]
      /\ o # <<>> => s # <<>>
      /\ e.kind = "tool" => o # <<>>
      /\ Append(s, e) # <<>>
      /\ s = <<>> => Append(s, e)[1] = e
  <2>1. /\ s # <<>> => s[1].kind # "tool"
        /\ o # <<>> => s # <<>>
        /\ e.kind = "tool" => o # <<>>
    BY <1>1 DEF Keeps, Expected
  <2> HIDE DEF s, o
  <2> QED BY <1>3, <2>1, SMTT(30)
<1> HIDE DEF s, o
<1>7. Keeps(Append(p, e), r)
  <2>1. CASE e.kind \in InContext
    <3>1. Append(s, e)[1].kind # "tool" BY <1>6
    <3> QED BY <1>4, <1>5, <1>6, <2>1, <3>1 DEF Keeps
  <2>2. CASE e.kind \notin InContext BY <1>4, <1>5, <1>6, <2>2 DEF Keeps
  <2> QED BY <2>1, <2>2
<1> QED BY <1>1, <1>2, <1>7 DEF KeptAt

(* In what is shown, one more entry follows what it must.                    *)
LEMMA ToldAppend ==
  ASSUME NEW p \in Seq(Entries), NEW e \in Entries, Expected(p, e), Told(Only(p, InContext))
  PROVE  Told(Only(Append(p, e), InContext))
<1> DEFINE o == Only(p, InContext)
           n == Len(o)
<1>1. o \in Seq(Entries) BY OnlyElements
<1>2. Only(Append(p, e), InContext) = IF e.kind \in InContext THEN Append(o, e) ELSE o
  BY OnlyAppend
<1>3. Told(o) OBVIOUS
<1>4. e.kind = "tool" => o # <<>> /\ Last(o).kind \in {"assistant", "tool"} BY DEF Expected
<1> HIDE DEF o
<1>5. /\ DOMAIN Append(o, e) = 1..(n + 1) /\ n \in Nat /\ DOMAIN o = 1..n
      /\ Append(o, e)[n + 1] = e /\ \A i \in 1..n : Append(o, e)[i] = o[i]
  BY <1>1
<1>6. Told(Append(o, e))
  <2> SUFFICES ASSUME NEW i \in 1..(n + 1), Append(o, e)[i].kind = "tool"
               PROVE  i > 1 /\ Append(o, e)[i - 1].kind \in {"assistant", "tool"}
    BY <1>5 DEF Told
  <2>1. CASE i \in 1..n
    <3>1. i > 1 /\ o[i - 1].kind \in {"assistant", "tool"} BY <1>3, <1>5, <2>1 DEF Told
    <3>2. i - 1 \in 1..n BY <1>5, <2>1, <3>1
    <3> QED BY <1>5, <3>1, <3>2
  <2>2. CASE i = n + 1
    <3>1. o # <<>> /\ Last(o).kind \in {"assistant", "tool"} BY <1>4, <1>5, <2>2
    <3>2. n \in 1..n /\ i > 1 /\ i - 1 = n
      <4>1. n # 0 BY <1>1, <3>1
      <4> QED BY <1>5, <2>2, <4>1
    <3>3. Last(o) = o[n] BY DEF Last
    <3> QED BY <1>5, <3>1, <3>2, <3>3
  <2> QED BY <1>5, <2>1, <2>2
<1> QED BY <1>2, <1>3, <1>6 DEF o

(* The last compaction of a path with one more entry.                        *)
LEMMA LastCompactionAppend ==
  ASSUME NEW p \in Seq(Entries), NEW e \in Entries
  PROVE  LastCompaction(Append(p, e)) =
           IF e.kind = "compaction" THEN Len(p) + 1 ELSE LastCompaction(p)
<1> DEFINE q == Append(p, e)
           n == Len(p)
           c == LastCompaction(p)
           d == LastCompaction(q)
<1>1. /\ q \in Seq(Entries) /\ DOMAIN q = 1..(n + 1) /\ n \in Nat /\ DOMAIN p = 1..n
      /\ Len(q) = n + 1 /\ q[n + 1] = e /\ \A i \in 1..n : q[i] = p[i]
  OBVIOUS
<1> HIDE DEF q
<1>2. /\ c \in 0..n /\ (c # 0 => p[c].kind = "compaction")
      /\ \A i \in 1..n : p[i].kind = "compaction" => i <= c
  BY <1>1, LastCompactionIs
<1>3. /\ d \in 0..(n + 1) /\ (d # 0 => q[d].kind = "compaction")
      /\ \A i \in 1..(n + 1) : q[i].kind = "compaction" => i <= d
  BY <1>1, LastCompactionIs
<1> HIDE DEF c, d
<1>4. CASE e.kind = "compaction"
  <2>1. n + 1 \in 1..(n + 1) BY <1>1
  <2>2. n + 1 <= d BY <1>1, <1>3, <1>4, <2>1
  <2>3. d = n + 1 BY <1>1, <1>3, <2>2
  <2> QED BY <1>4, <2>3 DEF d, q
<1>5. CASE e.kind # "compaction"
  <2>1. d # n + 1
    <3>1. n + 1 # 0 BY <1>1
    <3> QED BY <1>1, <1>3, <1>5, <3>1
  <2>2. d \in 0..n BY <1>1, <1>3, <2>1
  <2>3. d # 0 => p[d].kind = "compaction" /\ d \in 1..n BY <1>1, <1>3, <2>2
  <2>4. d <= c BY <1>1, <1>2, <2>2, <2>3
  <2>5. c # 0 => c \in 1..n /\ c \in 1..(n + 1) BY <1>1, <1>2
  <2>6. c # 0 => c <= d BY <1>1, <1>2, <1>3, <2>5
  <2>7. c <= d BY <1>2, <2>2, <2>6
  <2>8. d = c BY <1>2, <2>2, <2>4, <2>7
  <2> QED BY <1>5, <2>8 DEF c, d, q
<1> QED BY <1>4, <1>5

(* The branch of nothing.                                                    *)
LEMMA GoodEmpty ==
  ASSUME NEW away PROVE Good(<<>>, away)
<1> DEFINE none == <<>>
<1>1. none \in Seq(Entries) /\ Len(none) = 0 /\ DOMAIN none = {} OBVIOUS
<1>2. Only(none, InContext) = none BY OnlyEmpty
<1> HIDE DEF none
<1>3. Told(Only(none, InContext)) BY <1>1, <1>2 DEF Told
<1>4. LastCompaction(none) = 0
  <2>1. LastCompaction(none) \in 0..0 BY <1>1, LastCompactionIs
  <2> QED BY <2>1
<1>5. Good(none, away) BY <1>3, <1>4 DEF Good
<1> QED BY <1>5 DEF none

(* A branch stays good with one more entry; a compaction must keep a good    *)
(* part of it.                                                               *)
LEMMA GoodAppend ==
  ASSUME NEW p \in Seq(Entries), NEW e \in Entries, NEW away, Good(p, away), Expected(p, e),
         e.kind = "compaction" /\ away \cap IdsOf(Append(p, e)) = {} => KeptAt(p, e.ref, Len(p))
  PROVE  Good(Append(p, e), away)
<1> DEFINE q == Append(p, e)
           n == Len(p)
           c == LastCompaction(p)
           d == LastCompaction(q)
<1>1. /\ n \in Nat /\ q[n + 1] = e /\ \A i \in 1..n : q[i] = p[i]
  OBVIOUS
<1>2. Told(Only(q, InContext)) BY ToldAppend DEF Good
<1>3. d = IF e.kind = "compaction" THEN n + 1 ELSE c BY LastCompactionAppend
<1>4. c \in 0..n BY LastCompactionIs
<1>5. IdsOf(q) = IdsOf(p) \cup {e.id} BY IdsOfAppend
<1> HIDE DEF c, d
<1>6. ASSUME away \cap IdsOf(q) = {}, d # 0 PROVE KeptAt(q, q[d].ref, d - 1)
  <2>1. CASE e.kind = "compaction"
    <3>1. KeptAt(p, e.ref, n) BY <1>6, <2>1
    <3>2. n \in 0..Len(p) /\ n \in n..(Len(p) + 1) BY <1>1
    <3>3. KeptAt(q, e.ref, n) BY <3>1, <3>2, KeptAppend
    <3>4. q[d] = e /\ d - 1 = n BY <1>1, <1>3, <2>1
    <3> QED BY <3>3, <3>4
  <2>2. CASE e.kind # "compaction"
    <3>1. d = c /\ c # 0 /\ away \cap IdsOf(p) = {} BY <1>3, <1>5, <1>6, <2>2
    <3>2. KeptAt(p, p[c].ref, c - 1) BY <3>1 DEF Good, c
    <3>3. c - 1 \in 0..Len(p) /\ c - 1 \in (c - 1)..(Len(p) + 1) /\ c \in 1..n BY <1>1, <1>4, <3>1
    <3>4. KeptAt(q, p[c].ref, c - 1) BY <3>2, <3>3, KeptAppend
    <3> QED BY <1>1, <3>1, <3>3, <3>4
  <2> QED BY <2>1, <2>2
<1> QED BY <1>2, <1>6 DEF Good, d

(* More strays never make a branch worse.                                    *)
LEMMA GoodAway ==
  ASSUME NEW p, NEW away, NEW more, away \subseteq more, Good(p, away)
  PROVE  Good(p, more)
BY DEF Good

(* A compaction that is prepared keeps a good part of its branch.            *)
LEMMA CutKeeps ==
  ASSUME NEW p \in Seq(Entries), Distinct(p), CanCompact(p), NEW away, Good(p, away),
         away \cap IdsOf(p) = {}
  PROVE  KeptAt(p, Compaction(p).ref, Len(p))
<1> DEFINE start == Boundary(p)
           cut == Cut(p, start)
           n == Len(p)
           c == LastCompaction(p)
<1>1. start \in 1..n /\ cut \in start..n /\ Compaction(p).ref = p[cut].id BY CompactionIs
<1>2. n \in Nat /\ DOMAIN p = 1..n OBVIOUS
<1>3. /\ c = 0 => start = 1
      /\ c # 0 /\ p[c].ref \in IdsOf(p) => p[start].id = p[c].ref
  BY BoundaryIs
<1>4. c \in 0..n BY LastCompactionIs
<1>5. /\ CutPoints(p, start) = {} => cut = start
      /\ CutPoints(p, start) # {} =>
           \E k \in CutPoints(p, start) :
             /\ cut <= k
             /\ \A j \in cut..(k - 1) : p[j].kind \notin MessageKinds \cup {"compaction"}
  BY <1>1, CutIs
<1>6. c # 0 => KeptAt(p, p[c].ref, c - 1) BY DEF Good
<1> HIDE DEF start, cut, c
<1>7. cut \in 1..n BY <1>1, <1>2
<1>8. Keeps(p, cut)
  <2>1. CASE CutPoints(p, start) = {} /\ c = 0
    <3>1. cut = 1 BY <1>3, <1>5, <2>1
    <3>2. Shown(p, 1) = Only(p, InContext) BY ShownAll
    <3>3. Only(p, InContext) # <<>> => Only(p, InContext)[1].kind # "tool"
      <4> DEFINE o == Only(p, InContext)
      <4>1. o \in Seq(Entries) /\ Told(o) BY OnlyElements DEF Good
      <4> HIDE DEF o
      <4>2. o # <<>> => 1 \in DOMAIN o BY <4>1
      <4>3. o # <<>> => o[1].kind # "tool" BY <4>1, <4>2, SMTT(30) DEF Told
      <4> QED BY <4>3 DEF o
    <3> QED BY <3>1, <3>2, <3>3 DEF Keeps
  <2>2. CASE CutPoints(p, start) = {} /\ c # 0
    <3>1. PICK r \in 1..(c - 1) : p[r].id = p[c].ref /\ Keeps(p, r) BY <1>6, <2>2 DEF KeptAt
    <3>2. r \in 1..n BY <1>2, <1>4, <3>1
    <3>3. p[c].ref \in IdsOf(p) BY <1>2, <3>1, <3>2 DEF IdsOf
    <3>4. p[start].id = p[r].id BY <1>3, <2>2, <3>1, <3>3
    <3>5. start = r BY <1>1, <1>2, <3>2, <3>4 DEF Distinct
    <3> QED BY <1>5, <2>2, <3>1, <3>5
  <2>3. CASE CutPoints(p, start) # {}
    <3>1. PICK k \in CutPoints(p, start) :
            /\ cut <= k
            /\ \A j \in cut..(k - 1) : p[j].kind \notin MessageKinds \cup {"compaction"}
      BY <1>5, <2>3
    <3>2. k \in start..n /\ p[k].kind \in CutKinds BY <3>1 DEF CutPoints
    <3> DEFINE s == SubSeq(p, cut, n)
    <3>3. k \in Nat /\ k >= cut /\ k <= n /\ cut \in Nat /\ cut >= 1 BY <1>1, <1>2, <3>1, <3>2
    <3>4. \A i \in cut..n : p[i] \in Entries
      <4>1. cut..n \subseteq 1..n BY <1>2, <3>3
      <4> QED BY <4>1
    <3>5. /\ s \in Seq(Entries) /\ Len(s) = IF cut <= n THEN n - cut + 1 ELSE 0
          /\ \A i \in 1..(n - cut + 1) : s[i] = p[cut + i - 1]
      BY <1>2, <3>3, <3>4, SubSeqProperties
    <3>6. DOMAIN s = 1..(n - cut + 1) BY <1>2, <3>3, <3>5
    <3> HIDE DEF s
    <3> DEFINE m == k - cut + 1
    <3>7. m \in DOMAIN s /\ cut + m - 1 = k BY <1>2, <3>3, <3>6
    <3>8. s[m] = p[k] BY <3>5, <3>6, <3>7
    <3>9. s[m].kind \in InContext BY <3>2, <3>8 DEF CutKinds, InContext, MessageKinds
    <3> HIDE DEF m
    <3>10. PICK j \in 1..m : Only(s, InContext) # <<>> /\ Only(s, InContext)[1] = s[j]
      BY <3>5, <3>7, <3>9, OnlyFirst
    <3>11. s[j].kind # "tool"
      <4>1. CASE j = m BY <3>2, <3>8, <4>1 DEF CutKinds
      <4>2. CASE j # m
        <5>1. j \in 1..(n - cut + 1) /\ cut + j - 1 \in cut..(k - 1)
          BY <1>2, <3>3, <3>6, <3>7, <4>2
        <5>2. s[j] = p[cut + j - 1] BY <3>5, <5>1
        <5>3. p[cut + j - 1].kind \notin MessageKinds BY <3>1, <5>1
        <5> QED BY <5>2, <5>3 DEF MessageKinds
      <4> QED BY <4>1, <4>2
    <3>12. Shown(p, cut) = Only(s, InContext) BY DEF Shown, s
    <3> QED BY <3>10, <3>11, <3>12 DEF Keeps
  <2> QED BY <2>1, <2>2, <2>3
<1> QED BY <1>1, <1>7, <1>8 DEF KeptAt

-----------------------------------------------------------------------------
(* The branches of a session are good.                                       *)

(* A session with one more entry, at the end of a good branch.               *)
LEMMA AllGoodAppend ==
  ASSUME NEW es \in Seq(Entries), NEW e \in Entries, NEW away, AllGood(es, away),
         e.id \notin IdsOf(es), Good(Branch(es, e.parent), away),
         Expected(Branch(es, e.parent), e),
         e.kind = "compaction" /\ away \cap IdsOf(Append(Branch(es, e.parent), e)) = {}
           => KeptAt(Branch(es, e.parent), e.ref, Len(Branch(es, e.parent)))
  PROVE  AllGood(Append(es, e), away)
<1> DEFINE p == Branch(es, e.parent)
<1>1. e.parent \in AnyId /\ e.id \in AnyId BY EntryFields
<1>2. p \in Seq(Entries) BY <1>1, BranchElements
<1>3. Good(Append(p, e), away)
  <2>1. /\ Good(p, away) /\ Expected(p, e)
        /\ e.kind = "compaction" /\ away \cap IdsOf(Append(p, e)) = {} => KeptAt(p, e.ref, Len(p))
    OBVIOUS
  <2> HIDE DEF p
  <2> QED BY <1>2, <2>1, GoodAppend
<1>4. ToSet(Append(es, e)) = ToSet(es) \cup {e} BY ToSetAppend
<1>5. Branch(Append(es, e), e.id) = Append(p, e) BY <1>1, BranchAppend
<1>6. ASSUME NEW d \in ToSet(es) PROVE Branch(Append(es, e), d.id) = Branch(es, d.id)
  <2>1. d.id \in IdsOf(es) BY <1>6, IdsAre
  <2>2. d.id \in AnyId /\ d.id # e.id BY <2>1, IdsTyped
  <2> QED BY <2>2, BranchAppend
<1> QED BY <1>3, <1>4, <1>5, <1>6 DEF AllGood

(* More strays never make a session worse.                                   *)
LEMMA AllGoodAway ==
  ASSUME NEW es, NEW away, NEW more, away \subseteq more, AllGood(es, away)
  PROVE  AllGood(es, more)
BY GoodAway DEF AllGood

(* Where one can go on, the branch is good.                                  *)
LEMMA GoodAt ==
  ASSUME IdInv, AllGood(entries, strays), NEW x \in IdsOf(entries) \cup {0}, x \notin RecordIds
  PROVE  x \in AnyId /\ Good(Branch(entries, x), strays)
<1>1. entries \in Seq(Entries) /\ ToSet(entries) \subseteq Everything
  BY EverythingIs DEF IdInv, FilesTypeOK
<1>2. IdsOf(entries) \subseteq EntryIds /\ IdsOf(entries) \subseteq AnyId BY <1>1, IdsTyped
<1>3. 0 \in AnyId /\ 0 \notin EntryIds BY SessionFilesAssumption DEF AnyId, EntryIds
<1>4. CASE x \notin IdsOf(entries)
  <2>1. Branch(entries, x) = <<>> BY <1>1, <1>3, <1>4, BranchElements
  <2> QED BY <1>3, <1>4, <2>1, GoodEmpty
<1>5. CASE x \in IdsOf(entries)
  <2>1. PICK e \in ToSet(entries) : e.id = x BY <1>5, IdsAre
  <2>2. e.kind # "record" BY <1>1, <2>1 DEF RecordIds
  <2> QED BY <1>2, <1>5, <2>1, <2>2 DEF AllGood
<1> QED BY <1>4, <1>5

(* The branches that a file has are those of its session.                    *)
LEMMA LoadedBranches ==
  ASSUME FileInv, faults = 0, NEW e \in ToSet(Load(disk[file])), e.kind # "record"
  PROVE  Branch(Load(disk[file]), e.id) = Branch(entries, e.id) /\ e \in ToSet(entries)
<1> DEFINE es == Load(disk[file])
           known == Conversation(entries)
           read == Conversation(es)
<1>1. /\ disk[file] \in Seq(Lines) /\ FileLike(disk[file]) /\ file \in Files
      /\ entries \in Seq(Entries) /\ Distinct(entries) /\ queued \in Seq(Writes)
      /\ ToSet(disk[file]) \subseteq Everything /\ ToSet(entries) \subseteq Everything
  BY EverythingIs DEF FileInv, PathInv, IdInv, FilesTypeOK, FilesSound
<1>2. es \in Seq(Entries) /\ Distinct(es) /\ ToSet(es) \subseteq Everything BY <1>1, LoadIs
<1>3. IsPrefix(read, known)
  <2>1. SubSeq(queued, 1, 0) = <<>> BY <1>1, InitialParts
  <2>2. Upto(disk[file], queued, file, 0) = disk[file] BY <1>1, <2>1, AfterNone DEF Upto
  <2>3. 0 \in 0..Len(queued) BY <1>1
  <2>4. Begins(disk[file], entries) BY <2>2, <2>3 DEF FileInv, Synced
  <2> QED BY <2>4 DEF Begins
<1> HIDE DEF es
<1>4. /\ read \in Seq(Entries)
      /\ ToSet(read) = {x \in ToSet(es) : x.kind \in EntryKinds \ {"record"}}
      /\ known \in Seq(Entries) /\ Distinct(known) /\ ToSet(known) \subseteq ToSet(entries)
  BY <1>1, <1>2, OnlyElements, OnlyDistinct DEF Conversation
<1> HIDE DEF read, known
<1>5. PICK rest \in Seq(Entries) : known = read \o rest BY <1>3, <1>4, PrefixRest
<1>6. e \in ToSet(es) /\ e \in Entries /\ e.kind \in EntryKinds \ {"record"} /\ e.id \in AnyId
  <2>1. e \in ToSet(es) BY DEF es
  <2>2. e \in Entries BY <1>2, <2>1 DEF ToSet
  <2> QED BY <2>1, <2>2, EntryFields
<1>7. e \in ToSet(read) BY <1>4, <1>6
<1>8. ToSet(known) = ToSet(read) \cup ToSet(rest) BY <1>4, <1>5, ToSetConcat
<1>9. e.id \notin IdsOf(rest)
  <2> SUFFICES ASSUME e.id \in IdsOf(rest) PROVE FALSE OBVIOUS
  <2>1. PICK i \in 1..Len(read) : read[i] = e BY <1>4, <1>7 DEF ToSet
  <2>2. PICK j \in 1..Len(rest) : rest[j].id = e.id BY DEF IdsOf
  <2>3. /\ Len(read) \in Nat /\ Len(rest) \in Nat /\ Len(read \o rest) = Len(read) + Len(rest)
        /\ (read \o rest)[i] = read[i] /\ (read \o rest)[Len(read) + j] = rest[j]
    BY <1>4, <1>5
  <2>4. i \in DOMAIN known /\ Len(read) + j \in DOMAIN known BY <1>4, <1>5, <2>3
  <2>5. i = Len(read) + j BY <1>4, <1>5, <2>1, <2>2, <2>3, <2>4 DEF Distinct
  <2> QED BY <2>3, <2>5
<1>10. Branch(known, e.id) = Branch(read, e.id) BY <1>4, <1>5, <1>6, <1>9, BranchConcat
<1>11. e.id \notin RecordIds
  <2>1. e \in Everything BY <1>2, <1>6
  <2> QED BY <2>1, NoRecordId DEF FileInv, PathInv, IdInv
<1>12. \A s \in Seq(Entries) : ToSet(s) \subseteq Everything =>
         Branch(Conversation(s), e.id) = Branch(s, e.id)
  <2> TAKE s \in Seq(Entries)
  <2> HAVE ToSet(s) \subseteq Everything
  <2>1. \A d \in ToSet(s) : d.parent \notin RecordIds /\ (d.kind = "record" => d.id \in RecordIds)
    BY DEF FileInv, PathInv, IdInv, RecordsApart, RecordIds
  <2> QED BY <1>6, <1>11, <2>1, BranchPastRecords
<1>13. Branch(known, e.id) = Branch(entries, e.id) /\ Branch(read, e.id) = Branch(es, e.id)
  BY <1>1, <1>2, <1>12 DEF known, read
<1> QED BY <1>4, <1>7, <1>8, <1>10, <1>13 DEF es

(* A file read back has the good branches of its session.                    *)
LEMMA LoadGood ==
  ASSUME FileInv, faults = 0, AllGood(entries, strays)
  PROVE  AllGood(Load(disk[file]), strays)
BY LoadedBranches DEF AllGood

(* Labels in a chain leave the branches good.                                *)
LEMMA AllGoodChain ==
  ASSUME minted \in Nat, NEW kept \in Seq(Entries), NEW labels \in Seq(Entries), NEW away,
         AllGood(kept, away), LabelChain(labels, kept),
         \A d \in ToSet(kept) : d.kind # "record" /\ d.id <= minted
  PROVE  AllGood(kept \o labels, away)
<1> DEFINE upto(k) == kept \o SubSeq(labels, 1, k)
           T == {k \in 0..Len(labels) : AllGood(upto(k), away)}
<1>1. /\ SubSeq(labels, 1, 0) = <<>> /\ SubSeq(labels, 1, Len(labels)) = labels
      /\ \A i \in 1..Len(labels) :
           /\ SubSeq(labels, 1, i - 1) \in Seq(Entries) /\ labels[i] \in Entries
           /\ SubSeq(labels, 1, i) = Append(SubSeq(labels, 1, i - 1), labels[i])
  BY InitialParts
<1>2. Len(labels) \in Nat OBVIOUS
<1>3. 0 \in T
  <2>1. upto(0) = kept \o <<>> BY <1>1
  <2>2. upto(0) = kept BY <2>1
  <2> HIDE DEF upto
  <2>3. AllGood(upto(0), away) BY <2>2
  <2> QED BY <1>2, <2>3
<1>4. ASSUME NEW i \in 1..Len(labels), i - 1 \in T PROVE i \in T
  <2> DEFINE a == SubSeq(labels, 1, i - 1)
             e == labels[i]
             q == kept \o a
  <2>1. a \in Seq(Entries) /\ e \in Entries /\ SubSeq(labels, 1, i) = Append(a, e) BY <1>1
  <2>2. AllGood(q, away) BY <1>4
  <2>3. /\ e.id = minted + i /\ e.kind = "label"
        /\ e.parent = IF i = 1 THEN LastId(kept) ELSE minted + i - 1
    BY DEF LabelChain
  <2>4. ToSet(q) = ToSet(kept) \cup ToSet(a) /\ q \in Seq(Entries)
    <3>1. ToSet(q) = ToSet(kept) \cup ToSet(a) BY <2>1, ToSetConcat, ZenonT(40)
    <3>2. q \in Seq(Entries) BY <2>1
    <3> QED BY <3>1, <3>2
  <2>5. ASSUME NEW d \in ToSet(a) PROVE \E j \in 1..(i - 1) : d = labels[j]
    <3>1. /\ DOMAIN a = 1..(i - 1) /\ \A j \in 1..(i - 1) : a[j] = labels[j] BY <1>2
    <3> QED BY <3>1 DEF ToSet
  <2>6. e.id \notin IdsOf(q)
    <3> SUFFICES ASSUME NEW d \in ToSet(q), d.id = minted + i PROVE FALSE BY <2>3, IdsAre
    <3>1. CASE d \in ToSet(kept)
      <4>1. d.id <= minted BY <3>1
      <4> QED BY <1>2, <4>1
    <3>2. CASE d \in ToSet(a)
      <4>1. PICK j \in 1..(i - 1) : d = labels[j] BY <2>5, <3>2
      <4>2. j \in 1..Len(labels) /\ j # i /\ j \in Nat BY <1>2
      <4>3. labels[j].id = minted + j BY <4>2 DEF LabelChain
      <4> QED BY <1>2, <4>1, <4>2, <4>3
    <3> QED BY <2>4, <3>1, <3>2
  <2>7. e.parent = 0 \/ \E d \in ToSet(q) : d.kind # "record" /\ d.id = e.parent
    <3>1. CASE i = 1 /\ kept = <<>> BY <2>3, <3>1 DEF LastId
    <3>2. CASE i = 1 /\ kept # <<>>
      <4>1. e.parent = kept[Len(kept)].id BY <2>3, <3>2 DEF LastId, Last
      <4>2. Len(kept) \in DOMAIN kept BY <3>2
      <4>3. kept[Len(kept)] \in ToSet(kept) BY <4>2 DEF ToSet
      <4> QED BY <2>4, <4>1, <4>3
    <3>3. CASE i # 1
      <4> DEFINE j == i - 1
      <4>1. j \in 1..Len(labels) /\ j \in Nat BY <1>2, <3>3
      <4>2. labels[j].id = minted + j /\ labels[j].kind = "label" BY <4>1 DEF LabelChain
      <4>3. e.parent = minted + j BY <1>2, <2>3, <3>3
      <4>4. a[j] = labels[j] /\ j \in DOMAIN a BY <1>2, <4>1
      <4>5. labels[j] \in ToSet(a) BY <4>4 DEF ToSet
      <4>6. labels[j] \in ToSet(q) BY <2>4, <4>5
      <4> HIDE DEF j, e, q, a
      <4> QED BY <4>2, <4>3, <4>6
    <3> QED BY <3>1, <3>2, <3>3
  <2>8. upto(i) = Append(q, e) BY <2>1
  <2> HIDE DEF q, e, upto, a
  <2>9. Good(Branch(q, e.parent), away)
    <3>1. CASE e.parent = 0
      <4>1. 0 \notin IdsOf(q) BY <2>4, IdsTyped DEF EntryIds
      <4>2. 0 \in AnyId BY SessionFilesAssumption DEF AnyId
      <4>3. Branch(q, 0) = <<>> BY <2>4, <4>1, <4>2, BranchElements
      <4> QED BY <3>1, <4>3, GoodEmpty
    <3>2. CASE \E d \in ToSet(q) : d.kind # "record" /\ d.id = e.parent
      BY <2>2, <3>2 DEF AllGood
    <3> QED BY <2>7, <3>1, <3>2
  <2>10. Expected(Branch(q, e.parent), e) BY <2>3 DEF Expected
  <2>11. e.kind # "compaction" BY <2>3
  <2>12. AllGood(Append(q, e), away)
    BY <2>1, <2>2, <2>4, <2>6, <2>9, <2>10, <2>11, AllGoodAppend
  <2>13. AllGood(upto(i), away) BY <2>8, <2>12
  <2> QED BY <1>2, <2>13
<1> HIDE DEF T
<1>5. 0..Len(labels) \subseteq T BY <1>2, <1>3, <1>4, Induct
<1>6. Len(labels) \in T BY <1>2, <1>5
<1> QED BY <1>1, <1>6 DEF T

(* Entries are never missed less.                                            *)
LEMMA HolesStay ==
  ASSUME IdInv, Faulty, [FilesNext]_filesVars PROVE holes \subseteq holes' /\ Faulty'
<1>1. ASSUME UNCHANGED <<faults, holes>> PROVE holes \subseteq holes' /\ Faulty'
  BY <1>1 DEF Faulty
<1>2. ASSUME NEW e, Adds(e) PROVE UNCHANGED <<faults, holes>> BY <1>2 DEF Adds, Add
<1>3. CASE WriteOne BY <1>1, <1>3 DEF WriteOne
<1>4. CASE WriteFails
  <2> DEFINE w == Head(queued)
  <2>1. holes' = holes \cup IdsOf(w.lines) /\ queued # <<>> BY <1>4 DEF WriteFails
  <2>2. WriteOK(w) /\ w \in Writes
    <3>1. 1 \in DOMAIN queued /\ w = queued[1] BY <2>1 DEF IdInv, FilesTypeOK
    <3> QED BY <3>1 DEF IdInv, FilesSound, FilesTypeOK
  <2> HIDE DEF w
  <2>3. w.lines # <<>> /\ w.lines \in Seq(Lines)
    <3>1. w.lines \in Seq(Lines) BY <2>2 DEF Writes
    <3>2. CASE w.whole BY <2>2, <3>1, <3>2 DEF WriteOK
    <3>3. CASE ~w.whole
      <4>1. w.lines = <<w.lines[1]>> BY <2>2, <3>3 DEF WriteOK, Alone
      <4> QED BY <3>1, <4>1
    <3> QED BY <3>1, <3>2, <3>3
  <2>4. 1 \in DOMAIN w.lines BY <2>3
  <2>5. w.lines[1].id \in IdsOf(w.lines) BY <2>4 DEF IdsOf
  <2>6. holes' # {} BY <2>1, <2>5
  <2> QED BY <2>1, <2>6 DEF Faulty
<1>5. ASSUME NEW f \in Files, ReadForRecord(f) PROVE UNCHANGED <<faults, holes>>
  BY <1>5 DEF ReadForRecord, writerVars
<1>6. CASE QueueRecord BY <1>1, <1>6 DEF QueueRecord
<1>7. CASE Restart BY <1>1, <1>7 DEF Restart
<1>8. CASE NewSession BY <1>1, <1>8 DEF NewSession, writerVars
<1>9. ASSUME NEW to \in EntryIds, Fork(to) PROVE holes \subseteq holes' /\ Faulty'
  <2>1. holes \subseteq holes' /\ faults' = faults BY <1>9, ForkIs
  <2> QED BY <2>1 DEF Faulty
<1>10. CASE Looks BY <1>1, <1>10 DEF Looks
<1> QED BY <1>1, <1>2, <1>3, <1>4, <1>5, <1>6, <1>7, <1>8, <1>9, <1>10, StepCases

(* A session that is put in place: no compaction is being summarized.        *)
LEMMA GoodsOpened ==
  ASSUME compacting' = NoCompaction, holes' = {} => AllGood(entries', strays')
  PROVE  Goods'
BY DEF Goods, AllGood

(* An entry is appended.                                                     *)
LEMMA GoodsAdd ==
  ASSUME IdInv, Goods, NEW e, Adds(e) PROVE Goods'
<1> SUFFICES ASSUME holes' = {}
             PROVE  /\ AllGood(entries', strays')
                    /\ compacting' # NoCompaction /\ ~moved' /\ Sound(Current)'
                         => KeptAt(Current, compacting.ref, Len(Current))'
  BY DEF Goods, AllGood
<1>1. /\ e \in Entries /\ e.kind # "record" /\ Occasion(e)
      /\ e.parent \in IdsOf(entries) \cup {0} /\ e.parent \notin RecordIds
      /\ strays \subseteq strays'
  BY DEF Adds
<1>2. holes = {} BY DEF Adds, Add
<1>3. AllGood(entries, strays) BY <1>2 DEF Goods
<1>4. /\ entries' = Append(entries, e) /\ entries \in Seq(Entries) /\ Distinct(entries')
  BY AddQueues DEF IdInv, FilesTypeOK
<1>5. e.id \notin IdsOf(entries) BY <1>1, <1>4, DistinctAppend
<1> DEFINE p == Branch(entries, e.parent)
<1>6. p \in Seq(Entries) /\ Current' = Append(p, e) BY BranchGrows
<1>7. Good(p, strays) BY <1>1, <1>3, GoodAt
<1>8. e.parent = leaf => p = Current BY DEF Current
<1> HIDE DEF p
<1>9. Good(p, strays') BY <1>1, <1>7, GoodAway
<1>10. Expected(p, e)
  <2> SUFFICES ASSUME e.kind = "tool"
               PROVE  /\ Only(p, InContext) # <<>>
                      /\ Last(Only(p, InContext)).kind \in {"assistant", "tool"}
    BY DEF Expected
  <2>1. e.parent = leaf /\ MayFollow("tool") BY <1>1 DEF Occasion, MessageKinds
  <2>2. p = Current BY <1>8, <2>1
  <2> DEFINE said == Only(Current, InContext)
             prior == IF said = <<>> THEN "none" ELSE Last(said).kind
  <2>3. prior \in {"assistant", "tool"} BY <2>1 DEF MayFollow
  <2>4. said # <<>> BY <2>3
  <2> QED BY <2>2, <2>3, <2>4
<1>11. ASSUME e.parent = leaf, compacting # NoCompaction, ~moved,
              strays \cap IdsOf(Append(p, e)) = {}
       PROVE  KeptAt(p, compacting.ref, Len(p))
  <2>1. IdsOf(Append(p, e)) = IdsOf(p) \cup {e.id} BY <1>1, <1>6, IdsOfAppend
  <2>2. p = Current BY <1>8, <1>11
  <2>3. Sound(Current) BY <1>11, <2>1, <2>2 DEF Sound
  <2> QED BY <1>2, <1>11, <2>2, <2>3 DEF Goods
<1>12. ASSUME e.kind = "compaction", strays' \cap IdsOf(Append(p, e)) = {}
       PROVE  KeptAt(p, e.ref, Len(p))
  <2>1. /\ e.parent = leaf /\ compacting # NoCompaction /\ e.ref = compacting.ref
        /\ strays' = IF moved THEN strays \cup {e.id} ELSE strays
    BY <1>1, <1>12 DEF Occasion, MessageKinds
  <2>2. e.id \in IdsOf(Append(p, e)) BY <1>1, <1>6, IdsOfAppend
  <2>3. ~moved /\ strays' = strays BY <1>12, <2>1, <2>2
  <2> QED BY <1>11, <1>12, <2>1, <2>3
<1>13. AllGood(entries, strays') BY <1>1, <1>3, AllGoodAway
<1>14. AllGood(Append(entries, e), strays')
  BY <1>1, <1>4, <1>5, <1>9, <1>10, <1>12, <1>13, AllGoodAppend DEF p
<1>15. ASSUME compacting' # NoCompaction, ~moved', Sound(Current)'
       PROVE  KeptAt(Current, compacting.ref, Len(Current))'
  <2>1. e.parent = leaf /\ UNCHANGED <<compacting, moved, strays>>
    BY <1>1, <1>15 DEF Occasion
  <2>2. strays \cap IdsOf(Append(p, e)) = {} BY <1>6, <1>15, <2>1 DEF Sound
  <2>3. KeptAt(p, compacting.ref, Len(p)) BY <1>11, <1>15, <2>1, <2>2
  <2>4. Len(p) \in Nat /\ Len(p) \in 0..Len(p) /\ Len(p) + 1 \in Len(p)..(Len(p) + 1) BY <1>6
  <2>5. KeptAt(Append(p, e), compacting.ref, Len(p) + 1)
    <3> DEFINE ref == compacting.ref
               n == Len(p)
               m == Len(p) + 1
    <3>1. n \in 0..Len(p) /\ m \in n..(Len(p) + 1) /\ KeptAt(p, ref, n) BY <2>3, <2>4
    <3> HIDE DEF ref, n, m
    <3>2. KeptAt(Append(p, e), ref, m) BY <1>1, <1>6, <1>10, <3>1, KeptAppend
    <3> QED BY <3>2 DEF ref, m
  <2>6. Len(Append(p, e)) = Len(p) + 1 BY <1>6
  <2> QED BY <1>6, <2>1, <2>5, <2>6
<1> QED BY <1>4, <1>14, <1>15

(* A restart reads good branches back.                                       *)
LEMMA GoodsRestart ==
  ASSUME FileInv, Faulty, Goods, Restart PROVE Goods'
<1>1. /\ entries' = Load(disk[file]) /\ strays' = strays /\ holes' = holes
      /\ compacting' = NoCompaction
  BY RestartIs DEF FileInv, PathInv
<1>2. ASSUME holes' = {} PROVE AllGood(entries', strays')
  <2>1. faults = 0
    <3>1. ~(faults > 0) BY <1>1, <1>2 DEF Faulty
    <3>2. faults \in 0..MaxFaults BY DEF FileInv, PathInv, IdInv, FilesTypeOK
    <3> QED BY <3>1, <3>2, SessionFilesAssumption
  <2>2. AllGood(entries, strays) BY <1>1, <1>2 DEF Goods
  <2>3. AllGood(Load(disk[file]), strays) BY <2>1, <2>2, LoadGood
  <2> QED BY <1>1, <2>3
<1> QED BY <1>1, <1>2, GoodsOpened

(* A branch that is forked has good branches, if it loses no label.          *)
LEMMA GoodsFork ==
  ASSUME FileInv, Faulty, Goods, NEW to \in EntryIds, Fork(to) PROVE Goods'
<1> DEFINE es == Load(disk[file])
           path == Branch(es, to)
           kept == Unlabelled(path)
<1>1. /\ to \in Forkable /\ to \in IdsOf(es) /\ strays' = strays /\ compacting' = NoCompaction
      /\ holes' = holes \cup {e.id : e \in {x \in ToSet(path) : x.kind = "label"}}
  BY ForkIs DEF FileInv, PathInv
<1>2. PICK labels \in Seq(Entries) :
        /\ LabelChain(labels, kept)
        /\ entries' = kept \o labels \/ entries' = <<>>
  <2>1. \E labels \in Seq(Entries) :
          /\ LabelChain(labels, kept) /\ Forked(path) = kept \o labels
          /\ entries' = Forked(path) \/ entries' = <<>>
    BY ForkIs DEF FileInv, PathInv
  <2> HIDE DEF kept, path
  <2> QED BY <2>1
<1>3. /\ es \in Seq(Entries) /\ Distinct(es)
      /\ path \in Seq(Entries) /\ ToSet(path) \subseteq ToSet(es) /\ to \in AnyId
      /\ \A e \in ToSet(path) : e.kind # "record"
      /\ \A x \in IdsOf(path) : x <= minted
  BY <1>1, ForkedPath DEF FileInv, PathInv
<1>4. ASSUME holes' = {} PROVE AllGood(entries', strays')
  <2>1. faults = 0 /\ holes = {}
    <3>1. holes = {} BY <1>1, <1>4
    <3>2. ~(faults > 0) BY <3>1 DEF Faulty
    <3>3. faults \in 0..MaxFaults BY DEF FileInv, PathInv, IdInv, FilesTypeOK
    <3> QED BY <3>1, <3>2, <3>3, SessionFilesAssumption
  <2>2. AllGood(entries, strays) BY <2>1 DEF Goods
  <2>3. AllGood(es, strays) BY <2>1, <2>2, LoadGood
  <2>4. AllGood(path, strays)
    <3> SUFFICES ASSUME NEW d \in ToSet(path), d.kind # "record"
                 PROVE  Good(Branch(path, d.id), strays)
      BY DEF AllGood
    <3>1. d \in ToSet(es) BY <1>3
    <3>2. d.id \in IdsOf(path) BY IdsAre
    <3> HIDE DEF es
    <3>3. Branch(path, d.id) = Branch(es, d.id) BY <1>3, <3>2, BranchOfBranch
    <3> QED BY <2>3, <3>1, <3>3 DEF AllGood
  <2>5. kept = path
    <3>1. \A e \in ToSet(path) : e.kind # "label" BY <1>1, <1>4
    <3>2. \A e \in ToSet(path) : e.kind \in EntryKinds \ {"label"}
      <4> TAKE e \in ToSet(path)
      <4>1. e \in Entries BY <1>3 DEF ToSet
      <4> QED BY <3>1, <4>1, EntryFields
    <3> HIDE DEF path
    <3> QED BY <1>3, <3>2, OnlyAll DEF Unlabelled
  <2> HIDE DEF path, kept
  <2>6. minted \in Nat BY SessionFilesAssumption DEF FileInv, PathInv, IdInv, FilesTypeOK
  <2>7. \A d \in ToSet(path) : d.kind # "record" /\ d.id <= minted BY <1>3, IdsAre
  <2>8. AllGood(path \o labels, strays) BY <1>2, <1>3, <2>4, <2>5, <2>6, <2>7, AllGoodChain
  <2>9. CASE entries' = kept \o labels BY <1>1, <2>5, <2>8, <2>9
  <2>10. CASE entries' = <<>>
    <3>1. ToSet(<<>>) = {} BY DEF ToSet
    <3> QED BY <2>10, <3>1 DEF AllGood
  <2> QED BY <1>2, <2>9, <2>10
<1> QED BY <1>1, <1>4, GoodsOpened

(* A compaction is prepared, dropped, or moved away from.                    *)
LEMMA GoodsLook ==
  ASSUME IdInv, Goods, Looks PROVE Goods'
<1> SUFFICES ASSUME holes' = {}
             PROVE  /\ AllGood(entries', strays')
                    /\ compacting' # NoCompaction /\ ~moved' /\ Sound(Current)'
                         => KeptAt(Current, compacting.ref, Len(Current))'
  BY DEF Goods, AllGood
<1>1. UNCHANGED <<entries, strays, holes>> BY DEF Looks
<1>2. AllGood(entries, strays) BY <1>1 DEF Goods
<1>3. CASE UNCHANGED <<leaf, compacting, moved>>
  <2>1. Current' = Current /\ Sound(Current)' = Sound(Current) BY <1>1, <1>3 DEF Current, Sound
  <2> QED BY <1>1, <1>3, <2>1 DEF Goods
<1>4. CASE CanCompact(Current) /\ compacting' = Compaction(Current) /\ leaf' = leaf
  <2> DEFINE p == Current
  <2>1. Current' = p BY <1>1, <1>4 DEF Current
  <2>2. p \in Seq(Entries) /\ Distinct(p) BY CurrentIs DEF IdInv
  <2>3. leaf \in IdsOf(entries) \cup {0} /\ leaf \notin RecordIds BY LeafApart DEF IdInv
  <2>4. Good(p, strays) BY <1>2, <2>3, GoodAt DEF Current
  <2>5. CanCompact(p) /\ compacting' = Compaction(p) BY <1>4
  <2> HIDE DEF p
  <2>6. ASSUME strays \cap IdsOf(p) = {} PROVE KeptAt(p, Compaction(p).ref, Len(p))
    BY <2>2, <2>4, <2>5, <2>6, CutKeeps
  <2>7. Sound(Current)' => strays \cap IdsOf(p) = {} BY <1>1, <2>1 DEF Sound
  <2> QED BY <1>1, <1>2, <2>1, <2>5, <2>6, <2>7
<1>5. CASE compacting' = NoCompaction \/ moved' = TRUE BY <1>1, <1>2, <1>5
<1> QED BY <1>3, <1>4, <1>5 DEF Looks

(* Every step leaves the branches good.                                      *)
LEMMA GoodsStay ==
  ASSUME FileInv, Faulty, Goods, [FilesNext]_filesVars PROVE Goods'
<1>0. IdInv BY DEF FileInv, PathInv
<1>1. ASSUME UNCHANGED <<entries, leaf, strays, compacting, moved>>, holes \subseteq holes'
      PROVE Goods'
  BY <1>1 DEF Goods, AllGood, Current, Sound
<1>2. holes \subseteq holes' BY <1>0, HolesStay
<1>3. ASSUME NEW e, Adds(e) PROVE Goods' BY <1>0, <1>3, GoodsAdd
<1>4. CASE WriteOne BY <1>1, <1>2, <1>4 DEF WriteOne, managerVars
<1>5. CASE WriteFails BY <1>1, <1>2, <1>5 DEF WriteFails, managerVars
<1>6. ASSUME NEW f \in Files, ReadForRecord(f) PROVE Goods'
  BY <1>1, <1>2, <1>6 DEF ReadForRecord, managerVars
<1>7. CASE QueueRecord BY <1>1, <1>2, <1>7 DEF QueueRecord, managerVars
<1>8. CASE Restart BY <1>8, GoodsRestart
<1>9. CASE NewSession
  <2>1. entries' = <<>> /\ compacting' = NoCompaction BY <1>9 DEF NewSession, Open, Load, AfterOpen
  <2>2. AllGood(entries', strays')
    <3>1. ToSet(<<>>) = {} BY DEF ToSet
    <3> QED BY <2>1, <3>1 DEF AllGood
  <2> QED BY <2>1, <2>2, GoodsOpened
<1>10. ASSUME NEW to \in EntryIds, Fork(to) PROVE Goods' BY <1>10, GoodsFork
<1>11. CASE Looks BY <1>0, <1>11, GoodsLook
<1> QED BY <1>0, <1>3, <1>4, <1>5, <1>6, <1>7, <1>8, <1>9, <1>10, <1>11, StepCases

(* A session that begins has one user message at most.                       *)
LEMMA FilesInitGoods == FilesInit => Faulty /\ Goods
<1> SUFFICES ASSUME FilesInit PROVE Faulty /\ Goods OBVIOUS
<1>1. /\ faults = 0 /\ compacting = NoCompaction
      /\ entries = <<>> \/ \E e \in Entries : /\ entries = <<e>> /\ e.id = 1 /\ e.parent = 0
                                              /\ e.kind = "user"
  BY FilesInitIs
<1>2. Faulty BY <1>1 DEF Faulty
<1> DEFINE none == <<>>
<1>3. AllGood(none, strays)
  <2>1. ToSet(none) = {} BY DEF ToSet
  <2> QED BY <2>1 DEF AllGood
<1>4. AllGood(entries, strays)
  <2>1. CASE entries = none BY <1>3, <2>1
  <2>2. ASSUME NEW e \in Entries, entries = <<e>>, e.parent = 0, e.kind = "user"
        PROVE  AllGood(entries, strays)
    <3>1. none \in Seq(Entries) /\ entries = Append(none, e) BY <2>2
    <3>2. IdsOf(none) = {} BY DEF IdsOf
    <3>3. Branch(none, e.parent) = none BY <2>2, BranchEmpty, SessionFilesAssumption DEF AnyId
    <3>4. Good(none, strays) BY GoodEmpty
    <3> HIDE DEF none
    <3>5. Expected(none, e) /\ e.kind # "compaction" BY <2>2 DEF Expected
    <3>6. AllGood(Append(none, e), strays)
      BY <1>3, <3>1, <3>2, <3>3, <3>4, <3>5, AllGoodAppend
    <3> QED BY <3>1, <3>6
  <2> QED BY <1>1, <2>1, <2>2
<1> QED BY <1>1, <1>2, <1>4 DEF Goods

(* The four layers.                                                          *)
SessionInv == FileInv /\ Faulty /\ Goods

(* Every branch that no compaction was moved away from shows its messages in *)
(* their order, each of its compactions keeps from a place that begins no    *)
(* turn in the middle, and so does the one being summarized.                 *)
THEOREM BranchesAlwaysGood == FilesSpec => []SessionInv
<1>1. FilesInit => Faulty /\ Goods BY FilesInitGoods
<1>2. FileInv /\ Faulty /\ Goods /\ [FilesNext]_filesVars => Faulty' /\ Goods'
  BY HolesStay, GoodsStay DEF FileInv, PathInv
<1> QED BY <1>1, <1>2, FileAlways, PTL DEF FilesSpec, SessionInv

(* What the model is shown of a compacted branch: the summary, what is kept  *)
(* of what was before it, and what came after it.                            *)
LEMMA ContextIs ==
  ASSUME NEW p \in Seq(Entries), Distinct(p), NEW c \in 1..Len(p), c = LastCompaction(p),
         p[c].kind = "compaction", NEW r \in 1..(c - 1), p[r].id = p[c].ref
  PROVE  Context(p) = <<p[c]>> \o Shown(p, r)
<1> DEFINE kept == {i \in 1..(c - 1) : p[i].id = p[c].ref}
           n == Len(p)
           kinds == InContext
           s == SubSeq(p, r, c - 1)
           m == <<p[c]>>
           t == SubSeq(p, c + 1, n)
<1>1. n \in Nat /\ c \in Nat /\ r \in Nat /\ r >= 1 /\ r <= c - 1 /\ c <= n /\ DOMAIN p = 1..n
  OBVIOUS
<1>2. kept = {r}
  <2>1. ASSUME NEW i \in kept PROVE i = r
    <3>1. i \in 1..n /\ r \in 1..n /\ p[i].id = p[r].id BY <1>1
    <3> QED BY <1>1, <3>1 DEF Distinct
  <2>2. r \in kept OBVIOUS
  <2> QED BY <2>1, <2>2
<1>3. Min(kept) = r
  <2>1. Min(kept) \in kept
    <3>1. kept \subseteq Nat /\ kept # {} BY <1>1, <1>2
    <3> HIDE DEF kept
    <3> QED BY <3>1, MinIs
  <2> QED BY <1>2, <2>1
<1>4. Context(p) = m \o (IF kept = {} THEN <<>> ELSE Only(SubSeq(p, Min(kept), c - 1), kinds))
                     \o Only(t, kinds)
  <2>1. c # 0 BY <1>1
  <2> QED BY <2>1 DEF Context
<1>5. Context(p) = m \o Only(s, kinds) \o Only(t, kinds)
  <2>1. kept # {} BY <1>2
  <2> HIDE DEF kept
  <2> QED BY <1>3, <1>4, <2>1
<1>6. s \in Seq(Entries) /\ m \in Seq(Entries) /\ t \in Seq(Entries)
  <2>1. \A i \in 1..n : p[i] \in Entries BY <1>1
  <2>2. r..(c - 1) \subseteq 1..n /\ (c + 1)..n \subseteq 1..n BY <1>1
  <2>3. s \in Seq(Entries) BY <1>1, <2>1, <2>2, SubSeqProperties
  <2>4. t \in Seq(Entries) BY <1>1, <2>1, <2>2, SubSeqProperties
  <2> QED BY <1>1, <2>1, <2>3, <2>4
<1>7. SubSeq(p, r, n) = s \o (m \o t)
  <2>1. r \in 1..(Len(p) + 1) /\ c - 1 \in (r - 1)..Len(p) /\ n \in (c - 1)..Len(p) BY <1>1
  <2>2. SubSeq(p, r, c - 1) \o SubSeq(p, (c - 1) + 1, n) = SubSeq(p, r, n)
    BY <2>1, ConcatAdjacentSubSeq
  <2>3. n \in c..Len(p) BY <1>1
  <2>4. SubSeq(p, c, n) = <<p[c]>> \o SubSeq(p, c + 1, n) BY <2>3, SubSeqRecursiveFirst
  <2>5. (c - 1) + 1 = c BY <1>1
  <2> QED BY <2>2, <2>4, <2>5
<1>8. Only(m, kinds) = <<>>
  <2>1. m = Append(<<>>, p[c]) OBVIOUS
  <2> DEFINE none == <<>>
             e == p[c]
  <2>2. none \in Seq(Entries) /\ e \in Entries /\ e.kind \notin kinds
    BY DEF InContext, MessageKinds
  <2>3. Only(none, kinds) = none BY OnlyEmpty
  <2> HIDE DEF none, e, kinds
  <2>4. Only(Append(none, e), kinds) = none BY <2>2, <2>3, OnlyAppend
  <2> QED BY <2>1, <2>4 DEF none, e
<1>9. Shown(p, r) = Only(s \o (m \o t), kinds) BY <1>7 DEF Shown
<1> HIDE DEF s, m, t, kinds
<1>10. Only(s \o (m \o t), kinds) = Only(s, kinds) \o (Only(m, kinds) \o Only(t, kinds))
  <2> DEFINE u == m \o t
  <2>1. m \in Seq(Entries) /\ t \in Seq(Entries) BY <1>6
  <2>2. Only(u, kinds) = Only(m, kinds) \o Only(t, kinds) BY <2>1, OnlyConcat, SMTT(30)
  <2>3. u \in Seq(Entries) /\ s \in Seq(Entries) BY <1>6
  <2> HIDE DEF u
  <2>4. Only(s \o u, kinds) = Only(s, kinds) \o Only(u, kinds) BY <2>3, OnlyConcat, SMTT(30)
  <2> QED BY <2>2, <2>4 DEF u
<1>11. /\ Only(s, kinds) \in Seq(Entries) /\ Only(t, kinds) \in Seq(Entries)
  BY <1>6, OnlyElements
<1>12. Shown(p, r) = Only(s, kinds) \o Only(t, kinds)
  <2>1. <<>> \o Only(t, kinds) = Only(t, kinds) BY <1>11
  <2> QED BY <1>8, <1>9, <1>10, <2>1
<1>13. (m \o Only(s, kinds)) \o Only(t, kinds) = m \o (Only(s, kinds) \o Only(t, kinds))
  <2> DEFINE a == Only(s, kinds)
             b == Only(t, kinds)
  <2>1. a \in Seq(Entries) /\ b \in Seq(Entries) /\ m \in Seq(Entries) BY <1>6, <1>11
  <2> HIDE DEF a, b
  <2>2. (m \o a) \o b = m \o (a \o b) BY <2>1, SMTT(30)
  <2> QED BY <2>2 DEF a, b
<1> QED BY <1>5, <1>12, <1>13 DEF m

(* The model is shown every tool result after its call, on every branch, be  *)
(* it compacted, forked or read back, as long as no entry was lost and no    *)
(* compaction was applied after the leaf moved away.                         *)
THEOREM ResultFollowsCallAlways == FilesSpec => []ResultFollowsCall
<1>1. ASSUME SessionInv PROVE ResultFollowsCall
  <2> DEFINE p == Current
             c == LastCompaction(p)
             shown == Context(p)
  <2> SUFFICES ASSUME holes = {}, Sound(p), NEW i \in DOMAIN shown, shown[i].kind = "tool"
               PROVE  i > 1 /\ shown[i - 1].kind \in {"assistant", "tool"}
    BY DEF ResultFollowsCall
  <2>1. IdInv /\ AllGood(entries, strays)
    BY <1>1 DEF SessionInv, FileInv, PathInv, Goods
  <2>2. p \in Seq(Entries) /\ Distinct(p) BY <2>1, CurrentIs DEF IdInv
  <2>3. leaf \in IdsOf(entries) \cup {0} /\ leaf \notin RecordIds BY <2>1, LeafApart DEF IdInv
  <2>4. Good(p, strays) BY <2>1, <2>3, GoodAt DEF Current
  <2> HIDE DEF p
  <2> DEFINE o == Only(p, InContext)
  <2>5. Told(o) /\ o \in Seq(Entries) BY <2>2, <2>4, OnlyElements DEF Good
  <2>6. c \in 0..Len(p) /\ Len(p) \in Nat /\ (c # 0 => p[c].kind = "compaction")
    BY <2>2, LastCompactionIs
  <2>7. CASE c = 0
    <3>1. shown = Only(SubSeq(p, 1, Len(p)), InContext) BY <2>7 DEF Context
    <3>2. shown = o BY <2>2, <3>1, SubSeqFull
    <3> HIDE DEF shown, o
    <3> QED BY <2>5, <3>2 DEF Told
  <2>8. CASE c # 0
    <3>1. KeptAt(p, p[c].ref, c - 1) BY <2>4, <2>8 DEF Good, Sound
    <3> HIDE DEF c
    <3>2. PICK r \in 1..(c - 1) : p[r].id = p[c].ref /\ Keeps(p, r) BY <3>1 DEF KeptAt
    <3>3. r \in 1..Len(p) /\ c \in 1..Len(p) /\ c \in Nat /\ r \in Nat /\ DOMAIN p = 1..Len(p)
      BY <2>2, <2>6, <2>8
    <3> DEFINE s == Shown(p, r)
               before == Only(SubSeq(p, 1, r - 1), InContext)
    <3>4. shown = <<p[c]>> \o s BY <2>2, <2>6, <2>8, <3>2, <3>3, ContextIs DEF c
    <3>5. s \in Seq(Entries) /\ before \in Seq(Entries) /\ o = before \o s
      BY <2>2, <3>3, ShownIs
    <3>6. s # <<>> => s[1].kind # "tool" BY <3>2 DEF Keeps
    <3>7. p[c] \in Entries /\ p[c].kind # "tool" BY <2>2, <2>6, <2>8, <3>3
    <3> DEFINE e == p[c]
    <3> HIDE DEF s, before, o, shown, e
    <3>8. /\ e \in Entries /\ e.kind # "tool" /\ shown = <<e>> \o s BY <3>4, <3>7 DEF e
    <3>9. /\ Len(s) \in Nat /\ DOMAIN shown = 1..(Len(s) + 1) /\ shown[1] = e
          /\ \A k \in 1..Len(s) : shown[k + 1] = s[k]
      BY <3>5, <3>8
    <3>10. i # 1 BY <3>8, <3>9
    <3> DEFINE k == i - 1
    <3>11. k \in 1..Len(s) /\ i = k + 1 /\ i > 1 BY <3>9, <3>10
    <3> HIDE DEF k
    <3>12. s[k].kind = "tool" BY <3>9, <3>11
    <3>13. k # 1
      <4>1. k = 1 => s # <<>> BY <3>5, <3>11
      <4> QED BY <3>6, <3>12, <4>1
    <3> DEFINE b == Len(before)
    <3>14. /\ b \in Nat /\ b + k \in DOMAIN o /\ o[b + k] = s[k]
           /\ \A j \in 1..Len(s) : o[b + j] = s[j]
      BY <3>5, <3>11
    <3>15. o[(b + k) - 1].kind \in {"assistant", "tool"} BY <2>5, <3>12, <3>14 DEF Told
    <3>16. k - 1 \in 1..Len(s) /\ (b + k) - 1 = b + (k - 1) BY <3>9, <3>11, <3>13, <3>14
    <3>17. s[k - 1].kind \in {"assistant", "tool"} BY <3>14, <3>15, <3>16
    <3>18. shown[(k - 1) + 1] = s[k - 1] /\ (k - 1) + 1 = i - 1 BY <3>9, <3>11, <3>16
    <3> QED BY <3>11, <3>17, <3>18
  <2> QED BY <2>7, <2>8
<1> QED BY <1>1, BranchesAlwaysGood, PTL

-----------------------------------------------------------------------------
(* A fork's copy.                                                            *)

(* A label changes nothing of what the model is shown.                       *)
LEMMA ContextLabel ==
  ASSUME NEW p \in Seq(Entries), NEW e \in Entries, e.kind = "label"
  PROVE  Context(Append(p, e)) = Context(p)
<1> DEFINE q == Append(p, e)
           n == Len(p)
           kinds == InContext
           c == LastCompaction(p)
           keptIn(s) == {i \in 1..(c - 1) : s[i].id = s[c].ref}
           kept == keptIn(p)
<1>1. /\ q \in Seq(Entries) /\ Len(q) = n + 1 /\ n \in Nat /\ q[n + 1] = e /\ q = p \o <<e>>
      /\ <<e>> \in Seq(Entries) /\ \A i \in 1..n : q[i] = p[i]
  OBVIOUS
<1>2. LastCompaction(q) = c BY LastCompactionAppend
<1>3. c \in 0..n BY LastCompactionIs
<1>4. e.kind \notin kinds BY DEF InContext, MessageKinds
<1>5. Context(q) = IF c = 0 THEN Only(SubSeq(q, 1, Len(q)), kinds)
                   ELSE <<q[c]>> \o (IF keptIn(q) = {} THEN <<>>
                                     ELSE Only(SubSeq(q, Min(keptIn(q)), c - 1), kinds))
                        \o Only(SubSeq(q, c + 1, Len(q)), kinds)
  BY <1>2 DEF Context
<1>6. Context(p) = IF c = 0 THEN Only(SubSeq(p, 1, n), kinds)
                   ELSE <<p[c]>> \o (IF kept = {} THEN <<>>
                                     ELSE Only(SubSeq(p, Min(kept), c - 1), kinds))
                        \o Only(SubSeq(p, c + 1, n), kinds)
  BY DEF Context
<1> HIDE DEF c, q, kinds
<1>7. CASE c = 0
  <2>1. SubSeq(q, 1, Len(q)) = q /\ SubSeq(p, 1, n) = p BY <1>1, SubSeqFull
  <2>2. Only(Append(p, e), kinds) = Only(p, kinds) BY <1>4, OnlyAppend
  <2> QED BY <1>5, <1>6, <1>7, <2>1, <2>2 DEF q
<1>8. CASE c # 0
  <2>1. c \in 1..n /\ c \in Nat BY <1>1, <1>3, <1>8
  <2>2. q[c] = p[c] BY <1>1, <2>1
  <2>3. keptIn(q) = kept
    <3>1. \A i \in 1..(c - 1) : i \in 1..n BY <1>1, <2>1
    <3> QED BY <1>1, <2>2, <3>1
  <2>4. kept # {} => Min(kept) \in 1..(c - 1)
    <3>1. kept \subseteq Nat BY <2>1
    <3>2. kept # {} => Min(kept) \in kept
      <4> HIDE DEF kept
      <4> QED BY <3>1, MinIs
    <3> QED BY <3>2
  <2>5. ASSUME kept # {} PROVE SubSeq(q, Min(kept), c - 1) = SubSeq(p, Min(kept), c - 1)
    <3> DEFINE m == Min(kept)
    <3>1. m \in 1..Len(p) /\ c - 1 \in 1..Len(p) BY <1>1, <2>1, <2>4, <2>5
    <3> HIDE DEF m
    <3>2. SubSeq(p \o <<e>>, m, c - 1) = SubSeq(p, m, c - 1) BY <1>1, <3>1, SubSeqOfConcat1
    <3> QED BY <1>1, <3>2 DEF m
  <2> DEFINE t == SubSeq(p, c + 1, n)
  <2>6. SubSeq(q, c + 1, n) = t
    <3>1. CASE c = n
      <4>1. n < c + 1 /\ c + 1 \in Int /\ n \in Int BY <1>1, <3>1
      <4>2. SubSeq(q, c + 1, n) = <<>> BY <4>1, SubSeqEmpty
      <4>3. t = <<>> BY <4>1, SubSeqEmpty
      <4> QED BY <4>2, <4>3
    <3>2. CASE c # n
      <4>1. c + 1 \in 1..Len(p) /\ n \in 1..Len(p) BY <1>1, <2>1, <3>2
      <4>2. SubSeq(p \o <<e>>, c + 1, n) = SubSeq(p, c + 1, n) BY <1>1, <4>1, SubSeqOfConcat1
      <4> QED BY <1>1, <4>2
    <3> QED BY <3>1, <3>2
  <2>7. SubSeq(q, c + 1, n + 1) = SubSeq(q, c + 1, (n + 1) - 1) \o <<q[n + 1]>>
    <3>1. c + 1 \in 1..Len(q) /\ n + 1 \in (c + 1)..Len(q) BY <1>1, <2>1
    <3> QED BY <1>1, <3>1, SubSeqRecursiveSecond
  <2>8. t \in Seq(Entries)
    <3>1. \A i \in (c + 1)..n : p[i] \in Entries
      <4>1. (c + 1)..n \subseteq 1..n BY <1>1, <2>1
      <4> QED BY <4>1
    <3> QED BY <1>1, <2>1, <3>1, SubSeqProperties
  <2>9. (n + 1) - 1 = n BY <1>1
  <2> HIDE DEF t
  <2>10. SubSeq(q, c + 1, Len(q)) = Append(t, e)
    <3>1. SubSeq(q, c + 1, Len(q)) = t \o <<e>> BY <1>1, <2>6, <2>7, <2>9
    <3>2. t \o <<e>> = Append(t, e) BY <2>8
    <3> QED BY <3>1, <3>2
  <2>11. Only(Append(t, e), kinds) = Only(t, kinds) BY <1>4, <2>8, OnlyAppend
  <2> HIDE DEF keptIn
  <2>12. (IF keptIn(q) = {} THEN <<>> ELSE Only(SubSeq(q, Min(keptIn(q)), c - 1), kinds)) =
         (IF kept = {} THEN <<>> ELSE Only(SubSeq(p, Min(kept), c - 1), kinds))
    BY <2>3, <2>5
  <2> DEFINE part == IF kept = {} THEN <<>> ELSE Only(SubSeq(p, Min(kept), c - 1), kinds)
  <2>13. Context(p) = <<p[c]>> \o part \o Only(t, kinds) BY <1>6, <1>8 DEF t
  <2>14. Context(q) = <<q[c]>> \o part \o Only(SubSeq(q, c + 1, Len(q)), kinds)
    BY <1>5, <1>8, <2>12
  <2> HIDE DEF part
  <2>15. Context(q) = Context(p) BY <2>2, <2>10, <2>11, <2>13, <2>14
  <2> QED BY <2>15 DEF q
<1> QED BY <1>7, <1>8 DEF q

(* A branch with a chain of labels behind it is one branch, and shows the    *)
(* same.                                                                     *)
LEMMA ChainIsBranch ==
  ASSUME minted \in Nat, NEW kept \in Seq(Entries), NEW labels \in Seq(Entries),
         Branch(kept, LastId(kept)) = kept, LabelChain(labels, kept)
  PROVE  /\ Branch(kept \o labels, LastId(kept \o labels)) = kept \o labels
         /\ Context(kept \o labels) = Context(kept)
<1> DEFINE upto(k) == kept \o SubSeq(labels, 1, k)
           next(k) == IF k = 0 THEN LastId(kept) ELSE minted + k
           P(k) == /\ LastId(upto(k)) = next(k) /\ Branch(upto(k), next(k)) = upto(k)
                   /\ Context(upto(k)) = Context(kept)
           T == {k \in 0..Len(labels) : P(k)}
<1>1. /\ SubSeq(labels, 1, 0) = <<>> /\ SubSeq(labels, 1, Len(labels)) = labels
      /\ \A i \in 1..Len(labels) :
           /\ SubSeq(labels, 1, i - 1) \in Seq(Entries) /\ labels[i] \in Entries
           /\ SubSeq(labels, 1, i) = Append(SubSeq(labels, 1, i - 1), labels[i])
  BY InitialParts
<1>2. Len(labels) \in Nat OBVIOUS
<1>3. 0 \in T
  <2>1. upto(0) = kept \o <<>> BY <1>1
  <2>2. upto(0) = kept BY <2>1
  <2>3. next(0) = LastId(kept) OBVIOUS
  <2> HIDE DEF upto, next
  <2>4. P(0) BY <2>2, <2>3
  <2> HIDE DEF P
  <2> QED BY <1>2, <2>4
<1>4. ASSUME NEW i \in 1..Len(labels), i - 1 \in T PROVE i \in T
  <2> DEFINE a == SubSeq(labels, 1, i - 1)
             e == labels[i]
             q == kept \o a
  <2>1. a \in Seq(Entries) /\ e \in Entries /\ SubSeq(labels, 1, i) = Append(a, e) BY <1>1
  <2>2. q = upto(i - 1) OBVIOUS
  <2>3. e.id = minted + i /\ e.kind = "label" /\ e.parent = next(i - 1)
    <3>1. e.parent = IF i = 1 THEN LastId(kept) ELSE minted + i - 1 BY DEF LabelChain
    <3>2. i - 1 = 0 <=> i = 1 BY <1>2
    <3>3. minted + (i - 1) = minted + i - 1 BY <1>2
    <3> QED BY <3>1, <3>2, <3>3 DEF LabelChain
  <2>4. next(i) = minted + i BY <1>2
  <2>5. upto(i) = Append(q, e) BY <2>1
  <2>6. q \in Seq(Entries) BY <2>1
  <2>7. P(i - 1) BY <1>4
  <2> HIDE DEF q, e, upto, next, a
  <2>8. Branch(q, e.parent) = q /\ Context(q) = Context(kept) BY <2>2, <2>3, <2>7
  <2>9. e.id \in AnyId BY <2>1, EntryFields
  <2>10. Branch(Append(q, e), e.id) = Append(q, e) BY <2>1, <2>6, <2>8, <2>9, BranchAppend
  <2>11. LastId(Append(q, e)) = e.id
    <3>1. Append(q, e) # <<>> /\ Append(q, e)[Len(Append(q, e))] = e BY <2>6, SMTT(30)
    <3> QED BY <3>1 DEF LastId, Last
  <2>12. Context(Append(q, e)) = Context(q) BY <2>1, <2>3, <2>6, ContextLabel
  <2>13. P(i) BY <2>3, <2>4, <2>5, <2>8, <2>10, <2>11, <2>12
  <2> HIDE DEF P
  <2> QED BY <1>2, <2>13
<1> HIDE DEF T
<1>5. 0..Len(labels) \subseteq T BY <1>2, <1>3, <1>4, Induct
<1>6. Len(labels) \in T BY <1>2, <1>5
<1>7. P(Len(labels)) BY <1>6 DEF T
<1> QED BY <1>1, <1>7

(* A fork duplicates the branch: what the model is shown in the copy, from   *)
(* where the copy goes on, is what it was shown of the branch, if no label   *)
(* was between its entries and it has an assistant message                   *)
(* (create_branched_session).                                                *)
THEOREM ForkDuplicatesAlways == FilesSpec => ForkDuplicates
<1> DEFINE Same(to) == LET path == Branch(entries, to)
                       IN \/ Context(Branch(entries', leaf')) = Context(path)
                          \/ \E e \in ToSet(path) : e.kind = "label"
                          \/ ~Answered(path)
<1>1. ASSUME FileInv, NEW to \in EntryIds, Fork(to), faults = 0 PROVE Same(to)
  <2> DEFINE es == Load(disk[file])
             path == Branch(es, to)
             kept == Unlabelled(path)
  <2>1. to \in Forkable /\ to \in IdsOf(es) BY <1>1, ForkIs DEF FileInv, PathInv
  <2>2. /\ path \in Seq(Entries) /\ path # <<>> /\ Last(path).id = to
        /\ es \in Seq(Entries) /\ Distinct(es) /\ ToSet(es) \subseteq Everything
        /\ to \in AnyId /\ to \notin RecordIds
        /\ \A e \in ToSet(path) : e.kind # "record"
    BY <1>1, <2>1, ForkedPath DEF FileInv, PathInv
  <2>3. path = Branch(entries, to)
    <3>1. PICK e \in ToSet(es) : e.id = to BY <2>1, IdsAre
    <3>2. e.kind # "record" BY <2>2, <3>1 DEF RecordIds
    <3> QED BY <1>1, <3>1, <3>2, LoadedBranches
  <2>4. PICK labels \in Seq(Entries) :
          /\ LabelChain(labels, kept) /\ Forked(path) = kept \o labels
          /\ Answered(Forked(path)) => entries' = Forked(path)
    <3>1. \E labels \in Seq(Entries) :
            /\ LabelChain(labels, kept) /\ Forked(path) = kept \o labels
            /\ Answered(Forked(path)) => entries' = Forked(path)
      BY <1>1, ForkIs DEF FileInv, PathInv
    <3> HIDE DEF kept, path
    <3> QED BY <3>1
  <2>5. leaf' = LeafOf(entries') BY <1>1, ForkIs DEF FileInv, PathInv
  <2>6. minted \in Nat
    BY <1>1, SessionFilesAssumption DEF FileInv, PathInv, IdInv, FilesTypeOK
  <2> SUFFICES ASSUME \A e \in ToSet(path) : e.kind # "label", Answered(path)
               PROVE  Context(Branch(entries', leaf')) = Context(path)
    BY <2>3
  <2>7. kept = path
    <3>1. \A e \in ToSet(path) : e.kind \in EntryKinds \ {"label"}
      <4> TAKE e \in ToSet(path)
      <4>1. e \in Entries BY <2>2 DEF ToSet
      <4> QED BY <4>1, EntryFields
    <3> HIDE DEF path
    <3> QED BY <2>2, <3>1, OnlyAll DEF Unlabelled
  <2>8. Branch(path, LastId(path)) = path
    <3>1. LastId(path) = to BY <2>2 DEF LastId
    <3>2. to \in IdsOf(path)
      <4> HIDE DEF path
      <4>1. Len(path) \in DOMAIN path BY <2>2
      <4> QED BY <2>2, <4>1 DEF IdsOf, Last
    <3>3. Branch(Branch(es, to), to) = Branch(es, to)
      <4> HIDE DEF es
      <4> QED BY <2>2, <3>2, BranchOfBranch
    <3> QED BY <3>1, <3>3
  <2> HIDE DEF path, kept, es
  <2> DEFINE copy == path \o labels
  <2>9. Forked(path) = copy /\ LabelChain(labels, path) BY <2>4, <2>7
  <2>10. copy \in Seq(Entries) /\ ToSet(copy) = ToSet(path) \cup ToSet(labels) /\ copy # <<>>
    <3>1. ToSet(copy) = ToSet(path) \cup ToSet(labels) BY <2>2, ToSetConcat
    <3>2. copy \in Seq(Entries) BY <2>2
    <3>3. copy # <<>>
      <4>1. Len(copy) = Len(path) + Len(labels) /\ Len(path) # 0 /\ Len(path) \in Nat
            /\ Len(labels) \in Nat
        BY <2>2
      <4> QED BY <4>1
    <3> QED BY <3>1, <3>2, <3>3
  <2>11. Branch(copy, LastId(copy)) = copy /\ Context(copy) = Context(path)
    BY <2>2, <2>6, <2>8, <2>9, ChainIsBranch
  <2>12. Answered(copy)
    <3>1. PICK i \in DOMAIN path : path[i].kind = "assistant" BY DEF Answered
    <3>2. i \in DOMAIN copy /\ copy[i] = path[i] BY <2>2
    <3> QED BY <3>1, <3>2 DEF Answered
  <2>13. entries' = copy BY <2>4, <2>9, <2>12
  <2>14. LeafOf(copy) = LastId(copy)
    <3>1. \A e \in ToSet(copy) : e.kind \in EntryKinds \ {"record"}
      <4> TAKE e \in ToSet(copy)
      <4>1. e \in Entries BY <2>10 DEF ToSet
      <4>2. CASE e \in ToSet(path) BY <2>2, <4>1, <4>2, EntryFields
      <4>3. CASE e \in ToSet(labels)
        <5>1. PICK i \in 1..Len(labels) : labels[i] = e BY <4>3 DEF ToSet
        <5>2. e.kind = "label" BY <2>9, <5>1 DEF LabelChain
        <5> QED BY <5>2 DEF EntryKinds
      <4> QED BY <2>10, <4>2, <4>3
    <3> HIDE DEF copy
    <3>2. Conversation(copy) = copy BY <2>10, <3>1, OnlyAll DEF Conversation
    <3> QED BY <2>10, <3>2 DEF LeafOf, LastId
  <2> HIDE DEF copy
  <2> QED BY <2>5, <2>11, <2>13, <2>14
<1>2. ASSUME FileInv
      PROVE  \A to \in EntryIds : Fork(to) /\ faults = 0 => Same(to)
  BY <1>1, <1>2
<1> HIDE DEF Same
<1>3. FileInv /\ [FilesNext]_filesVars =>
        [\A to \in EntryIds : Fork(to) /\ faults = 0 => Same(to)]_filesVars
  BY <1>2
<1>4. FilesSpec => [][\A to \in EntryIds : Fork(to) /\ faults = 0 => Same(to)]_filesVars
  BY <1>3, FileAlways, PTL DEF FilesSpec
<1> QED BY <1>4 DEF ForkDuplicates, Same

-----------------------------------------------------------------------------
(* The coding session: a prompt that looks whether its run is retried does   *)
(* not miss the retry, for any number of requests, runs, retries, fallbacks  *)
(* and aborts.                                                               *)

(* A run in progress has no tail yet; a tail is of a run that began, and one *)
(* that has not been scheduled is of the last run that ended.                *)
Control ==
  /\ slot = "live" => runs \in Runs /\ tail[runs] = "none"
  /\ slot = "free" => runner = NoRequest
  /\ \A n \in Runs : tail[n] # "none" => n <= runs
  /\ \A n \in Runs : tail[n] = "begin" => LastEnded(n)
  /\ aborts = 0 => cancelled = {}

(* While the last run that ended is retried, whoever looks sees it.          *)
RetryPending == aborts = 0 => \A n \in Runs : LastEnded(n) /\ Retrying(n) => pending

IInv == TypeOK /\ Control /\ RetryPending

USE DEF agentVars, messageVars, retryVars, taskVars, abortVars, requestRest, tailRest,
        continueRest

-----------------------------------------------------------------------------
(* Types.                                                                    *)

(* A run begins with the slot taken by its request, or by none.              *)
LEMMA BeginTypes ==
  ASSUME TypeOK, Control, NEW who, BeginRun(who)
  PROVE  /\ slot' \in {"free", "live", "ended"} /\ runs' \in 0..MaxRuns
         /\ stopping' \in BOOLEAN /\ runner' = who /\ runner = NoRequest
<1>1. slot = "free" /\ runs < MaxRuns /\ slot' = "live" /\ runs' = runs + 1 /\ ~stopping'
      /\ runner' = who
  BY DEF BeginRun
<1>2. runs \in 0..MaxRuns /\ MaxRuns \in Nat BY CodingSessionAssumption DEF TypeOK
<1>3. runs' \in 0..MaxRuns BY <1>1, <1>2
<1>4. runner = NoRequest BY <1>1 DEF Control
<1>5. stopping' = FALSE BY DEF BeginRun
<1> QED BY <1>1, <1>3, <1>4, <1>5

(* A transcript that is read back, and the continuation after it.            *)
LEMMA CompactTypes ==
  ASSUME TypeOK
  PROVE  /\ \A m \in Messages : ReadBack(m) => last' \in Messages /\ restored' \in BOOLEAN
         /\ Compact => /\ last' \in Messages /\ restored' \in BOOLEAN
                       /\ waiting' \in Nat
<1>1. ASSUME NEW m \in Messages, ReadBack(m) PROVE last' \in Messages /\ restored' \in BOOLEAN
  <2>1. last' = m BY <1>1 DEF ReadBack
  <2>2. restored' \in BOOLEAN BY <1>1, Zenon DEF ReadBack
  <2> QED BY <2>1, <2>2
<1>2. ASSUME Compact PROVE last' \in Messages /\ restored' \in BOOLEAN /\ waiting' \in Nat
  <2>1. waiting' \in Nat BY <1>2 DEF Compact, Continue, TypeOK
  <2>2. ReadBack(log) \/ UNCHANGED <<last, restored>> BY <1>2 DEF Compact
  <2> QED BY <1>1, <2>1, <2>2 DEF TypeOK
<1> QED BY <1>1, <1>2

(* What a request does keeps the types.                                      *)
LEMMA RequestTypes ==
  ASSUME TypeOK, Control, NEW r \in Requests, Ask(r) \/ RequestStep(r) \/ TakeQueued(r)
  PROVE  TypeOK'
<1> USE CodingSessionAssumption DEF TypeOK, Stages
<1>1. CASE Ask(r) BY <1>1 DEF Ask, Moves, Goto
<1>2. CASE WindowOver(r) BY <1>2 DEF WindowOver, Moves, Goto
<1>3. CASE Decide(r) BY <1>3 DEF Decide, Moves, Goto
<1>4. CASE Queue(r) BY <1>4 DEF Queue, Goto
<1>5. CASE PromptCompacts(r)
  <2>1. last' \in Messages /\ restored' \in BOOLEAN /\ waiting' \in Nat
    BY <1>5, CompactTypes DEF PromptCompacts
  <2> QED BY <1>5, <2>1 DEF PromptCompacts, Goto
<1>6. CASE Start(r)
  <2>1. BeginRun(r) /\ pc[r] = "start" BY <1>6 DEF Start
  <2>2. \A q \in Requests : runner' = q <=> pc'[q] = "turn"
    BY <1>6, <2>1, BeginTypes DEF Start, Goto
  <2> QED BY <1>6, <2>1, <2>2, BeginTypes DEF Start, Goto, UserMessage, Messages
<1>7. CASE StartRefused(r) BY <1>7 DEF StartRefused, Moves, Goto
<1>8. CASE Enable(r) BY <1>8 DEF Enable, Goto
<1>9. CASE Look(r) BY <1>9 DEF Look, Moves, Goto
<1>10. CASE WakeUp(r) BY <1>10 DEF WakeUp, Moves, Goto
<1>11. CASE Settle(r) BY <1>11 DEF Settle, Moves, Goto
<1>12. CASE TakeQueued(r) BY <1>12 DEF TakeQueued, UserMessage, Messages
<1> QED
  BY <1>1, <1>2, <1>3, <1>4, <1>5, <1>6, <1>7, <1>8, <1>9, <1>10, <1>11, <1>12
  DEF RequestStep

(* What a tail does keeps the types.                                         *)
LEMMA TailTypes ==
  ASSUME TypeOK, NEW n \in Runs, TailStep(n)
  PROVE  TypeOK'
<1> USE CodingSessionAssumption DEF TypeOK, GotoTail
<1>a. Popped(last) \in Messages BY DEF Popped, Messages
<1>b. 0 \in Nat /\ 0 \in 0..MaxRetries OBVIOUS
<1>1. CASE FallBack(n) BY <1>1, <1>a, <1>b DEF FallBack, Continue
<1>2. CASE BackOff(n) BY <1>2, <1>a DEF BackOff, Retries
<1>3. CASE NoRetry(n) BY <1>3, <1>b DEF NoRetry, GivenUp, Resolve, Unheard
<1>4. CASE Slept(n) BY <1>4 DEF Slept, Continue
<1>5. CASE CancelledSleep(n)
  BY <1>5, <1>b DEF CancelledSleep, AttemptAfterCancel, Resolve, Unheard
<1>6. CASE CheckCompaction(n) BY <1>6, <1>a, ZenonT(30) DEF CheckCompaction
<1>7. CASE Compacted(n)
  <2>1. last' \in Messages /\ restored' \in BOOLEAN /\ waiting' \in Nat
    <3>1. CASE Compact BY <3>1, CompactTypes
    <3>2. CASE ReadBack(IF log = "error" THEN "user" ELSE log) /\ Continue
      <4>1. (IF log = "error" THEN "user" ELSE log) \in Messages BY DEF Messages
      <4>2. last' \in Messages /\ restored' \in BOOLEAN BY <3>2, <4>1, CompactTypes
      <4> QED BY <3>2, <4>2 DEF Continue
    <3>3. CASE UNCHANGED <<last, restored, waiting>> BY <3>3
    <3> QED BY <1>7, <3>1, <3>2, <3>3 DEF Compacted
  <2> QED BY <1>7, <2>1 DEF Compacted
<1> QED BY <1>1, <1>2, <1>3, <1>4, <1>5, <1>6, <1>7 DEF TailStep

(* The agent, its continuations and aborts keep the types.                   *)
LEMMA AgentTypes ==
  ASSUME TypeOK, Control, ReplyGoesOn \/ RunStep \/ ContinueStep
  PROVE  TypeOK'
<1> USE CodingSessionAssumption DEF TypeOK
<1>b. 0 \in Nat /\ 0 \in 0..MaxRetries /\ 0 \in 0..Candidates OBVIOUS
<1>1. CASE ReplyGoesOn BY <1>1, <1>b DEF ReplyGoesOn, Messages
<1>2. CASE Release BY <1>2 DEF Release, Stages
<1>3. ASSUME NEW kind \in Kinds, RunEnds(kind) PROVE TypeOK'
  <2>1. last' \in Messages /\ log' \in Messages BY <1>3 DEF RunEnds, Messages
  <2>2. attempt' \in 0..MaxRetries /\ fallbacks' \in 0..Candidates /\ tried' \in BOOLEAN
        /\ pending' \in BOOLEAN /\ slot' = "ended"
    BY <1>3, <1>b DEF RunEnds, Armed
  <2>3. /\ tail' \in [Runs -> {"none", "begin", "backoff", "check", "compact", "done"}]
        /\ reply' \in [Runs -> Kinds \cup {"none"}]
    BY <1>3 DEF RunEnds
  <2> QED BY <1>3, <2>1, <2>2, <2>3 DEF RunEnds
<1>4. CASE SeeIdle BY <1>4 DEF SeeIdle
<1>5. CASE ContinueRun
  <2>1. BeginRun(NoRequest) BY <1>5 DEF ContinueRun
  <2> QED BY <1>5, <2>1, BeginTypes DEF ContinueRun
<1>6. CASE ContinueFails BY <1>6 DEF ContinueFails
<1>7. ASSUME NEW r \in Requests, ContinueQueued(r) PROVE TypeOK'
  <2>1. BeginRun(NoRequest) BY <1>7 DEF ContinueQueued
  <2>2. last' \in Messages /\ log' \in Messages /\ tried' \in BOOLEAN /\ queue' \subseteq Requests
    BY <1>7 DEF ContinueQueued, UserMessage, Messages
  <2>3. continuing' \in Nat BY <1>7 DEF ContinueQueued
  <2> QED BY <1>7, <2>1, <2>2, <2>3, BeginTypes DEF ContinueQueued
<1> QED BY <1>1, <1>2, <1>3, <1>4, <1>5, <1>6, <1>7 DEF RunStep, ContinueStep

(* Every step keeps the types.                                               *)
LEMMA TypeStep == ASSUME TypeOK, Control, [Next]_vars PROVE TypeOK'
<1>1. ASSUME NEW thenRun \in BOOLEAN, AbortRetry(thenRun) PROVE TypeOK'
  <2>1. aborts' \in 0..MaxAborts BY <1>1, CodingSessionAssumption DEF AbortRetry, TypeOK
  <2>2. cancelled' \subseteq Runs /\ pending' \in BOOLEAN /\ armed' \subseteq Requests
    BY <1>1 DEF AbortRetry, Resolve, Unheard, TypeOK
  <2> QED BY <1>1, <2>1, <2>2 DEF AbortRetry, TypeOK
<1>2. CASE AbortRun BY <1>2 DEF AbortRun, TypeOK
<1>3. CASE UNCHANGED vars BY <1>3 DEF vars, TypeOK
<1> QED BY <1>1, <1>2, <1>3, RequestTypes, TailTypes, AgentTypes DEF Next

-----------------------------------------------------------------------------
(* The order in which runs and their tails come.                             *)

(* What the tails and the retry are read from stays as it is.                *)
Calm == UNCHANGED <<tail, reply, pending, attempt, fallbacks, cancelled, aborts>>

(* The steps that begin a run, and those that leave the agent alone as well. *)
LEMMA CalmSteps ==
  /\ \A r \in Requests : Ask(r) \/ WindowOver(r) \/ Decide(r) \/ Queue(r) \/ PromptCompacts(r)
                         \/ StartRefused(r) \/ Enable(r) \/ Look(r) \/ WakeUp(r) \/ Settle(r)
       => Calm /\ UNCHANGED <<slot, runner, runs>>
  /\ \A r \in Requests : TakeQueued(r) => Calm /\ UNCHANGED <<slot, runner, runs>>
  /\ \A r \in Requests : Start(r) => Calm /\ BeginRun(r)
  /\ \A r \in Requests : ContinueQueued(r) => Calm /\ BeginRun(NoRequest)
  /\ ContinueRun => Calm /\ BeginRun(NoRequest)
  /\ SeeIdle \/ ContinueFails \/ AbortRun => Calm /\ UNCHANGED <<slot, runner, runs>>
  /\ Release => Calm /\ slot' = "free" /\ runner' = NoRequest /\ runs' = runs
BY DEF Calm, Ask, WindowOver, Decide, Queue, PromptCompacts, StartRefused, Enable, Look, WakeUp,
       Settle, Moves, TakeQueued, Start, ContinueQueued, ContinueRun, SeeIdle, ContinueFails,
       AbortRun, Release

(* A tail that moves on has begun, and leaves the others and the agent.      *)
LEMMA TailMoves ==
  ASSUME TypeOK, NEW n \in Runs, TailStep(n)
  PROVE  /\ tail[n] # "none" /\ tail'[n] \notin {"none", "begin"}
         /\ tail'[n] = "backoff" => pending'
         /\ \A m \in Runs \ {n} : tail'[m] = tail[m] /\ reply'[m] = reply[m]
         /\ cancelled' \subseteq cancelled /\ UNCHANGED <<slot, runner, runs, aborts>>
BY DEF TypeOK, TailStep, FallBack, BackOff, NoRetry, Slept, CancelledSleep, CheckCompaction,
       Compacted, GotoTail

(* Every step keeps runs and tails in order.                                 *)
LEMMA ControlStep == ASSUME TypeOK, Control, [Next]_vars PROVE Control'
<1>a. runs \in 0..MaxRuns /\ MaxRuns \in Nat /\ aborts \in Nat
      /\ tail \in [Runs -> {"none", "begin", "backoff", "check", "compact", "done"}]
  BY CodingSessionAssumption DEF TypeOK
<1>1. ASSUME Calm, UNCHANGED <<slot, runner, runs>> PROVE Control'
  BY <1>1 DEF Calm, Control, LastEnded
<1>2. ASSUME Calm, NEW who, BeginRun(who) PROVE Control'
  <2>1. runs < MaxRuns /\ runs' = runs + 1 /\ slot' = "live" BY <1>2 DEF BeginRun
  <2>2. runs' \in Runs BY <1>a, <2>1 DEF Runs
  <2>3. \A n \in Runs : tail[n] # "none" => n <= runs /\ n <= runs'
    BY <1>a, <2>1 DEF Control, Runs
  <2>4. tail[runs'] = "none" BY <1>a, <2>1, <2>2, <2>3
  <2> QED BY <1>2, <2>1, <2>2, <2>3, <2>4 DEF Calm, Control, LastEnded
<1>3. ASSUME Calm, slot' = "free", runner' = NoRequest, runs' = runs PROVE Control'
  BY <1>3 DEF Calm, Control, LastEnded
<1>4. CASE ReplyGoesOn
  BY <1>4 DEF ReplyGoesOn, Control, LastEnded
<1>5. ASSUME NEW kind \in Kinds, RunEnds(kind) PROVE Control'
  <2>1. /\ slot = "live" /\ slot' = "ended" /\ UNCHANGED <<runs, cancelled, aborts>>
        /\ \A n \in Runs : tail[n] # "begin"
        /\ tail' = [tail EXCEPT ![runs] = "begin"] /\ runs \in Runs
    BY <1>5 DEF RunEnds, TailsScheduled, Control
  <2>2. \A n \in Runs : tail'[n] # "none" => n <= runs BY <1>a, <2>1 DEF Control
  <2>3. \A n \in Runs : tail'[n] = "begin" => n = runs BY <1>a, <2>1
  <2>4. \A m \in Runs : m > runs => tail'[m] = "none" BY <1>a, <2>2 DEF Runs
  <2> QED BY <2>1, <2>2, <2>3, <2>4 DEF Control, LastEnded
<1>6. ASSUME NEW n \in Runs, TailStep(n) PROVE Control'
  <2>1. \A m \in Runs : /\ tail'[m] = "none" <=> tail[m] = "none"
                        /\ tail'[m] = "begin" => tail[m] = "begin"
    BY <1>6, TailMoves
  <2>2. cancelled' \subseteq cancelled /\ UNCHANGED <<slot, runner, runs, aborts>>
    BY <1>6, TailMoves
  <2> QED BY <2>1, <2>2 DEF Control, LastEnded
<1>7. ASSUME NEW thenRun, AbortRetry(thenRun) PROVE Control'
  <2>1. aborts' # 0 BY <1>a, <1>7 DEF AbortRetry
  <2> QED BY <1>7, <2>1 DEF AbortRetry, Control, LastEnded
<1>8. CASE UNCHANGED vars BY <1>8 DEF vars, Control, LastEnded
<1> QED
  BY <1>1, <1>2, <1>3, <1>4, <1>5, <1>6, <1>7, <1>8, CalmSteps
  DEF Next, RequestStep, ContinueStep, RunStep

-----------------------------------------------------------------------------
(* The retry that is armed.                                                  *)

(* A run that ends arms the retry its tail will make.                        *)
LEMMA EndArms ==
  ASSUME TypeOK, Control, NEW kind \in Kinds, RunEnds(kind)
  PROVE  RetryPending'
<1>1. /\ runs \in Runs /\ tail' = [tail EXCEPT ![runs] = "begin"]
      /\ reply' = [reply EXCEPT ![runs] = kind] /\ pending' = (pending \/ Armed(kind))
  BY DEF RunEnds, Control
<1>2. tail'[runs] = "begin" /\ reply'[runs] = kind BY <1>1 DEF TypeOK
<1>3. ASSUME NEW n \in Runs, LastEnded(n)', Retrying(n)' PROVE pending'
  <2>1. n = runs
    <3>1. ~(runs > n) BY <1>1, <1>2, <1>3 DEF LastEnded
    <3>2. tail'[n] # "none" BY <1>3 DEF Retrying
    <3>3. n <= runs \/ n = runs BY <1>1, <3>2 DEF Control, TypeOK
    <3> QED BY <1>1, <3>1, <3>3 DEF Runs
  <2>2. Retries(n)' \/ (kind = "refused" /\ fallbacks' > 0) BY <1>2, <1>3, <2>1 DEF Retrying
  <2>3. CASE Retries(n)'
    <3>1. kind = "transient" /\ attempt' = attempt /\ attempt' < MaxRetries
      BY <1>2, <2>1, <2>3 DEF Retries, RunEnds
    <3>2. MaxRetries > 0 BY <3>1, CodingSessionAssumption DEF TypeOK
    <3> QED BY <1>1, <3>1, <3>2 DEF Armed
  <2>4. CASE kind = "refused" /\ fallbacks' > 0
    <3>1. fallbacks' = fallbacks BY <2>4 DEF RunEnds
    <3> QED BY <1>1, <2>4, <3>1 DEF Armed
  <2> QED BY <2>2, <2>3, <2>4
<1> QED BY <1>3 DEF RetryPending

(* A tail that gives up is of the last run that ended, so no other retry was *)
(* pending.                                                                  *)
LEMMA TailKeeps ==
  ASSUME IInv, NEW n \in Runs, TailStep(n), aborts' = 0
  PROVE  RetryPending'
<1>a. TypeOK /\ Control /\ RetryPending BY DEF IInv
<1>1. /\ tail[n] # "none" /\ tail'[n] \notin {"none", "begin"}
      /\ tail'[n] = "backoff" => pending'
      /\ \A m \in Runs \ {n} : tail'[m] = tail[m] /\ reply'[m] = reply[m]
      /\ aborts = 0 /\ cancelled = {}
  BY <1>a, TailMoves DEF Control
<1>2. CASE pending' BY <1>2 DEF RetryPending
<1>3. CASE NoRetry(n)
  <2>1. \A m \in Runs : m > n => tail[m] = "none"
    BY <1>a, <1>3 DEF NoRetry, Control, LastEnded
  <2>2. ASSUME NEW m \in Runs, LastEnded(m)', Retrying(m)' PROVE FALSE
    <3>1. ~(n > m) BY <1>1, <2>2 DEF LastEnded
    <3>2. m # n
      <4>1. tail'[n] = "check" BY <1>a, <1>3 DEF NoRetry, GotoTail, TypeOK
      <4> QED BY <2>2, <4>1 DEF Retrying
    <3>3. m > n BY <3>1, <3>2 DEF Runs
    <3>4. tail'[m] = "none" BY <1>1, <2>1, <3>2, <3>3
    <3> QED BY <2>2, <3>4 DEF Retrying
  <2> QED BY <2>2 DEF RetryPending
<1>4. CASE UNCHANGED <<pending, attempt, fallbacks>> /\ ~pending
  <2>1. ASSUME NEW m \in Runs, LastEnded(m)', Retrying(m)' PROVE LastEnded(m) /\ Retrying(m)
    <3>1. LastEnded(m) BY <1>1, <2>1 DEF LastEnded
    <3>2. m # n BY <1>1, <1>4, <2>1 DEF Retrying
    <3> QED BY <1>1, <1>4, <2>1, <3>1, <3>2 DEF Retrying, Retries
  <2> QED BY <1>1, <1>4, <1>a, <2>1 DEF RetryPending
<1>5. ~CancelledSleep(n) BY <1>1 DEF CancelledSleep
<1>6. \/ FallBack(n) \/ BackOff(n) \/ NoRetry(n) \/ Slept(n) \/ CheckCompaction(n)
      \/ Compacted(n)
  BY <1>5 DEF TailStep
<1>7. CASE FallBack(n) \/ BackOff(n) BY <1>2, <1>7 DEF FallBack, BackOff
<1>8. CASE Slept(n) \/ CheckCompaction(n) \/ Compacted(n)
  <2>1. UNCHANGED <<pending, attempt, fallbacks>>
    BY <1>8 DEF Slept, CheckCompaction, Compacted
  <2> QED BY <1>2, <1>4, <2>1
<1> QED BY <1>3, <1>6, <1>7, <1>8

(* Every step keeps the retry of the last run that ended pending.            *)
LEMMA PendingStep == ASSUME IInv, [Next]_vars PROVE RetryPending'
<1>a. TypeOK /\ Control /\ RetryPending BY DEF IInv
<1>1. ASSUME Calm PROVE RetryPending'
  BY <1>a, <1>1 DEF Calm, RetryPending, LastEnded, Retrying, Retries
<1>2. CASE ReplyGoesOn
  BY <1>a, <1>2 DEF ReplyGoesOn, TailsScheduled, RetryPending, LastEnded, Retrying
<1>3. ASSUME NEW kind \in Kinds, RunEnds(kind) PROVE RetryPending' BY <1>a, <1>3, EndArms
<1>4. ASSUME NEW n \in Runs, TailStep(n) PROVE RetryPending'
  <2>1. CASE aborts' = 0 BY <1>4, <2>1, TailKeeps
  <2>2. CASE aborts' # 0 BY <2>2 DEF RetryPending
  <2> QED BY <2>1, <2>2
<1>5. ASSUME NEW thenRun, AbortRetry(thenRun) PROVE RetryPending'
  <2>1. aborts' # 0 BY <1>a, <1>5 DEF AbortRetry, TypeOK
  <2> QED BY <2>1 DEF RetryPending
<1>6. CASE UNCHANGED vars BY <1>1, <1>6 DEF vars, Calm
<1> QED
  BY <1>1, <1>2, <1>3, <1>4, <1>5, <1>6, CalmSteps DEF Next, RequestStep, ContinueStep, RunStep

(* A new session.                                                            *)
LEMMA InitIInv == Init => IInv
<1> SUFFICES ASSUME Init PROVE IInv OBVIOUS
<1>1. TypeOK
  <2>1. 0 \in 0..MaxRuns /\ 0 \in 0..MaxRetries /\ 0 \in 0..MaxAborts /\ 0 \in Nat
        /\ fallbacks \in 0..Candidates
    BY CodingSessionAssumption DEF Init
  <2>2. \A r \in Requests : runner = r <=> pc[r] = "turn"
    BY CodingSessionAssumption DEF Init
  <2> QED BY <2>1, <2>2 DEF Init, TypeOK, Stages, Messages
<1>2. Control /\ RetryPending
  BY DEF Init, Control, RetryPending, Retrying
<1> QED BY <1>1, <1>2 DEF IInv

(* Types, the order of runs and tails, and the retry that is pending.        *)
THEOREM Invariance == Spec => []IInv
<1>1. IInv /\ [Next]_vars => IInv' BY TypeStep, ControlStep, PendingStep DEF IInv
<1> QED BY InitIInv, <1>1, PTL DEF Spec

(* The types, and that the runner of a run is the request that awaits it.    *)
THEOREM TypeCorrect == Spec => []TypeOK
<1>1. IInv => TypeOK BY DEF IInv
<1> QED BY <1>1, Invariance, PTL

(* Who goes on from its look has seen nothing pending.                       *)
LEMMA Looked ==
  ASSUME TypeOK, [Next]_vars, NEW r \in Requests, pc[r] = "look", pc'[r] = "settle"
  PROVE  ~pending
<1>1. pc \in [Requests -> Stages] BY DEF TypeOK
<1>2. ASSUME NEW q \in Requests, NEW stage, Goto(q, stage), pc[q] # "look" PROVE FALSE
  BY <1>1, <1>2 DEF Goto
<1>3. ASSUME NEW q \in Requests, Look(q) PROVE ~pending
  BY <1>1, <1>3 DEF Look, Moves, Goto
<1>4. ASSUME NEW q \in Requests, Ask(q) \/ RequestStep(q) \/ TakeQueued(q), ~Look(q)
      PROVE  FALSE
  <2>1. CASE Ask(q) BY <1>2, <2>1 DEF Ask, Moves
  <2>2. CASE WindowOver(q) BY <1>2, <2>2 DEF WindowOver, Moves
  <2>3. CASE Decide(q) BY <1>2, <2>3 DEF Decide, Moves
  <2>4. CASE Queue(q) BY <1>2, <2>4 DEF Queue
  <2>5. CASE PromptCompacts(q) BY <1>2, <2>5 DEF PromptCompacts
  <2>6. CASE Start(q) BY <1>2, <2>6 DEF Start
  <2>7. CASE StartRefused(q) BY <1>2, <2>7 DEF StartRefused, Moves
  <2>8. CASE Enable(q) BY <1>2, <2>8 DEF Enable
  <2>9. CASE WakeUp(q) BY <1>2, <2>9 DEF WakeUp, Moves
  <2>10. CASE Settle(q) BY <1>2, <2>10 DEF Settle, Moves
  <2>11. CASE TakeQueued(q) BY <2>11 DEF TakeQueued
  <2> QED
    BY <1>4, <2>1, <2>2, <2>3, <2>4, <2>5, <2>6, <2>7, <2>8, <2>9, <2>10, <2>11
    DEF RequestStep
<1>5. CASE Release BY <1>1, <1>5 DEF Release
<1>6. ASSUME NEW n \in Runs, TailStep(n) PROVE FALSE
  BY <1>6 DEF TailStep, FallBack, BackOff, NoRetry, Slept, CancelledSleep, CheckCompaction,
     Compacted
<1>7. ASSUME pc' = pc PROVE FALSE BY <1>7
<1>8. CASE ReplyGoesOn \/ AbortRun \/ UNCHANGED vars
  BY <1>7, <1>8 DEF ReplyGoesOn, AbortRun, vars
<1>9. ASSUME NEW kind, RunEnds(kind) \/ AbortRetry(kind) PROVE FALSE
  BY <1>7, <1>9 DEF RunEnds, AbortRetry
<1>10. CASE ContinueStep
  BY <1>7, <1>10 DEF ContinueStep, SeeIdle, ContinueRun, ContinueFails, ContinueQueued
<1> QED BY <1>3, <1>4, <1>5, <1>6, <1>8, <1>9, <1>10 DEF Next, RunStep

(* A prompt that looks before its tail has run does not miss the retry.      *)
THEOREM RetryNotMissedAlways == Spec => RetryNotMissed
<1>1. ASSUME IInv, [Next]_vars
      PROVE  [\A r \in Requests :
                pc[r] = "look" /\ pc'[r] = "settle" /\ aborts = 0
                  => \A n \in Runs : LastEnded(n) => ~Retrying(n)]_vars
  <2>1. ASSUME NEW r \in Requests, pc[r] = "look", pc'[r] = "settle" PROVE ~pending
    BY <1>1, <2>1, Looked DEF IInv
  <2> QED BY <1>1, <2>1 DEF IInv, RetryPending
<1> QED BY <1>1, Invariance, PTL DEF Spec, RetryNotMissed
=============================================================================
