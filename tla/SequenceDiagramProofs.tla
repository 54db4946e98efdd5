----------------------- MODULE SequenceDiagramProofs -----------------------
(***************************************************************************)
(* Proofs about SequenceDiagram, for any endpoints, whatever they state    *)
(* and however they call each other, and any entries.                      *)
(***************************************************************************)
EXTENDS SequenceDiagram, FiniteSetTheorems, TLAPS

Frames == [ep: Endpoint, pos: Nat \ {0}, live: BOOLEAN]

---------------------------------------------------------------------------
(* Counting                                                                *)

LEMMA MarksAreFinite ==
  ASSUME NEW s, NEW kind, NEW n \in Nat
  PROVE  IsFiniteSet(Marks(s, kind, n)) /\ Cardinality(Marks(s, kind, n)) \in Nat
<1>1. IsFiniteSet(1..n)
  BY FS_Interval
<1>2. Marks(s, kind, n) \in SUBSET (1..n)
  BY DEF Marks
<1> QED
  BY <1>1, <1>2, FS_Subset, FS_CardinalityType

LEMMA OneMore ==
  ASSUME NEW s, NEW kind, NEW n \in Nat \ {0}
  PROVE  Cardinality(Marks(s, kind, n))
           = Cardinality(Marks(s, kind, n - 1)) + (IF s[n].kind = kind THEN 1 ELSE 0)
<1>1. CASE s[n].kind = kind
  <2>1. Marks(s, kind, n) = Marks(s, kind, n - 1) \cup {n}
    BY <1>1 DEF Marks
  <2>2. n \notin Marks(s, kind, n - 1)
    BY DEF Marks
  <2>3. IsFiniteSet(Marks(s, kind, n - 1))
    BY MarksAreFinite
  <2> QED
    BY <1>1, <2>1, <2>2, <2>3, FS_AddElement
<1>2. CASE s[n].kind # kind
  <2>1. Marks(s, kind, n) = Marks(s, kind, n - 1)
    BY <1>2 DEF Marks
  <2> QED
    BY <1>2, <2>1, MarksAreFinite
<1> QED
  BY <1>1, <1>2

LEMMA PassedIsFinite ==
  ASSUME NEW b, NEW st, NEW kind, NEW n \in Nat, \A i \in 1..n : st[i].pos \in Nat \ {0}
  PROVE  /\ IsFiniteSet(PassedBy(b, st, kind, n))
         /\ Cardinality(PassedBy(b, st, kind, n)) \in Nat
<1> DEFINE Part(i) == {i} \X Marks(b[st[i].ep], kind, st[i].pos - 1)
           f == [i \in 1..n |-> Part(i)]
           T == {Part(i) : i \in 1..n}
<1>1. IsFiniteSet(T)
  <2>1. f \in Surjection(1..n, T)
    BY DEF Surjection
  <2> QED
    BY <2>1, FS_Interval, FS_Surjection
<1>2. ASSUME NEW i \in 1..n PROVE IsFiniteSet(Part(i))
  <2>1. IsFiniteSet(Marks(b[st[i].ep], kind, st[i].pos - 1))
    BY MarksAreFinite
  <2> QED
    BY <2>1, FS_Singleton, FS_Product
<1>3. \A t \in T : IsFiniteSet(t)
  BY <1>2
<1>4. PassedBy(b, st, kind, n) = UNION T
  BY DEF PassedBy
<1> QED
  BY <1>1, <1>3, <1>4, FS_UNION, FS_CardinalityType

(* What a stack is past is what it is past without its top, and what the   *)
(* top is past.                                                            *)
LEMMA PassedByTop ==
  ASSUME NEW b, NEW st, NEW kind, NEW n \in Nat \ {0},
         \A i \in 1..n : st[i].pos \in Nat \ {0}
  PROVE  Cardinality(PassedBy(b, st, kind, n))
           = Cardinality(PassedBy(b, st, kind, n - 1))
               + Cardinality(Marks(b[st[n].ep], kind, st[n].pos - 1))
<1> DEFINE M == Marks(b[st[n].ep], kind, st[n].pos - 1)
           P == PassedBy(b, st, kind, n - 1)
<1>1. PassedBy(b, st, kind, n) = P \cup ({n} \X M)
  BY DEF PassedBy
<1>2. P \cap ({n} \X M) = {}
  BY DEF PassedBy
<1>3. IsFiniteSet(M) /\ Cardinality(M) \in Nat
  BY MarksAreFinite
<1>4. IsFiniteSet({n}) /\ Cardinality({n}) = 1
  BY FS_Singleton
<1>5. IsFiniteSet({n} \X M) /\ Cardinality({n} \X M) = Cardinality(M)
  BY SMTT(60), <1>3, <1>4, FS_Product
<1>6. IsFiniteSet(P) /\ Cardinality(P) \in Nat
  BY PassedIsFinite
<1>7. Cardinality(P \cup ({n} \X M))
        = Cardinality(P) + Cardinality({n} \X M) - Cardinality(P \cap ({n} \X M))
  BY <1>5, <1>6, FS_Union
<1>8. Cardinality(P \cap ({n} \X M)) = 0
  BY <1>2, FS_EmptySet
<1> QED
  BY <1>1, <1>3, <1>5, <1>6, <1>7, <1>8

LEMMA PassedByNone ==
  ASSUME NEW b, NEW st, NEW kind
  PROVE  PassedBy(b, st, kind, 0) = {} /\ Cardinality(PassedBy(b, st, kind, 0)) = 0
<1>1. PassedBy(b, st, kind, 0) = {}
  BY DEF PassedBy
<1> QED
  BY <1>1, FS_EmptySet

LEMMA PassedBySame ==
  ASSUME NEW b, NEW st, NEW tt, NEW kind, NEW n \in Nat,
         \A i \in 1..n : st[i].ep = tt[i].ep /\ st[i].pos = tt[i].pos
  PROVE  PassedBy(b, st, kind, n) = PassedBy(b, tt, kind, n)
BY DEF PassedBy

---------------------------------------------------------------------------
(* The stack                                                               *)

LEMMA CallsNameEndpoints ==
  ASSUME NEW s \in Statement, s.kind = "call"
  PROVE  s.to \in Endpoint
BY DEF Statement

(* The frame on top, and its body.                                         *)
LEMMA TopFacts ==
  ASSUME IInv, stack # <<>>
  PROVE  /\ Len(stack) \in Nat \ {0}
         /\ \A i \in 1..Len(stack) : stack[i] \in Frames
         /\ Top = stack[Len(stack)] /\ Top \in Frames
         /\ Top.ep \in Endpoint /\ Top.ep \in expanded
         /\ body[Top.ep] \in Seq(Statement) /\ Nests(body[Top.ep])
         /\ section > 0
<1>1. stack \in Seq(Frames) /\ body \in [Endpoint -> Seq(Statement)]
  BY DEF IInv, TypeOK, Frames
<1>2. Len(stack) \in Nat \ {0} /\ \A i \in 1..Len(stack) : stack[i] \in Frames
  BY <1>1
<1>3. Top \in Frames /\ Top.ep \in Endpoint /\ Top.ep \in OpenEndpoints
  BY <1>1, <1>2 DEF Top, Frames, OpenEndpoints
<1>4. Nests(body[Top.ep])
  BY <1>3, DiagramAssumption DEF IInv
<1>5. section \in Nat /\ section # 0
  <2>1. entries \in Seq(Entry) /\ section \in 0..Len(entries)
    BY DEF IInv, TypeOK
  <2> QED
    BY <2>1 DEF IInv
<1> QED
  BY <1>1, <1>2, <1>3, <1>4, <1>5 DEF Top, IInv

(* A statement is passed: nothing but the position of the top frame and    *)
(* whether it is live changes.                                             *)
LEMMA AdvancedFacts ==
  ASSUME IInv, stack # <<>>, NEW live \in BOOLEAN
  PROVE  LET n == Len(stack) IN
         /\ Advanced(live) \in Seq(Frames)
         /\ Len(Advanced(live)) = n
         /\ \A i \in 1..(n - 1) : Advanced(live)[i] = stack[i]
         /\ Advanced(live)[n].ep = Top.ep
         /\ Advanced(live)[n].pos = Top.pos + 1
         /\ Advanced(live)[n].live = live
<1>1. stack \in Seq(Frames)
  BY DEF IInv, TypeOK, Frames
<1>2. Len(stack) \in Nat \ {0} /\ Top \in Frames /\ Top = stack[Len(stack)]
  BY TopFacts
<1> DEFINE f == [[Top EXCEPT !.pos = @ + 1] EXCEPT !.live = live]
<1>3. f \in Frames /\ f.ep = Top.ep /\ f.pos = Top.pos + 1 /\ f.live = live
  <2>1. [Top EXCEPT !.pos = @ + 1] \in [ep: Endpoint, pos: Nat \ {0}, live: BOOLEAN]
    BY <1>2 DEF Frames
  <2>2. f \in [ep: Endpoint, pos: Nat \ {0}, live: BOOLEAN]
    BY <2>1
  <2> QED
    BY <1>2, <2>1, <2>2 DEF Frames
<1>4. Advanced(live) = [stack EXCEPT ![Len(stack)] = f]
  BY <1>1, <1>2 DEF Advanced
<1> HIDE DEF f
<1> QED
  BY <1>1, <1>2, <1>3, <1>4

LEMMA PushedFacts ==
  ASSUME NEW st \in Seq(Frames), NEW f \in Frames
  PROVE  /\ Append(st, f) \in Seq(Frames)
         /\ Len(Append(st, f)) = Len(st) + 1 /\ Len(st) \in Nat
         /\ \A i \in 1..Len(st) : Append(st, f)[i] = st[i]
         /\ Append(st, f)[Len(st) + 1] = f
OBVIOUS

LEMMA PoppedFacts ==
  ASSUME NEW st \in Seq(Frames), st # <<>>
  PROVE  LET rest == SubSeq(st, 1, Len(st) - 1) IN
         /\ rest \in Seq(Frames)
         /\ Len(rest) = Len(st) - 1 /\ Len(rest) \in Nat
         /\ \A i \in 1..Len(rest) : rest[i] = st[i]
<1>1. Len(st) \in Nat \ {0} /\ st \in [1..Len(st) -> Frames]
  OBVIOUS
<1>2. SubSeq(st, 1, Len(st) - 1) = [i \in 1..(Len(st) - 1) |-> st[i]]
  BY <1>1
<1> QED
  BY <1>1, <1>2

LEMMA FrameFacts ==
  ASSUME NEW e \in Endpoint
  PROVE  /\ Frame(e) \in Frames /\ Frame(e).ep = e /\ Frame(e).pos = 1
         /\ Frame(e).live = (AppOf[e] \notin Suppressed)
BY DEF Frame, Frames

---------------------------------------------------------------------------
(* Blocks and indentation                                                  *)

Count(st, kind, n) == Cardinality(PassedBy(body, st, kind, n))

NestsUpTo(st, n) == \A m \in 0..n : Count(st, "close", m) <= Count(st, "open", m)

LEMMA CountsAreNat ==
  ASSUME NEW st \in Seq(Frames), NEW n \in 0..Len(st), NEW kind
  PROVE  Count(st, kind, n) \in Nat
<1>1. n \in Nat /\ 1..n \subseteq 1..Len(st)
  OBVIOUS
<1>2. \A i \in 1..Len(st) : st[i].pos \in Nat \ {0}
  <2>1. \A i \in 1..Len(st) : st[i] \in Frames
    OBVIOUS
  <2> QED
    BY <2>1 DEF Frames
<1> QED
  BY <1>1, <1>2, PassedIsFinite DEF Count

LEMMA CountOfTop ==
  ASSUME NEW st \in Seq(Frames), NEW n \in 1..Len(st), NEW kind
  PROVE  Count(st, kind, n)
           = Count(st, kind, n - 1) + Cardinality(Marks(body[st[n].ep], kind, st[n].pos - 1))
<1>1. n \in Nat \ {0} /\ 1..n \subseteq 1..Len(st)
  OBVIOUS
<1>2. \A i \in 1..Len(st) : st[i].pos \in Nat \ {0}
  <2>1. \A i \in 1..Len(st) : st[i] \in Frames
    OBVIOUS
  <2> QED
    BY <2>1 DEF Frames
<1> QED
  BY <1>1, <1>2, PassedByTop DEF Count

LEMMA CountSame ==
  ASSUME NEW st, NEW tt, NEW n \in Nat, NEW kind,
         \A i \in 1..n : st[i].ep = tt[i].ep /\ st[i].pos = tt[i].pos
  PROVE  Count(st, kind, n) = Count(tt, kind, n)
BY PassedBySame DEF Count

(* A frame that is pushed is past nothing.                                 *)
LEMMA CountPushed ==
  ASSUME NEW st \in Seq(Frames), NEW f \in Frames, f.pos = 1, NEW kind
  PROVE  /\ \A m \in 0..Len(st) : Count(Append(st, f), kind, m) = Count(st, kind, m)
         /\ Count(Append(st, f), kind, Len(st) + 1) = Count(st, kind, Len(st))
<1> DEFINE tt == Append(st, f)
           n == Len(st) + 1
<1>1. tt \in Seq(Frames) /\ Len(tt) = n /\ Len(st) \in Nat /\ tt[n] = f
  BY PushedFacts
<1>2. \A i \in 1..Len(st) : tt[i] = st[i]
  BY PushedFacts
<1>3. ASSUME NEW m \in 0..Len(st) PROVE Count(tt, kind, m) = Count(st, kind, m)
  <2>1. m \in Nat /\ 1..m \subseteq 1..Len(st)
    BY <1>1
  <2> QED
    BY <1>2, <2>1, CountSame
<1>4. Count(tt, kind, n) = Count(tt, kind, n - 1) + Cardinality(Marks(body[f.ep], kind, 0))
  <2>1. n \in 1..Len(tt) /\ tt[n].pos - 1 = 0
    BY <1>1
  <2> QED
    BY <1>1, <2>1, CountOfTop
<1>5. Cardinality(Marks(body[f.ep], kind, 0)) = 0
  <2>1. Marks(body[f.ep], kind, 0) = {}
    BY DEF Marks
  <2> QED
    BY <2>1, FS_EmptySet
<1>6. Count(st, kind, Len(st)) \in Nat
  BY CountsAreNat
<1>7. Count(tt, kind, n - 1) = Count(st, kind, Len(st))
  BY <1>1, <1>3
<1>8. Count(tt, kind, n) = Count(st, kind, Len(st))
  BY <1>4, <1>5, <1>6, <1>7
<1> QED
  BY <1>3, <1>8

(* A statement that is passed counts once, in its own kind.                *)
LEMMA CountAdvanced ==
  ASSUME IInv, stack # <<>>, NEW live \in BOOLEAN, NEW kind
  PROVE  LET n == Len(stack) IN
         /\ \A m \in 0..(n - 1) : Count(Advanced(live), kind, m) = Count(stack, kind, m)
         /\ Count(Advanced(live), kind, n)
              = Count(stack, kind, n)
                  + (IF body[Top.ep][Top.pos].kind = kind THEN 1 ELSE 0)
<1> DEFINE n == Len(stack)
           tt == Advanced(live)
           M(p) == Cardinality(Marks(body[Top.ep], kind, p))
<1>1. /\ n \in Nat \ {0} /\ stack \in Seq(Frames)
      /\ Top \in Frames /\ Top = stack[n]
  BY TopFacts DEF IInv, TypeOK, Frames
<1>2. /\ tt \in Seq(Frames) /\ Len(tt) = n
      /\ tt[n].ep = Top.ep /\ tt[n].pos = Top.pos + 1
      /\ \A i \in 1..(n - 1) : tt[i] = stack[i]
  BY AdvancedFacts
<1>3. ASSUME NEW m \in 0..(n - 1) PROVE Count(tt, kind, m) = Count(stack, kind, m)
  <2>1. m \in Nat /\ 1..m \subseteq 1..(n - 1)
    BY <1>1
  <2> QED
    BY <1>2, <2>1, CountSame
<1>4. Top.pos \in Nat \ {0}
  BY <1>1 DEF Frames
<1>5. Count(stack, kind, n) = Count(stack, kind, n - 1) + M(Top.pos - 1)
  BY <1>1, CountOfTop
<1>6. Count(tt, kind, n) = Count(tt, kind, n - 1) + M(Top.pos)
  <2>1. n \in 1..Len(tt) /\ tt[n].pos - 1 = Top.pos
    BY <1>1, <1>2, <1>4
  <2> QED
    BY <1>2, <2>1, CountOfTop
<1>7. M(Top.pos) = M(Top.pos - 1) + (IF body[Top.ep][Top.pos].kind = kind THEN 1 ELSE 0)
  BY <1>4, OneMore
<1>8. Count(tt, kind, n - 1) = Count(stack, kind, n - 1)
  BY <1>1, <1>3
<1>9. Count(stack, kind, n - 1) \in Nat /\ M(Top.pos - 1) \in Nat
  BY <1>1, <1>4, CountsAreNat, MarksAreFinite
<1> QED
  BY <1>3, <1>5, <1>6, <1>7, <1>8, <1>9

(* Blocks nest before and after a statement, since they nest in the body.  *)
LEMMA AdvancedNests ==
  ASSUME IInv, stack # <<>>, Top.pos <= Len(body[Top.ep]), NEW live \in BOOLEAN
  PROVE  NestsUpTo(Advanced(live), Len(stack))
<1> DEFINE n == Len(stack)
           tt == Advanced(live)
           M(kind, p) == Cardinality(Marks(body[Top.ep], kind, p))
<1>1. /\ n \in Nat \ {0} /\ stack \in Seq(Frames)
      /\ Top \in Frames /\ Nests(body[Top.ep]) /\ body[Top.ep] \in Seq(Statement)
  BY TopFacts DEF IInv, TypeOK, Frames
<1>2. tt \in Seq(Frames) /\ Len(tt) = n /\ tt[n].ep = Top.ep /\ tt[n].pos = Top.pos + 1
  BY AdvancedFacts
<1>3. ASSUME NEW m \in 0..(n - 1) PROVE Count(tt, "close", m) <= Count(tt, "open", m)
  <2>1. Count(stack, "close", m) <= Count(stack, "open", m)
    BY <1>1 DEF IInv, BlocksNest, Count
  <2> QED
    BY <2>1, CountAdvanced
<1>4. Top.pos \in 0..Len(body[Top.ep]) /\ tt[n].pos - 1 = Top.pos
  BY <1>1, <1>2 DEF Frames
<1>5. M("close", Top.pos) <= M("open", Top.pos)
  BY <1>1, <1>4 DEF Nests
<1>6. /\ Count(tt, "close", n) = Count(tt, "close", n - 1) + M("close", Top.pos)
      /\ Count(tt, "open", n) = Count(tt, "open", n - 1) + M("open", Top.pos)
  BY <1>1, <1>2, <1>4, CountOfTop
<1>7. Count(tt, "close", n - 1) <= Count(tt, "open", n - 1)
  BY <1>1, <1>3
<1>8. /\ Count(tt, "close", n - 1) \in Nat /\ Count(tt, "open", n - 1) \in Nat
      /\ M("close", Top.pos) \in Nat /\ M("open", Top.pos) \in Nat
  BY <1>1, <1>2, <1>4, CountsAreNat, MarksAreFinite
<1>9. Count(tt, "close", n) <= Count(tt, "open", n)
  BY <1>5, <1>6, <1>7, <1>8
<1> QED
  BY <1>1, <1>3, <1>9 DEF NestsUpTo

(* The three ways in which a step of the walk changes the stack.           *)
Passes(live) ==
  /\ stack # <<>> /\ Top.pos <= Len(body[Top.ep]) /\ live \in BOOLEAN
  /\ stack' = Advanced(live)
Follow(live, e) ==
  /\ stack # <<>> /\ Top.pos <= Len(body[Top.ep]) /\ live \in BOOLEAN
  /\ e \in Endpoint
  /\ stack' = Append(Advanced(live), Frame(e))
Leaves ==
  /\ stack # <<>> /\ Top.pos > Len(body[Top.ep])
  /\ stack' = SubSeq(stack, 1, Len(stack) - 1)

OneIf(kind) == IF body[Top.ep][Top.pos].kind = kind THEN 1 ELSE 0

LEMMA PassesBlocks ==
  ASSUME IInv, NEW live, Passes(live)
  PROVE  /\ Len(stack') = Len(stack)
         /\ NestsUpTo(stack', Len(stack'))
         /\ \A kind : Count(stack', kind, Len(stack')) = Count(stack, kind, Len(stack)) + OneIf(kind)
<1>1. Len(stack') = Len(stack)
  BY AdvancedFacts DEF Passes
<1>2. NestsUpTo(stack', Len(stack'))
  BY <1>1, AdvancedNests DEF Passes
<1>3. ASSUME NEW kind
      PROVE  Count(stack', kind, Len(stack')) = Count(stack, kind, Len(stack)) + OneIf(kind)
  BY <1>1, CountAdvanced DEF Passes, OneIf
<1> QED
  BY <1>1, <1>2, <1>3

LEMMA FollowBlocks ==
  ASSUME IInv, NEW live, NEW e, Follow(live, e)
  PROVE  /\ Len(stack') = Len(stack) + 1
         /\ NestsUpTo(stack', Len(stack'))
         /\ \A kind : Count(stack', kind, Len(stack')) = Count(stack, kind, Len(stack)) + OneIf(kind)
<1> DEFINE tt == Advanced(live)
           n == Len(stack)
<1>1. n \in Nat \ {0} /\ tt \in Seq(Frames) /\ Len(tt) = n
  BY TopFacts, AdvancedFacts DEF Follow
<1>2. Frame(e) \in Frames /\ Frame(e).pos = 1
  BY FrameFacts DEF Follow
<1>3. stack' = Append(tt, Frame(e)) /\ Len(stack') = n + 1
  BY <1>1, <1>2, PushedFacts DEF Follow
<1>4. ASSUME NEW kind
      PROVE  /\ \A m \in 0..n : Count(stack', kind, m) = Count(tt, kind, m)
             /\ Count(stack', kind, n + 1) = Count(tt, kind, n)
  BY <1>1, <1>2, <1>3, CountPushed
<1>5. \A m \in 0..n : Count(tt, "close", m) <= Count(tt, "open", m)
  BY AdvancedNests DEF Follow, NestsUpTo
<1>6. ASSUME NEW m \in 0..(n + 1) PROVE Count(stack', "close", m) <= Count(stack', "open", m)
  <2>1. CASE m \in 0..n
    BY <1>4, <1>5, <2>1
  <2>2. CASE m = n + 1
    BY <1>1, <1>4, <1>5, <2>2
  <2> QED
    BY <1>1, <2>1, <2>2
<1>7. ASSUME NEW kind
      PROVE  Count(stack', kind, n + 1) = Count(stack, kind, n) + OneIf(kind)
  BY <1>4, CountAdvanced DEF Follow, OneIf
<1> QED
  BY <1>3, <1>6, <1>7 DEF NestsUpTo

(* A body that is over has closed what it opened.                          *)
LEMMA LeavesBlocks ==
  ASSUME IInv, Leaves
  PROVE  /\ Len(stack') = Len(stack) - 1 /\ Len(stack') \in Nat
         /\ NestsUpTo(stack', Len(stack'))
         /\ Count(stack', "open", Len(stack')) - Count(stack', "close", Len(stack'))
              = Count(stack, "open", Len(stack)) - Count(stack, "close", Len(stack))
<1> DEFINE n == Len(stack)
           M(kind) == Cardinality(Marks(body[Top.ep], kind, Len(body[Top.ep])))
<1>1. /\ n \in Nat \ {0} /\ stack \in Seq(Frames) /\ Top = stack[n] /\ Top \in Frames
      /\ Nests(body[Top.ep]) /\ body[Top.ep] \in Seq(Statement)
  BY TopFacts DEF Leaves, IInv, TypeOK, Frames
<1>2. /\ Len(stack') = n - 1 /\ n - 1 \in Nat
      /\ \A i \in 1..(n - 1) : stack'[i] = stack[i]
  BY <1>1, PoppedFacts DEF Leaves
<1>3. ASSUME NEW kind, NEW m \in 0..(n - 1) PROVE Count(stack', kind, m) = Count(stack, kind, m)
  <2>1. m \in Nat /\ 1..m \subseteq 1..(n - 1)
    BY <1>1
  <2> QED
    BY <1>2, <2>1, CountSame
<1>4. \A m \in 0..(n - 1) : Count(stack, "close", m) <= Count(stack, "open", m)
  BY <1>1 DEF IInv, BlocksNest, Count
<1>5. NestsUpTo(stack', n - 1)
  BY <1>3, <1>4 DEF NestsUpTo
<1>6. Top.pos - 1 = Len(body[Top.ep])
  <2>1. Top.pos <= Len(body[Top.ep]) + 1
    BY <1>1 DEF IInv, WithinBodies
  <2> QED
    BY <1>1, <2>1 DEF Leaves, Frames
<1>7. M("close") = M("open")
  BY <1>1 DEF Nests
<1>8. ASSUME NEW kind
      PROVE  /\ Count(stack, kind, n) = Count(stack', kind, n - 1) + M(kind)
             /\ Count(stack', kind, n - 1) \in Nat
             /\ M(kind) \in Nat
  <2>1. Count(stack, kind, n) = Count(stack, kind, n - 1) + M(kind)
    BY <1>1, <1>6, CountOfTop
  <2>2. Count(stack', kind, n - 1) = Count(stack, kind, n - 1)
    BY <1>2, <1>3
  <2>3. Count(stack, kind, n - 1) \in Nat
    BY <1>1, CountsAreNat
  <2>4. M(kind) \in Nat
    BY <1>1, MarksAreFinite
  <2> QED
    BY <2>1, <2>2, <2>3, <2>4
<1>9. Count(stack', "open", n - 1) - Count(stack', "close", n - 1)
        = Count(stack, "open", n) - Count(stack, "close", n)
  <2> HIDE DEF n, M
  <2> QED
    BY <1>7, <1>8
<1> QED
  BY <1>2, <1>5, <1>9

CallTo == body[Top.ep][Top.pos].to
LiveAfterCall == Top.live /\ ~(Top.live /\ Releases(Top, CallTo))

LEMMA CallShape ==
  ASSUME IInv, VisitCall
  PROVE  /\ stack # <<>> /\ Top.pos <= Len(body[Top.ep])
         /\ body[Top.ep][Top.pos].kind = "call"
         /\ CallTo \in Endpoint
         /\ Expands(CallTo, visited, uptos) => Follow(LiveAfterCall, CallTo)
         /\ ~Expands(CallTo, visited, uptos) => Passes(LiveAfterCall)
<1>1. /\ stack # <<>> /\ Top.pos <= Len(body[Top.ep])
      /\ body[Top.ep][Top.pos].kind = "call"
  BY DEF VisitCall, AtStatement
<1>2. CallTo \in Endpoint
  <2>1. Top.pos \in 1..Len(body[Top.ep]) /\ body[Top.ep] \in Seq(Statement)
    BY <1>1, TopFacts DEF Frames
  <2>2. body[Top.ep][Top.pos] \in Statement
    BY <2>1
  <2> QED
    BY <1>1, <2>2, CallsNameEndpoints DEF CallTo
<1>3. CASE Expands(CallTo, visited, uptos)
  <2>1. stack' = Append(Advanced(LiveAfterCall), Frame(CallTo))
    BY <1>3 DEF VisitCall, VisitEndpoint, CallTo, LiveAfterCall
  <2> QED
    BY <1>1, <1>2, <1>3, <2>1 DEF Follow, LiveAfterCall
<1>4. CASE ~Expands(CallTo, visited, uptos)
  <2>1. stack' = Advanced(LiveAfterCall)
    BY <1>4 DEF VisitCall, VisitEndpoint, CallTo, LiveAfterCall
  <2> QED
    BY <1>1, <1>2, <1>4, <2>1 DEF Passes, LiveAfterCall
<1> QED
  BY <1>1, <1>2, <1>3, <1>4

PassStatement == VisitLine \/ OpenBlock \/ CloseBlock

LEMMA StatementShape ==
  ASSUME IInv, PassStatement
  PROVE  Passes(Top.live)
<1>1. stack # <<>> /\ Top.pos <= Len(body[Top.ep]) /\ stack' = Advanced(Top.live)
  BY DEF PassStatement, VisitLine, OpenBlock, CloseBlock, AtStatement
<1>2. Top.live \in BOOLEAN
  BY <1>1, TopFacts DEF Frames
<1> QED
  BY <1>1, <1>2 DEF Passes

LEMMA EntryShape ==
  ASSUME IInv, NextEntry
  PROVE  LET e == entries[section'].ep IN
         /\ section' = section + 1 /\ section' \in 1..Len(entries)
         /\ e \in Endpoint /\ entries[section'] \in Entry
         /\ uptos' \subseteq Endpoint
         /\ Expands(e, NotVisited, uptos') =>
               stack' = <<Frame(e)>> /\ visited' = [NotVisited EXCEPT ![e] = 1] /\ expanded' = {e}
         /\ ~Expands(e, NotVisited, uptos') =>
               stack' = <<>> /\ visited' = NotVisited /\ expanded' = {}
<1> DEFINE e == entries[section'].ep
<1>1. section' = section + 1 /\ section' \in 1..Len(entries) /\ entries \in Seq(Entry)
  BY DEF NextEntry, IInv, TypeOK
<1>2. e \in Endpoint /\ entries[section'] \in Entry
  <2>1. entries[section'] \in Entry
    BY <1>1
  <2> QED
    BY <2>1 DEF Entry
<1>3. uptos' \subseteq Endpoint
  <2>1. \A i \in DOMAIN entries : entries[i].ep \in Endpoint
    <3>1. \A i \in DOMAIN entries : entries[i] \in Entry
      BY <1>1
    <3> QED
      BY <3>1 DEF Entry
  <2>2. entries[section'].upto \in Endpoint \cup {None}
    BY <1>2 DEF Entry
  <2> QED
    BY <2>1, <2>2 DEF NextEntry, IInv, TypeOK
<1>4. VisitEndpoint(e, <<>>, NotVisited, uptos', active)
  BY DEF NextEntry
<1>5. expanded' = {stack'[i].ep : i \in DOMAIN stack'}
  BY DEF NextEntry
<1>6. CASE Expands(e, NotVisited, uptos')
  <2>1. stack' = <<Frame(e)>> /\ DOMAIN stack' = {1} /\ stack'[1].ep = e
    BY <1>4, <1>6 DEF VisitEndpoint, Frame
  <2>2. visited' = [NotVisited EXCEPT ![e] = 1]
    BY <1>2, <1>4, <1>6 DEF VisitEndpoint, NotVisited
  <2>3. expanded' = {e}
    BY <1>5, <2>1
  <2> QED
    BY <1>1, <1>2, <1>3, <1>6, <2>1, <2>2, <2>3
<1>7. CASE ~Expands(e, NotVisited, uptos')
  <2>1. stack' = <<>> /\ visited' = NotVisited
    BY <1>4, <1>7 DEF VisitEndpoint
  <2>2. expanded' = {}
    BY <1>5, <2>1
  <2> QED
    BY <1>1, <1>2, <1>3, <1>7, <2>1, <2>2
<1> QED
  BY <1>6, <1>7

LEMMA LeaveShape ==
  ASSUME EndOfEndpoint
  PROVE  Leaves
BY DEF EndOfEndpoint, Leaves

(* The stack stays a sequence of frames.                                   *)
LEMMA StackKept ==
  ASSUME IInv, [Next]_vars
  PROVE  stack' \in Seq(Frames) /\ body' = body /\ entries' = entries
<1> USE DEF input
<1>1. CASE NextEntry
  <2>1. Frame(entries[section'].ep) \in Frames
    BY <1>1, EntryShape, FrameFacts
  <2>2. stack' = <<>> \/ stack' = <<Frame(entries[section'].ep)>>
    BY <1>1, EntryShape
  <2>3. <<>> \in Seq(Frames) /\ <<Frame(entries[section'].ep)>> \in Seq(Frames)
    BY <2>1
  <2> QED
    BY <1>1, <2>2, <2>3 DEF NextEntry
<1>2. CASE VisitCall
  <2>1. ASSUME NEW live, Passes(live) PROVE stack' \in Seq(Frames)
    BY <2>1, AdvancedFacts DEF Passes
  <2>2. ASSUME NEW live, NEW e, Follow(live, e) PROVE stack' \in Seq(Frames)
    BY <2>2, AdvancedFacts, FrameFacts, PushedFacts DEF Follow
  <2> QED
    BY <1>2, <2>1, <2>2, CallShape DEF VisitCall
<1>3. CASE PassStatement
  BY <1>3, StatementShape, AdvancedFacts
     DEF Passes, PassStatement, VisitLine, OpenBlock, CloseBlock
<1>4. CASE EndOfEndpoint
  BY <1>4, PoppedFacts DEF EndOfEndpoint, IInv, TypeOK, Frames
<1>5. CASE UNCHANGED vars
  BY <1>5 DEF vars, IInv, TypeOK, Frames
<1> QED
  BY <1>1, <1>2, <1>3, <1>4, <1>5 DEF Next, PassStatement

(* What the blocks of the next state have to be counted for.               *)
LEMMA BalanceSuffices ==
  ASSUME body' = body, stack' \in Seq(Frames), NestsUpTo(stack', Len(stack')), ind' \in Int,
         ind' + Count(stack', "close", Len(stack'))
           = Count(stack', "open", Len(stack')) + (IF stack' = <<>> THEN 0 ELSE Len(stack') - 1)
  PROVE  IndentBalanced' /\ BlocksNest' /\ ind' \in Nat
<1> DEFINE n == Len(stack')
           c == Count(stack', "close", n)
           o == Count(stack', "open", n)
<1>1. n \in Nat /\ (stack' # <<>> => n > 0)
  OBVIOUS
<1>2. c \in Nat /\ o \in Nat /\ c <= o
  BY <1>1, CountsAreNat DEF NestsUpTo
<1>3. ind' \in Nat
  <2> DEFINE d == IF stack' = <<>> THEN 0 ELSE n - 1
  <2>1. d \in Nat
    BY <1>1
  <2>2. ind' + c = o + d
    OBVIOUS
  <2>3. \A i \in Int : i + c = o + d => i \in Nat
    <3> HIDE DEF c, o, d
    <3> QED
      BY <1>2, <2>1
  <2> QED
    BY <2>2, <2>3
<1>4. IndentBalanced'
  BY DEF IndentBalanced, Passed, Count
<1>5. BlocksNest'
  BY DEF BlocksNest, NestsUpTo, Count
<1> QED
  BY <1>3, <1>4, <1>5

LEMMA BalanceNow ==
  ASSUME IInv
  PROVE  /\ ind \in Nat /\ Len(stack) \in Nat
         /\ Count(stack, "close", Len(stack)) \in Nat
         /\ Count(stack, "open", Len(stack)) \in Nat
         /\ ind + Count(stack, "close", Len(stack))
              = Count(stack, "open", Len(stack)) + (IF stack = <<>> THEN 0 ELSE Len(stack) - 1)
<1>1. stack \in Seq(Frames) /\ ind \in Nat
  BY DEF IInv, TypeOK, Frames
<1>2. Len(stack) \in 0..Len(stack) /\ Len(stack) \in Nat
  BY <1>1
<1>3. /\ Count(stack, "close", Len(stack)) \in Nat
      /\ Count(stack, "open", Len(stack)) \in Nat
  BY <1>1, <1>2, CountsAreNat
<1> QED
  BY <1>1, <1>2, <1>3 DEF IInv, IndentBalanced, Passed, Count

LEMMA BalanceKept ==
  ASSUME IInv, [Next]_vars
  PROVE  IndentBalanced' /\ BlocksNest' /\ ind' \in Nat
<1> DEFINE n == Len(stack)
           c == Count(stack, "close", n)
           o == Count(stack, "open", n)
           cc == Count(stack', "close", Len(stack'))
           oo == Count(stack', "open", Len(stack'))
<1>1. stack' \in Seq(Frames) /\ body' = body /\ stack \in Seq(Frames)
  BY StackKept DEF IInv, TypeOK, Frames
<1>2. /\ ind \in Nat /\ n \in Nat /\ c \in Nat /\ o \in Nat
      /\ ind + c = o + (IF stack = <<>> THEN 0 ELSE n - 1)
      /\ stack # <<>> => n > 0
  BY <1>1, BalanceNow
<1>3. CASE NextEntry
  <2>1. \A kind : Count(<<>>, kind, 0) = 0
    BY PassedByNone DEF Count
  <2>2. ind' = 0
    <3>1. stack = <<>> /\ n = 0 /\ ind' = ind
      BY <1>3 DEF NextEntry
    <3> QED
      BY <1>2, <2>1, <3>1
  <2> DEFINE f == Frame(entries[section'].ep)
  <2>3. f \in Frames /\ f.pos = 1
    BY <1>3, EntryShape, FrameFacts
  <2>4. stack' = <<>> \/ stack' = <<f>>
    BY <1>3, EntryShape
  <2> HIDE DEF f
  <2>5. CASE stack' = <<>>
    <3>1. Len(stack') = 0 /\ cc = 0 /\ oo = 0
      BY <2>1, <2>5
    <3>2. NestsUpTo(stack', Len(stack'))
      BY <2>1, <2>5, <3>1 DEF NestsUpTo
    <3> QED
      BY <1>1, <2>2, <2>5, <3>1, <3>2, BalanceSuffices
  <2>6. CASE stack' = <<f>>
    <3>1. stack' = Append(<<>>, f) /\ Len(stack') = 1 /\ stack' # <<>> /\ <<>> \in Seq(Frames)
      BY <2>3, <2>6
    <3>2. ASSUME NEW kind PROVE Count(stack', kind, 0) = 0 /\ Count(stack', kind, 1) = 0
      <4>1. /\ \A m \in 0..Len(<<>>) : Count(Append(<<>>, f), kind, m) = Count(<<>>, kind, m)
            /\ Count(Append(<<>>, f), kind, Len(<<>>) + 1) = Count(<<>>, kind, Len(<<>>))
        BY <2>3, <3>1, CountPushed
      <4>2. Len(<<>>) = 0 /\ 0 \in 0..0 /\ 0 + 1 = 1
        OBVIOUS
      <4> QED
        BY <2>1, <3>1, <4>1, <4>2
    <3>3. NestsUpTo(stack', Len(stack'))
      BY <3>1, <3>2 DEF NestsUpTo
    <3>4. cc = 0 /\ oo = 0
      BY <3>1, <3>2
    <3> QED
      BY <1>1, <2>2, <3>1, <3>3, <3>4, BalanceSuffices
  <2> QED
    BY <2>4, <2>5, <2>6
<1>4. CASE VisitCall
  <2>1. stack # <<>> /\ OneIf("close") = 0 /\ OneIf("open") = 0
    BY <1>4, CallShape DEF OneIf
  <2>2. CASE Expands(CallTo, visited, uptos)
    <3>1. Follow(LiveAfterCall, CallTo)
      BY <1>4, <2>2, CallShape
    <3>2. Len(stack') = n + 1 /\ NestsUpTo(stack', Len(stack')) /\ cc = c /\ oo = o
      BY <1>2, <2>1, <3>1, FollowBlocks
    <3>3. ind' = ind + 1
      BY <1>4, <2>2 DEF VisitCall, CallTo
    <3>4. stack' # <<>>
      BY <1>1, <1>2, <3>2
    <3>5. ind' \in Int /\ ind' + cc = oo + (IF stack' = <<>> THEN 0 ELSE Len(stack') - 1)
      BY <1>2, <2>1, <3>2, <3>3, <3>4
    <3> QED
      BY <1>1, <3>2, <3>5, BalanceSuffices
  <2>3. CASE ~Expands(CallTo, visited, uptos)
    <3>1. Passes(LiveAfterCall)
      BY <1>4, <2>3, CallShape
    <3>2. Len(stack') = n /\ NestsUpTo(stack', Len(stack')) /\ cc = c /\ oo = o
      BY <1>2, <2>1, <3>1, PassesBlocks
    <3>3. ind' = ind
      BY <1>4, <2>3 DEF VisitCall, CallTo
    <3>4. stack' # <<>>
      BY <1>1, <1>2, <2>1, <3>2
    <3>5. ind' \in Int /\ ind' + cc = oo + (IF stack' = <<>> THEN 0 ELSE Len(stack') - 1)
      BY <1>2, <2>1, <3>2, <3>3, <3>4
    <3> QED
      BY <1>1, <3>2, <3>5, BalanceSuffices
  <2> QED
    BY <2>2, <2>3
<1>5. CASE PassStatement
  <2>1. stack # <<>> /\ Passes(Top.live)
    BY <1>5, StatementShape DEF Passes
  <2>2. /\ Len(stack') = n /\ NestsUpTo(stack', Len(stack'))
        /\ cc = c + OneIf("close") /\ oo = o + OneIf("open")
    BY <2>1, PassesBlocks
  <2>3. stack' # <<>>
    BY <1>1, <1>2, <2>1, <2>2
  <2>4. ind + c = o + (n - 1)
    BY <1>2, <2>1
  <2>5. ind' \in Int /\ ind' + cc = oo + (n - 1)
    <3>1. CASE VisitLine
      <4>1. ind' = ind /\ OneIf("close") = 0 /\ OneIf("open") = 0
        BY <3>1 DEF OneIf, VisitLine, AtStatement
      <4> QED
        BY <1>2, <2>2, <2>4, <4>1
    <3>2. CASE OpenBlock
      <4>1. ind' = ind + 1 /\ OneIf("close") = 0 /\ OneIf("open") = 1
        BY <3>2 DEF OneIf, OpenBlock, AtStatement
      <4> QED
        BY <1>2, <2>2, <2>4, <4>1
    <3>3. CASE CloseBlock
      <4>1. ind' = ind - 1 /\ OneIf("close") = 1 /\ OneIf("open") = 0
        BY <3>3 DEF OneIf, CloseBlock, AtStatement
      <4> QED
        BY <1>2, <2>2, <2>4, <4>1
    <3> QED
      BY <1>5, <3>1, <3>2, <3>3 DEF PassStatement
  <2> QED
    BY <1>1, <2>2, <2>3, <2>5, BalanceSuffices
<1>6. CASE EndOfEndpoint
  <2>1. /\ Len(stack') = n - 1 /\ n - 1 \in Nat /\ NestsUpTo(stack', Len(stack'))
        /\ oo - cc = o - c
    BY <1>6, LeaveShape, LeavesBlocks
  <2>2. stack # <<>> /\ ind' = IF n > 1 THEN ind - 1 ELSE ind
    BY <1>6 DEF EndOfEndpoint, Unindented
  <2>3. stack' = <<>> <=> n = 1
    BY <1>1, <1>2, <2>1
  <2>4. cc \in Nat /\ oo \in Nat
    BY <1>1, <2>1, CountsAreNat
  <2>5. ind + c = o + (n - 1)
    BY <1>2, <2>2
  <2>6. CASE n = 1
    <3>1. ind' \in Int /\ ind' + cc = oo + 0
      <4>1. ind' = ind
        BY <2>2, <2>6
      <4> QED
        BY <1>2, <2>1, <2>4, <2>5, <2>6, <4>1
    <3> QED
      BY <1>1, <2>1, <2>3, <2>6, <3>1, BalanceSuffices
  <2>7. CASE n # 1
    <3>1. ind' \in Int /\ ind' + cc = oo + (Len(stack') - 1)
      <4>1. ind' = ind - 1
        <5>1. n > 1
          BY <2>1, <2>7
        <5> QED
          BY <2>2, <5>1
      <4> QED
        BY SMTT(60), <1>2, <2>1, <2>4, <2>5, <2>7, <4>1
    <3> QED
      BY <1>1, <2>1, <2>3, <2>7, <3>1, BalanceSuffices
  <2> QED
    BY <2>6, <2>7
<1>7. CASE UNCHANGED vars
  <2>1. stack' = stack /\ ind' = ind
    BY <1>7 DEF vars
  <2>2. NestsUpTo(stack', Len(stack'))
    BY <2>1 DEF IInv, BlocksNest, NestsUpTo, Count
  <2> QED
    BY <1>1, <1>2, <2>1, <2>2, BalanceSuffices
<1> QED
  BY <1>3, <1>4, <1>5, <1>6, <1>7 DEF Next, PassStatement

---------------------------------------------------------------------------
(* Open endpoints                                                          *)

LEMMA BelowOrLast ==
  ASSUME NEW n \in Nat \ {0}
  PROVE  /\ \A i \in 1..n : i \in 1..(n - 1) \/ i = n
         /\ \A i \in 1..(n + 1) : i \in 1..(n - 1) \/ i = n \/ i = n + 1
         /\ 1..(n - 1) \subseteq 1..n /\ n \in 1..n /\ n \notin 1..(n - 1)
         /\ 1..n \subseteq 1..(n + 1) /\ n + 1 \in 1..(n + 1) /\ n + 1 \notin 1..n
OBVIOUS

LEMMA PassesStack ==
  ASSUME IInv, NEW live, Passes(live)
  PROVE  LET n == Len(stack) IN
         /\ n \in Nat \ {0} /\ DOMAIN stack = 1..n /\ DOMAIN stack' = 1..n
         /\ \A i \in 1..n : stack'[i].ep = stack[i].ep
         /\ \A i \in 1..(n - 1) : stack'[i] = stack[i]
         /\ stack'[n].ep = Top.ep /\ stack'[n].pos = Top.pos + 1 /\ stack'[n].live = live
         /\ stack[n] = Top
<1> DEFINE n == Len(stack)
<1>1. n \in Nat \ {0} /\ Top = stack[n] /\ stack \in Seq(Frames)
  BY TopFacts DEF Passes, IInv, TypeOK, Frames
<1>2. /\ stack' \in Seq(Frames) /\ Len(stack') = n
      /\ \A i \in 1..(n - 1) : stack'[i] = stack[i]
      /\ stack'[n].ep = Top.ep /\ stack'[n].pos = Top.pos + 1 /\ stack'[n].live = live
  BY AdvancedFacts DEF Passes
<1>3. DOMAIN stack = 1..n /\ DOMAIN stack' = 1..n
  BY <1>1, <1>2
<1>4. ASSUME NEW i \in 1..n PROVE stack'[i].ep = stack[i].ep
  BY <1>1, <1>2
<1> QED
  BY <1>1, <1>2, <1>3, <1>4

LEMMA FollowStack ==
  ASSUME IInv, NEW live, NEW e, Follow(live, e)
  PROVE  LET n == Len(stack) IN
         /\ n \in Nat \ {0} /\ DOMAIN stack = 1..n /\ DOMAIN stack' = 1..(n + 1)
         /\ \A i \in 1..n : stack'[i].ep = stack[i].ep
         /\ \A i \in 1..(n - 1) : stack'[i] = stack[i]
         /\ stack'[n].ep = Top.ep /\ stack'[n].pos = Top.pos + 1 /\ stack'[n].live = live
         /\ stack'[n + 1].ep = e /\ stack'[n + 1].pos = 1
         /\ stack'[n + 1].live = (AppOf[e] \notin Suppressed)
         /\ stack[n] = Top
<1> DEFINE n == Len(stack)
           tt == Advanced(live)
<1>1. n \in Nat \ {0} /\ Top = stack[n] /\ stack \in Seq(Frames)
  BY TopFacts DEF Follow, IInv, TypeOK, Frames
<1>2. /\ tt \in Seq(Frames) /\ Len(tt) = n
      /\ \A i \in 1..(n - 1) : tt[i] = stack[i]
      /\ tt[n].ep = Top.ep /\ tt[n].pos = Top.pos + 1 /\ tt[n].live = live
  BY AdvancedFacts DEF Follow
<1>3. /\ Frame(e) \in Frames /\ Frame(e).ep = e /\ Frame(e).pos = 1
      /\ Frame(e).live = (AppOf[e] \notin Suppressed)
  BY FrameFacts DEF Follow
<1>4. /\ stack' \in Seq(Frames) /\ Len(stack') = n + 1
      /\ \A i \in 1..n : stack'[i] = tt[i]
      /\ stack'[n + 1] = Frame(e)
  <2> HIDE DEF tt
  <2>1. stack' = Append(tt, Frame(e))
    BY DEF Follow, tt
  <2> QED
    BY <1>2, <1>3, <2>1, PushedFacts
<1>5. DOMAIN stack = 1..n /\ DOMAIN stack' = 1..(n + 1)
  BY <1>1, <1>4
<1>6. ASSUME NEW i \in 1..(n - 1) PROVE stack'[i] = stack[i]
  BY <1>1, <1>2, <1>4
<1>7. stack'[n] = tt[n]
  BY <1>1, <1>4
<1>8. ASSUME NEW i \in 1..n PROVE stack'[i].ep = stack[i].ep
  BY <1>1, <1>2, <1>6, <1>7
<1> QED
  BY <1>1, <1>2, <1>3, <1>4, <1>5, <1>6, <1>7, <1>8

LEMMA LeavesStack ==
  ASSUME IInv, Leaves
  PROVE  LET n == Len(stack) IN
         /\ n \in Nat \ {0} /\ DOMAIN stack = 1..n /\ DOMAIN stack' = 1..(n - 1)
         /\ \A i \in 1..(n - 1) : stack'[i] = stack[i]
         /\ stack[n] = Top
<1> DEFINE n == Len(stack)
<1>1. n \in Nat \ {0} /\ Top = stack[n] /\ stack \in Seq(Frames)
  BY TopFacts DEF Leaves, IInv, TypeOK, Frames
<1>2. /\ stack' \in Seq(Frames) /\ Len(stack') = n - 1
      /\ \A i \in 1..(n - 1) : stack'[i] = stack[i]
  BY <1>1, PoppedFacts DEF Leaves
<1> QED
  BY <1>1, <1>2

LEMMA PassesOpenOnce ==
  ASSUME IInv, NEW live, Passes(live), visited' = visited, body' = body
  PROVE  OpenOnce' /\ WithinBodies' /\ OpenEndpoints' = OpenEndpoints
<1> DEFINE n == Len(stack)
<1>1. /\ n \in Nat \ {0} /\ DOMAIN stack = 1..n /\ DOMAIN stack' = 1..n
      /\ \A i \in 1..n : stack'[i].ep = stack[i].ep
      /\ \A i \in 1..(n - 1) : stack'[i] = stack[i]
      /\ stack'[n].pos = Top.pos + 1 /\ stack'[n].ep = Top.ep
  BY PassesStack
<1>2. OpenEndpoints' = OpenEndpoints
  BY <1>1 DEF OpenEndpoints
<1>3. OpenOnce'
  BY <1>1, <1>2 DEF IInv, OpenOnce
<1>4. WithinBodies'
  <2>1. Top.pos \in Nat /\ Len(body[Top.ep]) \in Nat /\ Top.pos <= Len(body[Top.ep])
    BY TopFacts DEF Passes, Frames
  <2>2. ASSUME NEW i \in 1..n PROVE stack'[i].pos <= Len(body[stack'[i].ep]) + 1
    <3>1. CASE i = n
      BY <1>1, <2>1, <3>1
    <3>2. CASE i # n
      <4>1. i \in 1..(n - 1)
        BY <1>1, <3>2, BelowOrLast
      <4> QED
        BY <1>1, <4>1 DEF IInv, WithinBodies
    <3> QED
      BY <3>1, <3>2
  <2> QED
    BY <1>1, <2>2 DEF WithinBodies
<1> QED
  BY <1>2, <1>3, <1>4

LEMMA FollowOpenOnce ==
  ASSUME IInv, NEW live, NEW e, Follow(live, e), visited[e] = 0,
         visited' = [visited EXCEPT ![e] = @ + 1], body' = body
  PROVE  OpenOnce' /\ WithinBodies' /\ OpenEndpoints' = OpenEndpoints \cup {e}
<1> DEFINE n == Len(stack)
<1>1. /\ n \in Nat \ {0} /\ DOMAIN stack = 1..n /\ DOMAIN stack' = 1..(n + 1)
      /\ \A i \in 1..n : stack'[i].ep = stack[i].ep
      /\ \A i \in 1..(n - 1) : stack'[i] = stack[i]
      /\ stack'[n].pos = Top.pos + 1 /\ stack'[n].ep = Top.ep
      /\ stack'[n + 1].ep = e /\ stack'[n + 1].pos = 1
  BY FollowStack
<1>2. e \in Endpoint /\ e \notin OpenEndpoints
  BY DEF IInv, OpenOnce, Follow
<1>3. OpenEndpoints' = OpenEndpoints \cup {e}
  <2>1. \A i \in 1..(n + 1) : i \in 1..n \/ i = n + 1
    BY <1>1
  <2>2. n + 1 \in 1..(n + 1) /\ 1..n \subseteq 1..(n + 1)
    BY <1>1
  <2> QED
    BY <1>1, <2>1, <2>2 DEF OpenEndpoints
<1>4. \A i, j \in DOMAIN stack' : stack'[i].ep = stack'[j].ep => i = j
  <2>1. ASSUME NEW i \in 1..n PROVE stack'[i].ep # e
    BY <1>1, <1>2 DEF OpenEndpoints
  <2>2. \A i, j \in 1..n : stack'[i].ep = stack'[j].ep => i = j
    BY <1>1 DEF IInv, OpenOnce
  <2> QED
    BY <1>1, <2>1, <2>2
<1>5. \A d \in Endpoint : visited'[d] = IF d \in OpenEndpoints' THEN 1 ELSE 0
  BY <1>2, <1>3 DEF IInv, OpenOnce, TypeOK
<1>6. WithinBodies'
  <2>1. /\ Top.pos \in Nat /\ Len(body[Top.ep]) \in Nat /\ Top.pos <= Len(body[Top.ep])
        /\ Len(body[e]) \in Nat
    BY SMTT(60), TopFacts DEF Follow, Frames, IInv, TypeOK
  <2>2. ASSUME NEW i \in 1..(n + 1) PROVE stack'[i].pos <= Len(body[stack'[i].ep]) + 1
    <3>1. CASE i = n + 1
      BY <1>1, <2>1, <3>1
    <3>2. CASE i = n
      BY <1>1, <2>1, <3>2
    <3>3. CASE i \in 1..(n - 1)
      BY <1>1, <3>3 DEF IInv, WithinBodies
    <3> QED
      BY <1>1, <3>1, <3>2, <3>3, BelowOrLast
  <2> QED
    BY <1>1, <2>2 DEF WithinBodies
<1> QED
  BY <1>3, <1>4, <1>5, <1>6 DEF OpenOnce

LEMMA LeavesOpenOnce ==
  ASSUME IInv, Leaves, visited' = [visited EXCEPT ![Top.ep] = @ - 1], body' = body
  PROVE  /\ OpenOnce' /\ WithinBodies' /\ OpenEndpoints' = OpenEndpoints \ {Top.ep}
         /\ visited' \in [Endpoint -> Nat]
<1> DEFINE n == Len(stack)
<1>1. /\ n \in Nat \ {0} /\ DOMAIN stack = 1..n /\ DOMAIN stack' = 1..(n - 1)
      /\ \A i \in 1..(n - 1) : stack'[i] = stack[i]
      /\ stack[n] = Top
  BY LeavesStack
<1>2. Top.ep \in Endpoint /\ Top.ep \in OpenEndpoints
  BY <1>1, TopFacts DEF Leaves, OpenEndpoints
<1>3. \A i, j \in 1..n : stack[i].ep = stack[j].ep => i = j
  BY <1>1 DEF IInv, OpenOnce
<1>4. OpenEndpoints' = OpenEndpoints \ {Top.ep}
  <2>1. ASSUME NEW i \in 1..(n - 1) PROVE i \in 1..n /\ stack[i].ep # Top.ep
    BY <1>1, <1>3
  <2>2. \A i \in 1..n : i \in 1..(n - 1) \/ i = n
    BY <1>1, BelowOrLast
  <2> QED
    BY <1>1, <2>1, <2>2 DEF OpenEndpoints
<1>5. \A i, j \in DOMAIN stack' : stack'[i].ep = stack'[j].ep => i = j
  BY <1>1, <1>3
<1>6. \A d \in Endpoint : visited'[d] = IF d \in OpenEndpoints' THEN 1 ELSE 0
  BY <1>2, <1>4 DEF IInv, OpenOnce, TypeOK
<1>7. WithinBodies'
  BY <1>1 DEF IInv, WithinBodies
<1>8. visited' \in [Endpoint -> Nat]
  BY <1>2 DEF IInv, OpenOnce, TypeOK
<1> QED
  BY <1>4, <1>5, <1>6, <1>7, <1>8 DEF OpenOnce

---------------------------------------------------------------------------
(* Lifelines                                                               *)

LEMMA LiveIsFinite ==
  ASSUME IInv, NEW a
  PROVE  /\ IsFiniteSet(LiveFramesOf(a)) /\ Cardinality(LiveFramesOf(a)) \in Nat
         /\ LiveFramesOf(a) \subseteq 1..Len(stack)
<1>1. stack \in Seq(Frames)
  BY DEF IInv, TypeOK, Frames
<1>2. Len(stack) \in Nat /\ DOMAIN stack = 1..Len(stack)
  BY <1>1
<1>3. LiveFramesOf(a) \in SUBSET (1..Len(stack))
  BY <1>2 DEF LiveFramesOf
<1>4. IsFiniteSet(1..Len(stack))
  BY <1>2, FS_Interval
<1> QED
  BY <1>3, <1>4, FS_Subset, FS_CardinalityType

LEMMA DeactivateFacts ==
  ASSUME NEW act \in [App -> Nat], NEW a \in App
  PROVE  /\ Deactivate(act, a) \in [App -> Nat]
         /\ \A b \in App : Deactivate(act, a)[b] <= act[b]
         /\ Deactivate(act, a)[a] = 0 \/ Deactivate(act, a)[a] = act[a] - 1
<1>1. CASE act[a] = 0
  BY <1>1 DEF Deactivate
<1>2. CASE act[a] # 0
  BY <1>2 DEF Deactivate
<1> QED
  BY <1>1, <1>2

LEMMA ActivateFacts ==
  ASSUME NEW act \in [App -> Nat], NEW a \in App
  PROVE  /\ Activate(act, a) \in [App -> Nat]
         /\ Activate(act, a)[a] = act[a] + 1
         /\ \A b \in App : b # a => Activate(act, a)[b] = act[b]
BY DEF Activate

(* The live frames when the top one is left with the flag live.            *)
StillLive(live, a) ==
  IF Top.live /\ ~live /\ AppOf[Top.ep] = a
  THEN LiveFramesOf(a) \ {Len(stack)} ELSE LiveFramesOf(a)

Bounds(act, live) == \A a \in App : act[a] <= Cardinality(StillLive(live, a))

LEMMA StillLiveIsFinite ==
  ASSUME IInv, NEW live, NEW a
  PROVE  /\ IsFiniteSet(StillLive(live, a)) /\ Cardinality(StillLive(live, a)) \in Nat
         /\ StillLive(live, a) \subseteq 1..Len(stack)
<1>1. /\ IsFiniteSet(LiveFramesOf(a)) /\ Cardinality(LiveFramesOf(a)) \in Nat
      /\ LiveFramesOf(a) \subseteq 1..Len(stack)
  BY LiveIsFinite
<1>2. IsFiniteSet(StillLive(live, a)) /\ StillLive(live, a) \subseteq 1..Len(stack)
  BY <1>1, FS_RemoveElement DEF StillLive
<1> QED
  BY <1>2, FS_CardinalityType

LEMMA StaysBelow ==
  ASSUME NEW d, NEW x \in Nat, NEW k \in Nat, NEW c \in Nat, x <= k
  PROVE  /\ d \in Nat /\ d <= x /\ c = k => d <= c
         /\ (d = 0 \/ d = x - 1) /\ c = k - 1 => d <= c
OBVIOUS

(* A frame that is given up takes an activation with it.                   *)
LEMMA GiveUp ==
  ASSUME IInv, stack # <<>>, Top.live
  PROVE  Bounds(Deactivate(active, AppOf[Top.ep]), FALSE)
<1> DEFINE t == AppOf[Top.ep]
           n == Len(stack)
<1>1. t \in App /\ active \in [App -> Nat] /\ n \in 1..n /\ DOMAIN stack = 1..n /\ Top = stack[n]
  BY TopFacts, DiagramAssumption DEF IInv, TypeOK
<1>2. n \in LiveFramesOf(t)
  BY <1>1 DEF LiveFramesOf
<1>3. ASSUME NEW a \in App
      PROVE  Deactivate(active, t)[a] <= Cardinality(StillLive(FALSE, a))
  <2> DEFINE L == LiveFramesOf(a)
  <2>1. active[a] \in Nat /\ active[a] <= Cardinality(L)
    BY <1>1 DEF IInv, OnlyLiveActive
  <2>2. IsFiniteSet(L) /\ Cardinality(L) \in Nat
    BY LiveIsFinite
  <2>3. /\ Deactivate(active, t)[a] \in Nat /\ Deactivate(active, t)[a] <= active[a]
        /\ Deactivate(active, t)[t] = 0 \/ Deactivate(active, t)[t] = active[t] - 1
    BY <1>1, DeactivateFacts
  <2>4. Cardinality(StillLive(FALSE, a)) \in Nat
    BY StillLiveIsFinite
  <2>5. CASE a # t
    <3>1. Cardinality(StillLive(FALSE, a)) = Cardinality(L)
      BY <2>5 DEF StillLive
    <3> HIDE DEF t, L
    <3> QED
      BY <2>1, <2>2, <2>3, <2>4, <3>1, StaysBelow
  <2>6. CASE a = t
    <3>1. StillLive(FALSE, a) = L \ {n} /\ n \in L
      BY <1>2, <2>6 DEF StillLive
    <3>2. Cardinality(L \ {n}) = Cardinality(L) - 1
      BY <2>2, <3>1, FS_RemoveElement
    <3>3. Cardinality(StillLive(FALSE, a)) = Cardinality(L) - 1
      BY <3>1, <3>2
    <3>4. Deactivate(active, t)[a] = 0 \/ Deactivate(active, t)[a] = active[a] - 1
      BY <2>3, <2>6
    <3> HIDE DEF t, L
    <3> QED
      BY <2>1, <2>2, <2>4, <3>3, <3>4, StaysBelow
  <2> QED
    BY <2>5, <2>6
<1> QED
  BY <1>3 DEF Bounds

LEMMA KeepUp ==
  ASSUME IInv
  PROVE  Bounds(active, Top.live)
BY DEF IInv, OnlyLiveActive, Bounds, StillLive

LEMMA PassesLive ==
  ASSUME IInv, NEW live, Passes(live), live => Top.live
  PROVE  \A a : LiveFramesOf(a)' = StillLive(live, a)
<1> DEFINE n == Len(stack)
<1>1. /\ n \in Nat \ {0} /\ DOMAIN stack = 1..n /\ DOMAIN stack' = 1..n
      /\ \A i \in 1..(n - 1) : stack'[i] = stack[i]
      /\ stack'[n].ep = Top.ep /\ stack'[n].live = live /\ stack[n] = Top
  BY PassesStack
<1>2. \A i \in 1..n : i \in 1..(n - 1) \/ i = n
  BY <1>1, BelowOrLast
<1> QED
  BY <1>1, <1>2 DEF LiveFramesOf, StillLive

LEMMA FollowLive ==
  ASSUME IInv, NEW live, NEW e, Follow(live, e), live => Top.live
  PROVE  \A a : LiveFramesOf(a)'
                  = StillLive(live, a)
                      \cup (IF AppOf[e] \notin Suppressed /\ AppOf[e] = a
                            THEN {Len(stack) + 1} ELSE {})
<1> DEFINE n == Len(stack)
<1>1. /\ n \in Nat \ {0} /\ DOMAIN stack = 1..n /\ DOMAIN stack' = 1..(n + 1)
      /\ \A i \in 1..(n - 1) : stack'[i] = stack[i]
      /\ stack'[n].ep = Top.ep /\ stack'[n].live = live /\ stack[n] = Top
      /\ stack'[n + 1].ep = e /\ stack'[n + 1].live = (AppOf[e] \notin Suppressed)
  BY FollowStack
<1>2. /\ \A i \in 1..(n + 1) : i \in 1..(n - 1) \/ i = n \/ i = n + 1
      /\ \A i \in 1..n : i \in 1..(n - 1) \/ i = n
      /\ 1..(n - 1) \subseteq 1..n /\ n \in 1..n /\ n \notin 1..(n - 1)
      /\ 1..n \subseteq 1..(n + 1) /\ n + 1 \in 1..(n + 1) /\ n + 1 \notin 1..n
  BY <1>1, BelowOrLast
<1>3. ASSUME NEW a
      PROVE  LiveFramesOf(a)' = StillLive(live, a)
               \cup (IF AppOf[e] \notin Suppressed /\ AppOf[e] = a THEN {n + 1} ELSE {})
  <2>1. ASSUME NEW i \in 1..(n - 1)
        PROVE  i \in LiveFramesOf(a)' <=> i \in StillLive(live, a)
    BY <1>1, <1>2 DEF LiveFramesOf, StillLive
  <2>2. n \in LiveFramesOf(a)' <=> n \in StillLive(live, a)
    BY <1>1, <1>2 DEF LiveFramesOf, StillLive
  <2>3. n + 1 \in LiveFramesOf(a)' <=> AppOf[e] \notin Suppressed /\ AppOf[e] = a
    BY <1>1, <1>2 DEF LiveFramesOf
  <2>4. LiveFramesOf(a)' \subseteq 1..(n + 1) /\ StillLive(live, a) \subseteq 1..n
    BY <1>1 DEF LiveFramesOf, StillLive
  <2> HIDE DEF n
  <2> QED
    BY <1>2, <2>1, <2>2, <2>3, <2>4
<1> QED
  BY <1>3

LEMMA LeavesLive ==
  ASSUME IInv, Leaves
  PROVE  \A a : LiveFramesOf(a)' = StillLive(FALSE, a)
<1> DEFINE n == Len(stack)
<1>1. /\ n \in Nat \ {0} /\ DOMAIN stack = 1..n /\ DOMAIN stack' = 1..(n - 1)
      /\ \A i \in 1..(n - 1) : stack'[i] = stack[i]
      /\ stack[n] = Top
  BY LeavesStack
<1>2. /\ \A i \in 1..n : i \in 1..(n - 1) \/ i = n
      /\ 1..(n - 1) \subseteq 1..n /\ n \notin 1..(n - 1)
  BY <1>1, BelowOrLast
<1> QED
  BY <1>1, <1>2 DEF LiveFramesOf, StillLive

(* What visitEndpoint may have left of the activations before it draws the *)
(* call.                                                                   *)
ActiveAtCall ==
  IF Top.live /\ Releases(Top, CallTo) THEN Deactivate(active, AppOf[Top.ep]) ELSE active

LEMMA AtCall ==
  ASSUME IInv, VisitCall
  PROVE  /\ ActiveAtCall \in [App -> Nat] /\ Bounds(ActiveAtCall, LiveAfterCall)
         /\ LiveAfterCall => Top.live
<1>1. stack # <<>> /\ AppOf[Top.ep] \in App /\ active \in [App -> Nat]
  BY TopFacts, DiagramAssumption DEF VisitCall, AtStatement, IInv, TypeOK
<1>2. CASE Top.live /\ Releases(Top, CallTo)
  <2>1. ActiveAtCall = Deactivate(active, AppOf[Top.ep]) /\ LiveAfterCall = FALSE
    BY <1>2 DEF ActiveAtCall, LiveAfterCall
  <2> QED
    BY <1>1, <1>2, <2>1, GiveUp, DeactivateFacts
<1>3. CASE ~(Top.live /\ Releases(Top, CallTo))
  <2>1. ActiveAtCall = active /\ LiveAfterCall = Top.live
    <3>1. Top.live \in BOOLEAN
      BY <1>1, TopFacts DEF Frames
    <3> QED
      BY <1>3, <3>1 DEF ActiveAtCall, LiveAfterCall
  <2> QED
    BY <1>1, <2>1, KeepUp
<1> QED
  BY <1>2, <1>3 DEF LiveAfterCall

LEMMA NotFollowedFacts ==
  ASSUME NEW act \in [App -> Nat], NEW e \in Endpoint, NEW vis, NEW up
  PROVE  /\ NotFollowed(e, vis, up, act) \in [App -> Nat]
         /\ \A a \in App : NotFollowed(e, vis, up, act)[a] <= act[a]
<1>1. AppOf[e] \in App
  BY DiagramAssumption
<1>2. CASE NotFollowed(e, vis, up, act) = Deactivate(act, AppOf[e])
  BY <1>1, <1>2, DeactivateFacts
<1>3. CASE NotFollowed(e, vis, up, act) = act
  BY <1>3
<1> QED
  BY <1>2, <1>3 DEF NotFollowed

LEMMA FollowedFacts ==
  ASSUME NEW act \in [App -> Nat], NEW e \in Endpoint
  PROVE  /\ Followed(e, act) \in [App -> Nat]
         /\ \A a \in App :
              IF AppOf[e] \notin Suppressed /\ AppOf[e] = a
              THEN Followed(e, act)[a] = act[a] + 1 ELSE Followed(e, act)[a] = act[a]
<1>1. AppOf[e] \in App
  BY DiagramAssumption
<1> QED
  BY <1>1, ActivateFacts DEF Followed

LEMMA Transitive ==
  ASSUME NEW x \in Nat, NEW y \in Nat, NEW z \in Nat, x <= y, y <= z
  PROVE  x <= z
OBVIOUS

LEMMA LiveKept ==
  ASSUME IInv, [Next]_vars
  PROVE  active' \in [App -> Nat] /\ OnlyLiveActive'
<1>1. active \in [App -> Nat] /\ stack \in Seq(Frames) /\ stack' \in Seq(Frames)
  BY StackKept DEF IInv, TypeOK, Frames
<1>2. ASSUME NEW live, \A a : LiveFramesOf(a)' = StillLive(live, a), Bounds(active', live)
      PROVE  OnlyLiveActive'
  BY <1>2 DEF Bounds, OnlyLiveActive
<1>3. CASE NextEntry
  <2> DEFINE e == entries[section'].ep
  <2>1. /\ e \in Endpoint /\ AppOf[e] \in App
        /\ Expands(e, NotVisited, uptos') => stack' = <<Frame(e)>>
        /\ VisitEndpoint(e, <<>>, NotVisited, uptos', active)
    BY <1>3, EntryShape, DiagramAssumption DEF NextEntry
  <2>2. \A a \in App : active[a] = 0
    <3>1. stack = <<>>
      BY <1>3 DEF NextEntry
    <3>2. ASSUME NEW a PROVE Cardinality(LiveFramesOf(a)) = 0
      <4>1. LiveFramesOf(a) = {}
        BY <3>1 DEF LiveFramesOf
      <4> QED
        BY <4>1, FS_EmptySet
    <3> QED
      BY <1>1, <3>2 DEF IInv, OnlyLiveActive
  <2>3. \A a \in App : Cardinality(LiveFramesOf(a)') \in Nat
    <3>1. ASSUME NEW a \in App PROVE Cardinality(LiveFramesOf(a)') \in Nat
      <4>1. Len(stack') \in Nat /\ DOMAIN stack' = 1..Len(stack')
        BY <1>1
      <4>2. LiveFramesOf(a)' \in SUBSET (1..Len(stack'))
        BY <4>1 DEF LiveFramesOf
      <4>3. IsFiniteSet(1..Len(stack'))
        BY <4>1, FS_Interval
      <4>4. IsFiniteSet(LiveFramesOf(a)')
        BY <4>2, <4>3, FS_Subset
      <4> QED
        BY <4>4, FS_CardinalityType
    <3> QED
      BY <3>1
  <2>4. CASE Expands(e, NotVisited, uptos')
    <3>1. active' = Followed(e, active) /\ stack' = <<Frame(e)>>
      BY <2>1, <2>4 DEF VisitEndpoint
    <3> HIDE DEF e
    <3>2. active' \in [App -> Nat]
      BY <1>1, <2>1, <3>1, FollowedFacts
    <3>3. ASSUME NEW a \in App PROVE active'[a] <= Cardinality(LiveFramesOf(a)')
      <4>1. CASE AppOf[e] \notin Suppressed /\ AppOf[e] = a
        <5>1. active'[a] = 1
          BY <1>1, <2>1, <2>2, <3>1, <4>1, FollowedFacts
        <5>2. LiveFramesOf(a)' = {1}
          <6>1. Frame(e).ep = e /\ Frame(e).live
            BY <2>1, <4>1, FrameFacts
          <6>2. DOMAIN stack' = {1} /\ stack'[1] = Frame(e)
            BY <3>1
          <6> QED
            BY <4>1, <6>1, <6>2 DEF LiveFramesOf
        <5> QED
          BY <5>1, <5>2, FS_Singleton
      <4>2. CASE ~(AppOf[e] \notin Suppressed /\ AppOf[e] = a)
        <5>1. active'[a] = 0
          BY <1>1, <2>1, <2>2, <3>1, <4>2, FollowedFacts
        <5> QED
          BY <2>3, <5>1
      <4> QED
        BY <4>1, <4>2
    <3> QED
      BY <3>2, <3>3 DEF OnlyLiveActive
  <2>5. CASE ~Expands(e, NotVisited, uptos')
    <3>1. active' = NotFollowed(e, NotVisited, uptos', active)
      BY <2>1, <2>5 DEF VisitEndpoint
    <3> HIDE DEF e
    <3>2. active' \in [App -> Nat] /\ \A a \in App : active'[a] <= active[a]
      BY <1>1, <2>1, <3>1, NotFollowedFacts
    <3>3. ASSUME NEW a \in App PROVE active'[a] <= Cardinality(LiveFramesOf(a)')
      <4>1. active'[a] = 0
        BY <2>2, <3>2
      <4> QED
        BY <2>3, <4>1
    <3> QED
      BY <3>2, <3>3 DEF OnlyLiveActive
  <2> QED
    BY <2>4, <2>5
<1>4. CASE VisitCall
  <2>1. /\ ActiveAtCall \in [App -> Nat] /\ Bounds(ActiveAtCall, LiveAfterCall)
        /\ LiveAfterCall => Top.live
    BY <1>4, AtCall
  <2>2. CallTo \in Endpoint
    BY <1>4, CallShape
  <2>3. CASE Expands(CallTo, visited, uptos)
    <3>1. active' = Followed(CallTo, ActiveAtCall)
      BY <1>4, <2>3 DEF VisitCall, VisitEndpoint, CallTo, ActiveAtCall
    <3>2. Follow(LiveAfterCall, CallTo)
      BY <1>4, <2>3, CallShape
    <3>3. active' \in [App -> Nat]
      BY <2>1, <2>2, <3>1, FollowedFacts
    <3>4. ASSUME NEW a \in App PROVE active'[a] <= Cardinality(LiveFramesOf(a)')
      <4> DEFINE S == StillLive(LiveAfterCall, a)
                 k == Cardinality(S)
                 m == Len(stack) + 1
      <4>1. IsFiniteSet(S) /\ k \in Nat /\ m \notin S
        <5>1. S \subseteq 1..Len(stack) /\ Len(stack) \in Nat /\ IsFiniteSet(S) /\ k \in Nat
          BY <1>1, StillLiveIsFinite
        <5>2. m \notin 1..Len(stack)
          BY <5>1
        <5> QED
          BY <5>1, <5>2
      <4>2. ActiveAtCall[a] \in Nat /\ ActiveAtCall[a] <= k
        BY <2>1 DEF Bounds
      <4>3. CASE AppOf[CallTo] \notin Suppressed /\ AppOf[CallTo] = a
        <5>1. active'[a] = ActiveAtCall[a] + 1
          BY <2>1, <2>2, <3>1, <4>3, FollowedFacts
        <5>2. LiveFramesOf(a)' = S \cup {m}
          BY <2>1, <3>2, <4>3, FollowLive
        <5> HIDE DEF S, m
        <5>3. Cardinality(S \cup {m}) = k + 1
          BY <4>1, FS_AddElement
        <5> HIDE DEF k
        <5> QED
          BY <4>1, <4>2, <5>1, <5>2, <5>3
      <4>4. CASE ~(AppOf[CallTo] \notin Suppressed /\ AppOf[CallTo] = a)
        <5>1. active'[a] = ActiveAtCall[a]
          BY <2>1, <2>2, <3>1, <4>4, FollowedFacts
        <5>2. LiveFramesOf(a)'
                = S \cup (IF AppOf[CallTo] \notin Suppressed /\ AppOf[CallTo] = a
                          THEN {m} ELSE {})
          BY <2>1, <3>2, FollowLive
        <5>3. LiveFramesOf(a)' = S
          <6> HIDE DEF S, m
          <6> QED
            BY <4>4, <5>2
        <5> QED
          BY <4>2, <5>1, <5>3
      <4> QED
        BY <4>3, <4>4
    <3> QED
      BY <3>3, <3>4 DEF OnlyLiveActive
  <2>4. CASE ~Expands(CallTo, visited, uptos)
    <3>1. active' = NotFollowed(CallTo, visited, uptos, ActiveAtCall)
      BY <1>4, <2>4 DEF VisitCall, VisitEndpoint, CallTo, ActiveAtCall
    <3>2. Passes(LiveAfterCall)
      BY <1>4, <2>4, CallShape
    <3>3. active' \in [App -> Nat] /\ \A a \in App : active'[a] <= ActiveAtCall[a]
      BY <2>1, <2>2, <3>1, NotFollowedFacts
    <3>4. \A a : LiveFramesOf(a)' = StillLive(LiveAfterCall, a)
      BY <2>1, <3>2, PassesLive
    <3>5. ASSUME NEW a \in App PROVE active'[a] <= Cardinality(StillLive(LiveAfterCall, a))
      <4>1. /\ Cardinality(StillLive(LiveAfterCall, a)) \in Nat
            /\ active'[a] \in Nat /\ ActiveAtCall[a] \in Nat
            /\ active'[a] <= ActiveAtCall[a]
            /\ ActiveAtCall[a] <= Cardinality(StillLive(LiveAfterCall, a))
        BY <2>1, <3>3, StillLiveIsFinite DEF Bounds
      <4> QED
        BY <4>1, Transitive
    <3> QED
      BY <1>2, <3>3, <3>4, <3>5 DEF Bounds
  <2> QED
    BY <2>3, <2>4
<1>5. CASE PassStatement
  <2>1. active' = active
    BY <1>5 DEF PassStatement, VisitLine, OpenBlock, CloseBlock
  <2>2. \A a : LiveFramesOf(a)' = StillLive(Top.live, a)
    BY <1>5, StatementShape, PassesLive
  <2> QED
    BY <1>1, <1>2, <2>1, <2>2, KeepUp
<1>6. CASE EndOfEndpoint
  <2>1. Leaves /\ \A a : LiveFramesOf(a)' = StillLive(FALSE, a)
    BY <1>6, LeaveShape, LeavesLive
  <2>2. active' = IF Top.live THEN Deactivate(active, AppOf[Top.ep]) ELSE active
    BY <1>6 DEF EndOfEndpoint
  <2>3. stack # <<>> /\ AppOf[Top.ep] \in App /\ Top.live \in BOOLEAN
    BY <2>1, TopFacts, DiagramAssumption DEF Leaves, Frames
  <2>4. CASE Top.live
    BY <1>1, <1>2, <2>1, <2>2, <2>3, <2>4, GiveUp, DeactivateFacts
  <2>5. CASE ~Top.live
    <3>1. Bounds(active, FALSE)
      BY <2>3, <2>5, KeepUp
    <3> QED
      BY <1>1, <1>2, <2>1, <2>2, <2>5, <3>1
  <2> QED
    BY <2>4, <2>5
<1>7. CASE UNCHANGED vars
  BY <1>1, <1>7 DEF vars, IInv, OnlyLiveActive, LiveFramesOf
<1> QED
  BY <1>3, <1>4, <1>5, <1>6, <1>7 DEF Next, PassStatement

---------------------------------------------------------------------------
(* What a section expands                                                  *)

(* Within a section, what is followed stays the same.                      *)
SameSection == body' = body /\ entries' = entries /\ section' = section /\ uptos' = uptos

LEMMA SameCalls ==
  ASSUME SameSection
  PROVE  /\ \A e : Follows(e)' <=> Follows(e)
         /\ \A e, i : FollowedCall(e, i)' <=> FollowedCall(e, i)
         /\ \A S, root : ClosedUnderCalls(S, root)' <=> ClosedUnderCalls(S, root)
BY DEF SameSection, Follows, FollowedCall, ClosedUnderCalls

(* The calls of what was expanded are awaited, when the frames below the   *)
(* top stay, and the statement that the top passes was not a call that is  *)
(* still missing.                                                          *)
LEMMA AwaitedBelow ==
  ASSUME IInv, stack # <<>>, SameSection,
         1..Len(stack) \subseteq DOMAIN stack',
         \A i \in 1..(Len(stack) - 1) : stack'[i] = stack[i],
         stack'[Len(stack)].ep = Top.ep, stack'[Len(stack)].pos = Top.pos + 1,
         expanded \subseteq expanded',
         FollowedCall(Top.ep, Top.pos) => CallTo \in expanded',
         NEW e \in expanded, NEW i \in DOMAIN body[e], FollowedCall(e, i)
  PROVE  \/ body[e][i].to \in expanded'
         \/ \E k \in DOMAIN stack' : stack'[k].ep = e /\ stack'[k].pos <= i
<1> DEFINE n == Len(stack)
<1>1. n \in Nat \ {0} /\ stack[n] = Top /\ Top.pos \in Nat /\ DOMAIN stack = 1..n
  BY SMTT(60), TopFacts DEF Frames, IInv, TypeOK
<1>2. CASE body[e][i].to \in expanded
  BY <1>2
<1>3. CASE body[e][i].to \notin expanded
  <2>1. PICK k \in DOMAIN stack : stack[k].ep = e /\ stack[k].pos <= i
    BY <1>3 DEF IInv, CallsAwaited
  <2>2. CASE k \in 1..(n - 1)
    <3>1. stack'[k] = stack[k] /\ k \in DOMAIN stack'
      BY <1>1, <2>2, BelowOrLast
    <3> QED
      BY <2>1, <3>1
  <2>3. CASE k = n
    <3>1. e = Top.ep /\ Top.pos <= i
      BY <1>1, <2>1, <2>3
    <3>2. CASE i = Top.pos
      BY <3>1, <3>2 DEF CallTo
    <3>3. CASE i # Top.pos
      <4>1. i \in Nat
        <5>1. e \in Endpoint /\ body \in [Endpoint -> Seq(Statement)]
          BY <3>1, <1>1, TopFacts DEF IInv, TypeOK
        <5>2. body[e] \in Seq(Statement)
          BY <5>1
        <5> QED
          BY <5>2
      <4>2. Top.pos + 1 <= i
        BY <1>1, <3>1, <3>3, <4>1
      <4>3. n \in DOMAIN stack'
        BY <1>1, BelowOrLast
      <4> QED
        BY <3>1, <4>2, <4>3
    <3> QED
      BY <3>2, <3>3
  <2> QED
    BY <1>1, <2>1, <2>2, <2>3, BelowOrLast
<1> QED
  BY <1>2, <1>3

Expansion ==
  /\ section \in 0..Len(entries)
  /\ uptos \subseteq Endpoint
  /\ visited \in [Endpoint -> Nat]
  /\ expanded \subseteq Endpoint
  /\ section = 0 => stack = <<>>
  /\ OpenOnce
  /\ WithinBodies
  /\ OpenEndpoints \subseteq expanded
  /\ ExpandedIsReached
  /\ CallsAwaited
  /\ EntryExpanded

LEMMA EntryExpansion ==
  ASSUME IInv, NextEntry
  PROVE  Expansion'
<1> DEFINE e == entries[section'].ep
<1>1. /\ body' = body /\ entries' = entries /\ section' = section + 1
      /\ section' \in 1..Len(entries) /\ e \in Endpoint /\ uptos' \subseteq Endpoint
      /\ body \in [Endpoint -> Seq(Statement)]
  BY EntryShape DEF NextEntry, input, IInv, TypeOK
<1>2. (body'[e] # <<>> /\ e \notin uptos') <=> Expands(e, NotVisited, uptos')
  BY <1>1 DEF Expands, NotVisited
<1>3. section' \in 0..Len(entries') /\ section' # 0
  <2>1. section \in Nat
    BY DEF IInv, TypeOK
  <2> QED
    BY <1>1, <2>1
<1>4. CASE Expands(e, NotVisited, uptos')
  <2>1. stack' = <<Frame(e)>> /\ visited' = [NotVisited EXCEPT ![e] = 1] /\ expanded' = {e}
    BY <1>4, EntryShape
  <2> HIDE DEF e
  <2>2. DOMAIN stack' = {1} /\ stack'[1].ep = e /\ stack'[1].pos = 1
    BY <1>1, <2>1, FrameFacts
  <2>3. OpenEndpoints' = {e}
    BY <2>2 DEF OpenEndpoints
  <2>4. visited' \in [Endpoint -> Nat] /\ OpenOnce'
    BY <1>1, <2>1, <2>2, <2>3 DEF OpenOnce, NotVisited
  <2>5. WithinBodies'
    <3>1. Len(body[e]) \in Nat
      BY <1>1
    <3> QED
      BY <1>1, <2>2, <3>1 DEF WithinBodies
  <2>6. ExpandedIsReached'
    <3>1. e = entries'[section'].ep
      BY <1>1 DEF e
    <3> QED
      BY <1>2, <1>4, <2>1, <3>1 DEF ExpandedIsReached, ClosedUnderCalls, Follows
  <2>7. CallsAwaited'
    <3>1. ASSUME NEW i \in DOMAIN body[e] PROVE 1 <= i
      <4>1. body[e] \in Seq(Statement)
        BY <1>1
      <4> QED
        BY <4>1
    <3> QED
      BY <1>1, <2>1, <2>2, <3>1 DEF CallsAwaited
  <2>8. EntryExpanded'
    BY <1>1, <2>1 DEF EntryExpanded, e
  <2> QED
    BY <1>1, <1>3, <2>1, <2>3, <2>4, <2>5, <2>6, <2>7, <2>8 DEF Expansion
<1>5. CASE ~Expands(e, NotVisited, uptos')
  <2>1. stack' = <<>> /\ visited' = NotVisited /\ expanded' = {}
    BY <1>5, EntryShape
  <2>2. DOMAIN stack' = {} /\ OpenEndpoints' = {}
    BY <2>1 DEF OpenEndpoints
  <2>3. visited' \in [Endpoint -> Nat] /\ OpenOnce' /\ WithinBodies'
    BY <2>1, <2>2 DEF OpenOnce, WithinBodies, NotVisited
  <2>4. ExpandedIsReached' /\ CallsAwaited'
    BY <2>1 DEF ExpandedIsReached, CallsAwaited
  <2>5. EntryExpanded'
    BY <1>1, <1>2, <1>5 DEF EntryExpanded, Follows
  <2> QED
    BY <1>1, <1>3, <2>1, <2>2, <2>3, <2>4, <2>5 DEF Expansion
<1> QED
  BY <1>4, <1>5

LEMMA FollowExpansion ==
  ASSUME IInv, VisitCall, Expands(CallTo, visited, uptos)
  PROVE  Expansion'
<1> DEFINE n == Len(stack)
           to == CallTo
<1>1. /\ SameSection /\ expanded' = expanded \cup {to}
      /\ visited' = [visited EXCEPT ![to] = @ + 1]
  BY DEF VisitCall, VisitEndpoint, input, CallTo, SameSection
<1>2. /\ Follow(LiveAfterCall, to) /\ stack # <<>> /\ Top.pos <= Len(body[Top.ep])
      /\ body[Top.ep][Top.pos].kind = "call" /\ to \in Endpoint
  BY CallShape
<1>3. Top.ep \in expanded /\ section > 0 /\ FollowedCall(Top.ep, Top.pos)
  <2>1. Top.pos \in DOMAIN body[Top.ep]
    BY <1>2, TopFacts DEF Frames
  <2> QED
    BY <1>2, <2>1, TopFacts DEF FollowedCall, Follows, Expands, CallTo
<1>4. /\ n \in Nat \ {0} /\ DOMAIN stack' = 1..(n + 1) /\ 1..n \subseteq 1..(n + 1)
      /\ n + 1 \in 1..(n + 1)
      /\ \A i \in 1..(n - 1) : stack'[i] = stack[i]
      /\ stack'[n].ep = Top.ep /\ stack'[n].pos = Top.pos + 1
      /\ stack'[n + 1].ep = to /\ stack'[n + 1].pos = 1
  BY <1>2, FollowStack, BelowOrLast
<1>5. OpenOnce' /\ WithinBodies' /\ OpenEndpoints' = OpenEndpoints \cup {to}
  BY <1>1, <1>2, FollowOpenOnce DEF Expands, SameSection
<1>6. visited' \in [Endpoint -> Nat]
  BY <1>1, <1>2 DEF IInv, TypeOK
<1>7. ExpandedIsReached'
  <2>1. ASSUME NEW S \in SUBSET Endpoint, ClosedUnderCalls(S, entries[section].ep)
        PROVE  expanded' \subseteq S
    <3>1. expanded \subseteq S
      BY <1>3, <2>1 DEF IInv, ExpandedIsReached
    <3>2. to \in S
      BY <1>3, <2>1, <3>1 DEF ClosedUnderCalls, FollowedCall, CallTo
    <3> QED
      BY <1>1, <3>1, <3>2
  <2> QED
    BY <1>1, <2>1, SameCalls DEF ExpandedIsReached, SameSection
<1>8. CallsAwaited'
  <2>1. ASSUME NEW e \in expanded', NEW i \in DOMAIN body[e], FollowedCall(e, i)
        PROVE  \/ body[e][i].to \in expanded'
               \/ \E k \in DOMAIN stack' : stack'[k].ep = e /\ stack'[k].pos <= i
    <3>1. CASE e \in expanded
      BY <1>1, <1>2, <1>4, <2>1, <3>1, AwaitedBelow
    <3>2. CASE e = to
      <4>1. body[e] \in Seq(Statement)
        BY <1>2, <3>2 DEF IInv, TypeOK
      <4>2. 1 <= i
        BY <2>1, <4>1
      <4> QED
        BY <1>4, <3>2, <4>2
    <3> QED
      BY <1>1, <3>1, <3>2
  <2> QED
    BY <1>1, <2>1, SameCalls DEF CallsAwaited, SameSection
<1>9. EntryExpanded'
  BY <1>1, SameCalls DEF SameSection, EntryExpanded, IInv
<1> QED
  BY <1>1, <1>2, <1>3, <1>5, <1>6, <1>7, <1>8, <1>9
     DEF Expansion, SameSection, IInv, TypeOK

(* A call that is followed and not expanded is one of an open endpoint.    *)
LEMMA PassExpansion ==
  ASSUME IInv, SameSection, NEW live, Passes(live), expanded' = expanded, visited' = visited,
         FollowedCall(Top.ep, Top.pos) => CallTo \in expanded
  PROVE  Expansion'
<1> DEFINE n == Len(stack)
<1>1. /\ n \in Nat \ {0} /\ DOMAIN stack' = 1..n
      /\ \A i \in 1..(n - 1) : stack'[i] = stack[i]
      /\ stack'[n].ep = Top.ep /\ stack'[n].pos = Top.pos + 1
  BY PassesStack
<1>2. stack # <<>> /\ section > 0
  BY TopFacts DEF Passes
<1>3. OpenOnce' /\ WithinBodies' /\ OpenEndpoints' = OpenEndpoints
  BY PassesOpenOnce DEF SameSection
<1>4. ExpandedIsReached' /\ EntryExpanded'
  BY SameCalls DEF ExpandedIsReached, EntryExpanded, SameSection, IInv
<1>5. CallsAwaited'
  <2>1. ASSUME NEW e \in expanded, NEW i \in DOMAIN body[e], FollowedCall(e, i)
        PROVE  \/ body[e][i].to \in expanded'
               \/ \E k \in DOMAIN stack' : stack'[k].ep = e /\ stack'[k].pos <= i
    BY <1>1, <1>2, <2>1, AwaitedBelow
  <2> QED
    BY <2>1, SameCalls DEF CallsAwaited, SameSection
<1> QED
  BY <1>2, <1>3, <1>4, <1>5 DEF Expansion, SameSection, IInv, TypeOK

LEMMA LeaveExpansion ==
  ASSUME IInv, EndOfEndpoint
  PROVE  Expansion'
<1> DEFINE n == Len(stack)
<1>1. /\ SameSection /\ expanded' = expanded
      /\ visited' = [visited EXCEPT ![Top.ep] = @ - 1]
  BY DEF EndOfEndpoint, SameSection, input
<1>2. Leaves /\ stack # <<>> /\ Top.pos > Len(body[Top.ep])
  BY LeaveShape DEF Leaves
<1>3. section > 0 /\ body[Top.ep] \in Seq(Statement) /\ Top.pos \in Nat
  BY <1>2, TopFacts DEF Frames
<1>4. /\ n \in Nat \ {0} /\ DOMAIN stack = 1..n /\ DOMAIN stack' = 1..(n - 1)
      /\ \A i \in 1..(n - 1) : stack'[i] = stack[i]
      /\ stack[n] = Top
  BY <1>2, LeavesStack
<1>5. /\ OpenOnce' /\ WithinBodies' /\ OpenEndpoints' = OpenEndpoints \ {Top.ep}
      /\ visited' \in [Endpoint -> Nat]
  BY <1>1, <1>2, LeavesOpenOnce DEF SameSection
<1>6. ExpandedIsReached' /\ EntryExpanded'
  BY <1>1, SameCalls DEF ExpandedIsReached, EntryExpanded, SameSection, IInv
<1>7. CallsAwaited'
  <2>1. ASSUME NEW e \in expanded, NEW i \in DOMAIN body[e], FollowedCall(e, i),
               body[e][i].to \notin expanded
        PROVE  \E k \in DOMAIN stack' : stack'[k].ep = e /\ stack'[k].pos <= i
    <3>1. PICK k \in DOMAIN stack : stack[k].ep = e /\ stack[k].pos <= i
      BY <2>1 DEF IInv, CallsAwaited
    <3>2. k # n
      <4>1. SUFFICES ASSUME k = n PROVE FALSE
        OBVIOUS
      <4>2. e = Top.ep /\ Top.pos <= i
        BY <1>4, <3>1, <4>1
      <4>3. i \in Nat /\ i <= Len(body[Top.ep]) /\ Len(body[Top.ep]) \in Nat
        BY <1>3, <4>2
      <4> QED
        BY <1>2, <1>3, <4>2, <4>3
    <3>3. k \in 1..(n - 1)
      BY <1>4, <3>2, BelowOrLast
    <3> QED
      BY <1>4, <3>1, <3>3
  <2> QED
    BY <1>1, <2>1, SameCalls DEF CallsAwaited, SameSection
<1> QED
  BY <1>1, <1>3, <1>5, <1>6, <1>7 DEF Expansion, SameSection, IInv, TypeOK

LEMMA ExpansionKept ==
  ASSUME IInv, [Next]_vars
  PROVE  Expansion'
<1>1. CASE NextEntry
  BY <1>1, EntryExpansion
<1>2. CASE VisitCall
  <2>1. CASE Expands(CallTo, visited, uptos)
    BY <1>2, <2>1, FollowExpansion
  <2>2. CASE ~Expands(CallTo, visited, uptos)
    <3>1. SameSection /\ expanded' = expanded /\ visited' = visited
      BY <1>2, <2>2 DEF VisitCall, VisitEndpoint, input, CallTo, SameSection
    <3>2. Passes(LiveAfterCall) /\ CallTo \in Endpoint
      BY <1>2, <2>2, CallShape
    <3>3. ASSUME FollowedCall(Top.ep, Top.pos) PROVE CallTo \in expanded
      <4>1. visited[CallTo] # 0
        BY <2>2, <3>3 DEF Expands, FollowedCall, Follows, CallTo
      <4>2. CallTo \in OpenEndpoints
        BY <3>2, <4>1 DEF IInv, OpenOnce
      <4> QED
        BY <4>2 DEF IInv
    <3> QED
      BY <3>1, <3>2, <3>3, PassExpansion
  <2> QED
    BY <2>1, <2>2
<1>3. CASE PassStatement
  <2>1. SameSection /\ expanded' = expanded /\ visited' = visited
    BY <1>3 DEF PassStatement, VisitLine, OpenBlock, CloseBlock, input, SameSection
  <2>2. Passes(Top.live)
    BY <1>3, StatementShape
  <2>3. ~FollowedCall(Top.ep, Top.pos)
    BY <1>3 DEF PassStatement, VisitLine, OpenBlock, CloseBlock, AtStatement, FollowedCall
  <2> QED
    BY <2>1, <2>2, <2>3, PassExpansion
<1>4. CASE EndOfEndpoint
  BY <1>4, LeaveExpansion
<1>5. CASE UNCHANGED vars
  <2>1. SameSection /\ expanded' = expanded /\ visited' = visited /\ stack' = stack
    BY <1>5 DEF vars, SameSection
  <2>2. OpenEndpoints' = OpenEndpoints
    BY <2>1 DEF OpenEndpoints
  <2>3. OpenOnce' /\ WithinBodies'
    BY <2>1, <2>2 DEF OpenOnce, WithinBodies, IInv, SameSection
  <2>4. ExpandedIsReached' /\ EntryExpanded' /\ CallsAwaited'
    BY <2>1, SameCalls
       DEF ExpandedIsReached, EntryExpanded, CallsAwaited, SameSection, IInv
  <2> QED
    BY <2>1, <2>2, <2>3, <2>4 DEF Expansion, SameSection, IInv, TypeOK
<1> QED
  BY <1>1, <1>2, <1>3, <1>4, <1>5 DEF Next, PassStatement

---------------------------------------------------------------------------
(* The invariant                                                           *)

LEMMA InitIInv == Init => IInv
<1> SUFFICES ASSUME Init PROVE IInv
  OBVIOUS
<1>1. /\ stack = <<>> /\ DOMAIN stack = {} /\ Len(stack) = 0 /\ section = 0
      /\ ind = 0 /\ expanded = {} /\ visited = NotVisited /\ active = [a \in App |-> 0]
  BY DEF Init
<1>2. /\ body \in Bodies /\ body \in [Endpoint -> Seq(Statement)]
      /\ entries \in Seq(Entry) /\ uptos \subseteq Endpoint
  BY DiagramAssumption DEF Init
<1>3. TypeOK
  BY <1>1, <1>2 DEF TypeOK, NotVisited
<1>4. OpenEndpoints = {}
  BY <1>1 DEF OpenEndpoints
<1>5. OpenOnce /\ WithinBodies
  BY <1>1, <1>4 DEF OpenOnce, WithinBodies, NotVisited
<1>6. IndentBalanced /\ BlocksNest
  <2>1. \A kind : Cardinality(PassedBy(body, stack, kind, 0)) = 0
    BY PassedByNone
  <2> QED
    BY <1>1, <2>1 DEF IndentBalanced, BlocksNest, Passed
<1>7. OnlyLiveActive
  <2>1. ASSUME NEW a \in App PROVE Cardinality(LiveFramesOf(a)) = 0
    <3>1. LiveFramesOf(a) = {}
      BY <1>1 DEF LiveFramesOf
    <3> QED
      BY <3>1, FS_EmptySet
  <2> QED
    BY <1>1, <2>1 DEF OnlyLiveActive
<1>8. ExpandedIsReached /\ CallsAwaited /\ EntryExpanded
  BY <1>1 DEF ExpandedIsReached, CallsAwaited, EntryExpanded
<1> QED
  BY <1>1, <1>2, <1>3, <1>4, <1>5, <1>6, <1>7, <1>8 DEF IInv

LEMMA NextIInv == IInv /\ [Next]_vars => IInv'
<1> SUFFICES ASSUME IInv, [Next]_vars PROVE IInv'
  OBVIOUS
<1>1. stack' \in Seq(Frames) /\ body' = body /\ entries' = entries
  BY StackKept
<1>2. IndentBalanced' /\ BlocksNest' /\ ind' \in Nat
  BY BalanceKept
<1>3. active' \in [App -> Nat] /\ OnlyLiveActive'
  BY LiveKept
<1>4. Expansion'
  BY ExpansionKept
<1>5. TypeOK'
  BY <1>1, <1>2, <1>3, <1>4 DEF TypeOK, Expansion, Frames, IInv
<1>6. (body \in Bodies)'
  BY <1>1 DEF IInv
<1> QED
  BY <1>2, <1>3, <1>4, <1>5, <1>6 DEF IInv, Expansion

LEMMA Invariance == Spec => []IInv
BY InitIInv, NextIInv, PTL DEF Spec

---------------------------------------------------------------------------
(* Every variable keeps its type: Ind and the activation counts never fall *)
(* below zero, however the statements nest and call each other.            *)
THEOREM TypeCorrect == Spec => []TypeOK
<1>1. IInv => TypeOK
  BY DEF IInv
<1> QED
  BY <1>1, Invariance, PTL

(* visited counts the expansions of an endpoint that are open, and an      *)
(* endpoint is never expanded inside itself, so the walk cuts every cycle. *)
THEOREM NoEndpointOpenTwice == Spec => []NoneOpenTwice
<1>1. IInv => NoneOpenTwice
  <2> SUFFICES ASSUME IInv, NEW e \in Endpoint
               PROVE  visited[e] = Cardinality(FramesOf(e)) /\ visited[e] <= 1
    BY DEF NoneOpenTwice
  <2>1. CASE e \in OpenEndpoints
    <3>1. PICK i \in DOMAIN stack : stack[i].ep = e
      BY <2>1 DEF OpenEndpoints
    <3>2. FramesOf(e) = {i}
      BY <3>1 DEF FramesOf, IInv, OpenOnce
    <3>3. Cardinality({i}) = 1
      BY FS_Singleton
    <3>4. visited[e] = 1
      BY <2>1 DEF IInv, OpenOnce
    <3> QED
      BY <3>2, <3>3, <3>4
  <2>2. CASE e \notin OpenEndpoints
    <3>1. FramesOf(e) = {}
      BY <2>2 DEF FramesOf, OpenEndpoints
    <3>2. Cardinality({}) = 0
      BY FS_EmptySet
    <3>3. visited[e] = 0
      BY <2>2 DEF IInv, OpenOnce
    <3> QED
      BY <3>1, <3>2, <3>3
  <2> QED
    BY <2>1, <2>2
<1> QED
  BY <1>1, Invariance, PTL

(* The indentation is the number of the calls and the blocks that are      *)
(* open: each visit takes back what it indented, on every path.            *)
THEOREM IndentFollowsStack == Spec => []IndentBalanced
<1>1. IInv => IndentBalanced
  BY DEF IInv
<1> QED
  BY <1>1, Invariance, PTL

(* A participant is active at most as often as it has expansions that were *)
(* not released, whatever calls are drawn as the last of their callers.    *)
THEOREM ActiveOnlyWhileLive == Spec => []OnlyLiveActive
<1>1. IInv => OnlyLiveActive
  BY DEF IInv
<1> QED
  BY <1>1, Invariance, PTL

(* No lifeline runs on from one section of the diagram into the next.      *)
THEOREM LifelinesAreClosed == Spec => []LifelinesClosed
<1>1. IInv => LifelinesClosed
  <2> SUFFICES ASSUME IInv, stack = <<>>, NEW a \in App PROVE active[a] = 0
    BY DEF LifelinesClosed
  <2>1. LiveFramesOf(a) = {}
    BY DEF LiveFramesOf
  <2>2. Cardinality(LiveFramesOf(a)) = 0
    BY <2>1, FS_EmptySet
  <2> QED
    BY <2>2 DEF IInv, TypeOK, OnlyLiveActive
<1> QED
  BY <1>1, Invariance, PTL

(* A section that is drawn has expanded exactly what its entry reaches by  *)
(* calls that pass no upto: visited cuts a call off only where the callee  *)
(* is expanded anyway.                                                     *)
THEOREM SectionIsComplete == Spec => []SectionDrawsReachable
<1>1. IInv => SectionDrawsReachable
  <2> SUFFICES ASSUME IInv, stack = <<>>, section > 0
               PROVE  expanded = {e \in Endpoint :
                        \A S \in SUBSET Endpoint :
                          ClosedUnderCalls(S, entries[section].ep) => e \in S}
    BY DEF SectionDrawsReachable
  <2>1. expanded \in SUBSET Endpoint
    BY DEF IInv, TypeOK
  <2>2. ClosedUnderCalls(expanded, entries[section].ep)
    <3>1. Follows(entries[section].ep) => entries[section].ep \in expanded
      BY DEF IInv, EntryExpanded
    <3>2. ASSUME NEW e \in expanded, NEW i \in DOMAIN body[e],
                 body[e][i].kind = "call", Follows(body[e][i].to)
          PROVE  body[e][i].to \in expanded
      <4>1. DOMAIN stack = {}
        OBVIOUS
      <4> QED
        BY <3>2, <4>1 DEF IInv, CallsAwaited, FollowedCall
    <3> QED
      BY <3>1, <3>2 DEF ClosedUnderCalls
  <2>3. ASSUME NEW e \in expanded, NEW S \in SUBSET Endpoint,
               ClosedUnderCalls(S, entries[section].ep)
        PROVE  e \in S
    BY <2>3 DEF IInv, ExpandedIsReached
  <2> QED
    BY <2>1, <2>2, <2>3
<1> QED
  BY <1>1, Invariance, PTL
============================================================================
