--------------------------- MODULE SyslWalkProofs ---------------------------
(***************************************************************************)
(* The listener and the open rules (SyslWalk), for any tree that the       *)
(* grammar allows: Reps, Open and Detours are arbitrary.                   *)
(*                                                                         *)
(* Every proof is an induction over the steps, EnterRule and ExitRule; the *)
(* callbacks and the grammar are those of ListenerProofs.  In this order:  *)
(*                                                                         *)
(*  - IInv: which rules are open in which, and that the stacks of the      *)
(*    listener are those of the open rules;                                *)
(*  - EInv on top of it: the height of expr_stack follows from how many    *)
(*    values the children walked so far have left;                         *)
(*  - what a callback looks for is there: the field that is declared       *)
(*    (FieldsFound), the types of the application (AppsFound), the scope   *)
(*    (ScopesFound), the statement (CallsFound), and the expression that   *)
(*    an open rule has put on expr_stack (Pinning);                        *)
(*  - so no callback panics but those that are known to (PanicsAreKnown).  *)
(***************************************************************************)
EXTENDS ListenerProofs

-----------------------------------------------------------------------------
\* The inductive invariant

\* What is left of a word was in it.
RestsFit ==
  \A i \in 1..Len(open) : \A k \in 1..Len(open[i].rest) : MayHave(open[i].rule, open[i].rest[k])

\* No rule of Z is open inside of one of A.
Above(A, Z) ==
  \A i, j \in 1..Len(open) : i < j /\ open[i].rule \in A => open[j].rule \notin Z

Nesting ==
  /\ Above({"rest_endpoint"}, Roots)
  /\ Above({"method_def"}, {"file"} \cup (Shallow \ {"params"}))
  /\ Above(TypeRules \cup {"http_path"}, {"file"} \cup Shallow)

\* The path of a rest endpoint is the first that is under it.
PathFirst ==
  \A i \in 1..Len(open) :
    open[i].rule = "rest_endpoint" =>
      \A k \in 1..Len(open[i].rest) : open[i].rest[k] = "http_path" => i = Len(open) /\ k = 1

\* A field with an open rule above it has been begun.
FieldBegun ==
  \A i \in 1..Len(open) :
    open[i].rule = "field" =>
      /\ Len(open[i].rest) <= Len(open[i].word)
      /\ i < Len(open) => Len(open[i].rest) < Len(open[i].word)

\* The path of the innermost rest endpoint is not read yet.
PathAhead ==
  \/ \E i \in 1..Len(open) : open[i].rule = "http_path"
  \/ /\ open # <<>> /\ Top(open).rule = "rest_endpoint"
     /\ \E k \in 1..Len(Top(open).rest) : Top(open).rest[k] = "http_path"

TypesMirrorRules == Len(listener.types) = Opened(TypeRules)

AttrsMirrorRules ==
  /\ listener.rest_attrs = Opened({"rest_endpoint"})
  /\ Len(listener.rest_urlparams_len) = Opened({"rest_endpoint"})

PrefixesMirrorRules ==
  listener.urlPrefixes = Opened({"rest_endpoint"}) - (IF PathAhead THEN 1 ELSE 0)

EndpointMirrorsRules ==
  listener.endpoint = "rest" <=> \E i \in 1..Len(open) : open[i].rule = "method_def"

ParamsNest == Nests(listener.rest_urlparams, listener.rest_urlparams_len)

Shape == RestsFit /\ Nesting /\ PathFirst /\ FieldBegun

Mirror ==
  Live(listener) =>
    /\ TypesMirrorRules /\ AttrsMirrorRules /\ PrefixesMirrorRules /\ EndpointMirrorsRules
    /\ ParamsNest /\ OuterMap(listener)

\* The part of ScopesMirrorRules that is inductive by itself: which entries may be those of an
\* element type follows from what may stand below which rule (ScopesFound).
ScopesInPlace ==
  Live(listener) =>
    /\ Len(listener.scope) = Cardinality(Scoped(Len(open)))
    /\ \A i \in Scoped(Len(open)) :
         listener.scope[Cardinality(Scoped(i))].by \in {open[i].rule, "set_type"}

IInv == TypeOK /\ Shape /\ Mirror /\ ScopesInPlace /\ FieldsGoToTheirType

-----------------------------------------------------------------------------
\* What a step does to the stack of open rules

\* The n-th child of the innermost rule, r, is entered with the word w.
Enters(n, r, w) ==
  /\ Len(open) \in Nat \ {0} /\ Len(Top(open).rest) \in Nat
  /\ n \in 1..Len(Top(open).rest) /\ r = Top(open).rest[n] /\ NextIs(Top(open).rest, n)
  /\ r \in Rules /\ w \in Grammar[r] /\ w \in Seq(Symbols)
  /\ listener' \in Entered(listener, r, w)
  /\ Len(open') = Len(open) + 1
  /\ \A i \in 1..Len(open) : /\ open'[i].rule = open[i].rule /\ open'[i].word = open[i].word
                            /\ open'[i].base = open[i].base
  /\ \A i \in 1..(Len(open) - 1) : open'[i].rest = open[i].rest
  /\ open'[Len(open)].rest = SubSeq(Top(open).rest, n + 1, Len(Top(open).rest))
  /\ open'[Len(open) + 1] = Frame(r, w)

\* The innermost rule is exited.
Exits ==
  /\ Len(open) \in Nat \ {0}
  /\ \A n \in 1..Len(Top(open).rest) : ~NextIs(Top(open).rest, n)
  /\ listener' = Exit(listener, Top(open).rule, Top(open).word)
  /\ Len(open') = Len(open) - 1
  /\ \A i \in 1..(Len(open) - 1) : open'[i] = open[i]

LEMMA FramesTyped ==
  ASSUME TypeOK
  PROVE  /\ open \in Seq(Frames) /\ Len(open) \in Nat
         /\ \A i \in 1..Len(open) :
              /\ open[i] \in Frames /\ open[i].rule \in Rules \cup {"file"}
              /\ open[i].word \in Seq(Symbols) /\ open[i].rest \in Seq(Symbols)
              /\ open[i].base \in Nat
         /\ listener \in Listener
<1>1. \A f \in Frames : /\ f.rule \in Rules \cup {"file"} /\ f.word \in Seq(Symbols)
                        /\ f.rest \in Seq(Symbols) /\ f.base \in Nat
  BY DEF Frames
<1>. QED
  BY <1>1 DEF TypeOK

LEMMA EnterStep ==
  ASSUME TypeOK, EnterRule
  PROVE  /\ \E n, r, w : Enters(n, r, w)
         /\ open' \in Seq(Frames) /\ detours' \in 0..Detours
<1>. DEFINE d == Len(open)
            f == open[d]
<1>1. d \in Nat \ {0} /\ f \in Frames /\ f.rest \in Seq(Symbols) /\ open \in Seq(Frames)
  BY FramesTyped DEF EnterRule
<1>0. PICK n \in 1..Len(f.rest) :
        \E w \in Words(f.rest[n]) :
          /\ NextIs(f.rest, n)
          /\ listener' \in Entered(listener, f.rest[n], w)
          /\ open' = Append([open EXCEPT ![d].rest = SubSeq(@, n + 1, Len(@))], Frame(f.rest[n], w))
          /\ detours' = IF w = Plain[f.rest[n]] THEN detours ELSE detours - 1
  BY DEF EnterRule, Top
<1>2. PICK w \in Words(f.rest[n]) :
        /\ NextIs(f.rest, n)
        /\ listener' \in Entered(listener, f.rest[n], w)
        /\ open' = Append([open EXCEPT ![d].rest = SubSeq(@, n + 1, Len(@))], Frame(f.rest[n], w))
        /\ detours' = IF w = Plain[f.rest[n]] THEN detours ELSE detours - 1
  BY <1>0
<1>. DEFINE r == f.rest[n]
            left == SubSeq(f.rest, n + 1, Len(f.rest))
            g == [f EXCEPT !.rest = left]
            under == [open EXCEPT ![d] = g]
<1>3. r \in Rules
  BY <1>2 DEF NextIs
<1>4. w \in Grammar[r] /\ (w # Plain[r] => detours > 0)
  BY <1>2, <1>3, PlainIsAWord DEF Words
<1>5. w \in Seq(Symbols)
  BY <1>3, <1>4, WordsTyped
<1>6. left \in Seq(Symbols)
  BY <1>1
<1>7. g \in Frames /\ g.rule = f.rule /\ g.word = f.word /\ g.rest = left /\ g.base = f.base
  BY <1>1, <1>6 DEF Frames
<1>8. under \in Seq(Frames) /\ Len(under) = d
  BY <1>1, <1>7
<1>9. open' = Append(under, Frame(r, w))
  BY <1>2, <1>1
<1>10. Frame(r, w) \in Frames
  <2>0. listener.exprs \in Seq(AnyExpr)
    BY FramesTyped, ListenerTypes
  <2>1. Len(listener.exprs) \in Nat
    BY <2>0
  <2>2. <<>> \in Seq(Symbols)
    OBVIOUS
  <2>. QED
    BY <2>1, <2>2, <1>3, <1>5 DEF Frame, Frames
<1>. HIDE DEF left, g
<1>11. open' \in Seq(Frames) /\ Len(open') = d + 1
  BY <1>8, <1>9, <1>10
<1>12. \A i \in 1..d : open'[i] = IF i = d THEN g ELSE open[i]
  BY <1>1, <1>8, <1>9
<1>13. open'[d + 1] = Frame(r, w)
  <2>. DEFINE new == Frame(r, w)
  <2>1. new \in Frames /\ open' = Append(under, new)
    BY <1>9, <1>10
  <2>. HIDE DEF new, under
  <2>2. open'[d + 1] = new
    BY <1>8, <2>1
  <2>. QED
    BY <2>2 DEF new
<1>14. detours' \in 0..Detours
  BY <1>2, <1>4, OpenAssumption DEF TypeOK
<1>15. Enters(n, r, w)
  <2>1. open'[d].rest = left
    BY <1>1, <1>7, <1>12
  <2>2. \A i \in 1..d : /\ open'[i].rule = open[i].rule /\ open'[i].word = open[i].word
                        /\ open'[i].base = open[i].base
    BY <1>7, <1>12
  <2>3. \A i \in 1..(d - 1) : open'[i].rest = open[i].rest
    BY <1>1, <1>12
  <2>4. Len(f.rest) \in Nat
    BY <1>1
  <2>. QED
    BY <1>1, <1>2, <1>3, <1>4, <1>5, <1>11, <1>13, <2>1, <2>2, <2>3, <2>4 DEF Enters, Top, left
<1>. QED
  BY <1>11, <1>14, <1>15

LEMMA ExitStep ==
  ASSUME TypeOK, ExitRule
  PROVE  /\ open' \in Seq(Frames)
         /\ Live(listener') => Exits
         /\ ~Live(listener') => open' = open
<1>1. open \in Seq(Frames) /\ Len(open) \in Nat \ {0}
  BY FramesTyped DEF ExitRule
<1>2. /\ Pop(open) \in Seq(Frames) /\ Len(Pop(open)) = Len(open) - 1
      /\ \A i \in 1..(Len(open) - 1) : Pop(open)[i] = open[i]
  <2>. DEFINE m == Len(open) - 1
  <2>1. m \in 0..Len(open) /\ m \in Nat /\ Pop(open) = SubSeq(open, 1, m)
    BY <1>1 DEF Pop
  <2>. HIDE DEF m
  <2>2. SubSeq(open, 1, m) \in Seq(Frames) /\ Len(SubSeq(open, 1, m)) = m
    BY <1>1, <2>1
  <2>3. \A i \in 1..m : SubSeq(open, 1, m)[i] = open[i]
    BY <1>1, <2>1
  <2>. QED
    BY <2>1, <2>2, <2>3 DEF m
<1>. QED
  BY <1>1, <1>2 DEF ExitRule, Exits

-----------------------------------------------------------------------------
\* How many rules are open

LEMMA OpenFinite ==
  ASSUME NEW R, Len(open) \in Nat
  PROVE  /\ IsFiniteSet(Among(R)) /\ Opened(R) \in Nat
         /\ Opened(R) > 0 <=> \E i \in 1..Len(open) : open[i].rule \in R
<1>1. IsFiniteSet(1..Len(open)) /\ Among(R) \subseteq 1..Len(open)
  BY FS_Interval DEF Among
<1>2. IsFiniteSet(Among(R))
  BY <1>1, FS_Subset
<1>3. Cardinality(Among(R)) \in Nat /\ (Cardinality(Among(R)) = 0 <=> Among(R) = {})
  BY <1>2, FS_CardinalityType, FS_EmptySet
<1>. QED
  BY <1>2, <1>3 DEF Opened, Among

LEMMA OpenFiniteNext ==
  ASSUME NEW R, Len(open') \in Nat
  PROVE  /\ Opened(R)' \in Nat
         /\ (Opened(R) > 0)' <=> \E i \in 1..Len(open') : open'[i].rule \in R
<1>1. IsFiniteSet(1..Len(open')) /\ Among(R)' \subseteq 1..Len(open')
  BY FS_Interval DEF Among
<1>2. IsFiniteSet(Among(R)')
  BY <1>1, FS_Subset
<1>3. Cardinality(Among(R)') \in Nat /\ (Cardinality(Among(R)') = 0 <=> Among(R)' = {})
  BY <1>2, FS_CardinalityType, FS_EmptySet
<1>. QED
  BY <1>2, <1>3 DEF Opened, Among

LEMMA OpenedEntered ==
  ASSUME NEW R, NEW n, NEW r, NEW w, Enters(n, r, w)
  PROVE  Opened(R)' = IF r \in R THEN Opened(R) + 1 ELSE Opened(R)
<1>1. IsFiniteSet(Among(R)) /\ Len(open) \in Nat /\ Len(open) + 1 \notin Among(R)
  <2>1. Len(open) \in Nat
    BY DEF Enters
  <2>2. IsFiniteSet(Among(R))
    BY <2>1, OpenFinite
  <2>3. Len(open) + 1 \notin Among(R)
    BY <2>1 DEF Among
  <2>. QED
    BY <2>1, <2>2, <2>3
<1>2. open'[Len(open) + 1].rule = r
  BY DEF Enters, Frame
<1>3. Among(R)' = IF r \in R THEN Among(R) \cup {Len(open) + 1} ELSE Among(R)
  BY <1>1, <1>2 DEF Enters, Among
<1>. QED
  BY <1>1, <1>3, FS_AddElement DEF Opened

LEMMA OpenedExited ==
  ASSUME NEW R, Exits
  PROVE  Opened(R)' = IF Top(open).rule \in R THEN Opened(R) - 1 ELSE Opened(R)
<1>1. IsFiniteSet(Among(R)) /\ Len(open) \in Nat \ {0}
  BY OpenFinite DEF Exits
<1>2. Among(R)' = Among(R) \ {Len(open)}
  BY <1>1 DEF Exits, Among
<1>3. Len(open) \in Among(R) <=> Top(open).rule \in R
  BY <1>1 DEF Among, Top
<1>. QED
  BY <1>1, <1>2, <1>3, FS_RemoveElement DEF Opened

-----------------------------------------------------------------------------
\* The shape of the stack

LEMMA AboveEntered ==
  ASSUME NEW A, NEW Z, Keeps(A, Z), TypeOK, RestsFit, Above(A, Z),
         NEW n, NEW r, NEW w, Enters(n, r, w)
  PROVE  Above(A, Z)'
<1>. DEFINE d == Len(open)
<1>1. /\ d \in Nat \ {0} /\ Len(open') = d + 1 /\ r \in Rules
      /\ \A i \in 1..d : open'[i].rule = open[i].rule
      /\ open'[d + 1].rule = r
  BY DEF Enters, Frame
<1>2. open[d].rule \in Rules \cup {"file"}
  BY <1>1, FramesTyped
<1>3. MayHave(open[d].rule, r)
  BY <1>1 DEF Enters, RestsFit, Top
<1>. HIDE DEF d
<1>4. SUFFICES ASSUME NEW i \in 1..(d + 1), NEW j \in 1..(d + 1), i < j, open'[i].rule \in A
               PROVE  open'[j].rule \notin Z
  BY <1>1 DEF Above
<1>5. CASE j <= d
  BY <1>1, <1>4, <1>5 DEF Above, d
<1>6. CASE j = d + 1
  <2>1. i \in 1..d /\ open[i].rule \in A
    BY <1>1, <1>4, <1>6
  <2>2. i = d \/ open[d].rule \notin Z
    BY <1>1, <2>1 DEF Above, d
  <2>. QED
    BY <1>1, <1>2, <1>3, <1>6, <2>1, <2>2 DEF Keeps
<1>. QED
  BY <1>1, <1>5, <1>6

LEMMA AboveExited ==
  ASSUME NEW A, NEW Z, Above(A, Z), Exits
  PROVE  Above(A, Z)'
<1>1. /\ Len(open) \in Nat \ {0} /\ Len(open') = Len(open) - 1
      /\ \A i \in 1..(Len(open) - 1) : open'[i] = open[i]
  BY DEF Exits
<1>2. \A i \in 1..Len(open') : i \in 1..Len(open) /\ open'[i] = open[i]
  BY <1>1
<1>. QED
  BY <1>2 DEF Above

LEMMA NestingEntered ==
  ASSUME TypeOK, Shape, NEW n, NEW r, NEW w, Enters(n, r, w)
  PROVE  Nesting'
  BY NestingKept, AboveEntered DEF Nesting, Shape

LEMMA NestingExited ==
  ASSUME Shape, Exits
  PROVE  Nesting'
  BY AboveExited DEF Nesting, Shape

LEMMA ShapeEntered ==
  ASSUME TypeOK, Shape, NEW n, NEW r, NEW w, Enters(n, r, w)
  PROVE  Shape'
<1>. DEFINE d == Len(open)
            rest == open[d].rest
<1>1. /\ d \in Nat \ {0} /\ Len(open') = d + 1 /\ r \in Rules /\ w \in Grammar[r]
      /\ \A i \in 1..d : open'[i].rule = open[i].rule /\ open'[i].word = open[i].word
      /\ \A i \in 1..(d - 1) : open'[i].rest = open[i].rest
      /\ open'[d].rest = SubSeq(rest, n + 1, Len(rest))
      /\ open'[d + 1].rule = r /\ open'[d + 1].rest = w
      /\ r = "field" => open'[d + 1].word = w
      /\ n \in 1..Len(rest) /\ r = rest[n]
  <2>1. open'[d + 1] = Frame(r, w)
    BY DEF Enters
  <2>2. Frame(r, w).rule = r /\ Frame(r, w).rest = w /\ (r \in LooksBack => Frame(r, w).word = w)
    BY DEF Frame
  <2>3. r = "field" => r \in LooksBack
    BY DEF LooksBack
  <2>. QED
    BY <2>1, <2>2, <2>3 DEF Enters, Top
<1>2. rest \in Seq(Symbols) /\ Len(open[d].word) \in Nat /\ Len(w) \in Nat
  <2>1. w \in Seq(Symbols)
    BY DEF Enters
  <2>2. open[d].rest \in Seq(Symbols) /\ open[d].word \in Seq(Symbols)
    BY <1>1, FramesTyped
  <2>. QED
    BY <2>1, <2>2
<1>. HIDE DEF rest
<1>3. /\ Len(open'[d].rest) = Len(rest) - n /\ Len(rest) \in Nat
      /\ \A k \in 1..(Len(rest) - n) : n + k \in 1..Len(rest) /\ open'[d].rest[k] = rest[n + k]
  BY <1>1, <1>2, RestOfWord
<1>. HIDE DEF d
<1>4. RestsFit'
  <2>1. SUFFICES ASSUME NEW i \in 1..(d + 1), NEW k \in 1..Len(open'[i].rest)
                 PROVE  MayHave(open'[i].rule, open'[i].rest[k])
    BY <1>1 DEF RestsFit
  <2>2. CASE i < d
    <3>1. i \in 1..(d - 1) /\ i \in 1..d
      BY <1>1, <2>2
    <3>2. open'[i].rule = open[i].rule /\ open'[i].rest = open[i].rest
      BY <1>1, <3>1
    <3>. QED
      BY <2>1, <3>1, <3>2 DEF RestsFit, Shape, d
  <2>3. CASE i = d
    <3>1. k \in 1..(Len(rest) - n) /\ d \in 1..d /\ open'[d].rule = open[d].rule
      BY <1>1, <1>3, <2>1, <2>3
    <3>2. open'[d].rest[k] = rest[n + k] /\ n + k \in 1..Len(rest)
      BY <1>3, <3>1
    <3>3. MayHave(open[d].rule, rest[n + k])
      BY <3>1, <3>2 DEF RestsFit, Shape, d, rest
    <3>. QED
      BY <2>3, <3>1, <3>2, <3>3
  <2>4. CASE i = d + 1
    <3>1. r # "file"
      BY <1>1, FileIsNoRule DEF Symbols
    <3>. QED
      BY <1>1, <2>1, <2>4, <3>1 DEF MayHave
  <2>. QED
    BY <1>1, <2>2, <2>3, <2>4
<1>5. PathFirst'
  <2>1. SUFFICES ASSUME NEW i \in 1..(d + 1), open'[i].rule = "rest_endpoint",
                        NEW k \in 1..Len(open'[i].rest), open'[i].rest[k] = "http_path"
                 PROVE  i = d + 1 /\ k = 1
    BY <1>1 DEF PathFirst
  <2>2. i >= d
    BY <1>1, <2>1 DEF PathFirst, Shape, d
  <2>3. i # d
    <3>1. SUFFICES ASSUME i = d PROVE FALSE
      OBVIOUS
    <3>2. rest[n + k] = "http_path" /\ n + k \in 1..Len(rest) /\ open[d].rule = "rest_endpoint"
      <4>1. k \in 1..(Len(rest) - n) /\ d \in 1..d /\ open'[d].rule = open[d].rule
        BY <1>1, <1>3, <2>1, <3>1
      <4>. QED
        BY <1>3, <2>1, <3>1, <4>1
    <3>3. n + k = 1
      BY SMTT(60), <1>1, <3>2 DEF PathFirst, Shape, d, rest
    <3>. QED
      BY <1>1, <1>3, <3>1, <3>3
  <2>4. i = d + 1 /\ r = "rest_endpoint" /\ w[k] = "http_path" /\ k \in 1..Len(w)
    BY <1>1, <2>1, <2>2, <2>3
  <2>. QED
    BY <1>1, <2>4, PathComesFirst
<1>6. FieldBegun'
  <2>1. SUFFICES ASSUME NEW i \in 1..(d + 1), open'[i].rule = "field"
                 PROVE  /\ Len(open'[i].rest) <= Len(open'[i].word)
                        /\ i < d + 1 => Len(open'[i].rest) < Len(open'[i].word)
    BY <1>1 DEF FieldBegun
  <2>2. CASE i < d
    BY SMTT(60), <1>1, <2>1, <2>2 DEF FieldBegun, Shape, d
  <2>3. CASE i = d
    <3>1. Len(rest) <= Len(open[d].word)
      BY <1>1, <2>1, <2>3 DEF FieldBegun, Shape, d, rest
    <3>. QED
      BY <1>1, <1>2, <1>3, <2>3, <3>1
  <2>4. CASE i = d + 1
    BY <1>1, <1>2, <2>1, <2>4
  <2>. QED
    BY <1>1, <2>2, <2>3, <2>4
<1>. QED
  BY <1>4, <1>5, <1>6, NestingEntered DEF Shape

LEMMA ShapeExited ==
  ASSUME Shape, Exits
  PROVE  Shape'
<1>1. /\ Len(open) \in Nat \ {0} /\ Len(open') = Len(open) - 1
      /\ \A i \in 1..(Len(open) - 1) : open'[i] = open[i]
  BY DEF Exits
<1>2. \A i \in 1..Len(open') : i \in 1..Len(open) /\ i < Len(open) /\ open'[i] = open[i]
  BY <1>1
<1>3. RestsFit'
  BY <1>2 DEF RestsFit, Shape
<1>4. PathFirst'
  BY <1>2 DEF PathFirst, Shape
<1>5. FieldBegun'
  BY <1>1, <1>2 DEF FieldBegun, Shape
<1>. QED
  BY <1>3, <1>4, <1>5, NestingExited DEF Shape

-----------------------------------------------------------------------------
\* The scopes

LEMMA ScopedEntered ==
  ASSUME TypeOK, NEW n, NEW r, NEW w, Enters(n, r, w), NEW d, d = Len(open)
  PROVE  /\ \A i \in 0..d : Scoped(i)' = Scoped(i)
         /\ Scoped(d + 1)' = IF Scopes(r, w) THEN Scoped(d) \cup {d + 1} ELSE Scoped(d)
<1>1. /\ d \in Nat /\ \A i \in 1..d : open'[i].rule = open[i].rule /\ open'[i].word = open[i].word
      /\ open'[d + 1] = Frame(r, w)
  BY DEF Enters
<1>2. \A i \in 1..d : HasScope(open'[i]) <=> HasScope(open[i])
  BY <1>1 DEF HasScope
<1>3. r \in DOMAIN ScopedFor => r \in LooksBack
  BY ScopedForDomain DEF LooksBack
<1>4. HasScope(Frame(r, w)) <=> Scopes(r, w)
  BY <1>3 DEF HasScope, Scopes, Frame
<1>5. \A i \in 0..d : Scoped(i)' = Scoped(i)
  BY <1>1, <1>2 DEF Scoped
<1>6. Scoped(d + 1)' = {i \in 1..(d + 1) : HasScope(open'[i])}
  BY DEF Scoped
<1>7. Scoped(d + 1)' = IF Scopes(r, w) THEN Scoped(d) \cup {d + 1} ELSE Scoped(d)
  <2>1. Scoped(d) = {i \in 1..d : HasScope(open[i])}
    BY DEF Scoped
  <2>2. 1..(d + 1) = 1..d \cup {d + 1}
    BY <1>1
  <2>3. HasScope(open'[d + 1]) <=> Scopes(r, w)
    BY <1>1, <1>4
  <2>. QED
    BY <1>2, <1>6, <2>1, <2>2, <2>3
<1>. QED
  BY <1>5, <1>7

\* The scopes of the outer rules are the first ones.
LEMMA ScopesInOrder ==
  ASSUME NEW n \in Nat
  PROVE  /\ IsFiniteSet(Scoped(n)) /\ Cardinality(Scoped(n)) \in Nat
         /\ \A i \in Scoped(n) : /\ i \in 1..n
                                 /\ IsFiniteSet(Scoped(i))
                                 /\ Cardinality(Scoped(i)) \in 1..Cardinality(Scoped(n))
<1>1. ASSUME NEW i \in Nat PROVE IsFiniteSet(Scoped(i)) /\ Cardinality(Scoped(i)) \in Nat
  <2>1. IsFiniteSet(1..i) /\ Scoped(i) \subseteq 1..i
    BY FS_Interval DEF Scoped
  <2>. QED
    BY <2>1, FS_Subset, FS_CardinalityType
<1>2. ASSUME NEW i \in Scoped(n) PROVE i \in 1..n /\ Cardinality(Scoped(i)) \in 1..Cardinality(Scoped(n))
  <2>1. i \in 1..n /\ i \in Nat
    BY DEF Scoped
  <2>2. Scoped(i) \subseteq Scoped(n) /\ i \in Scoped(i)
    BY <2>1 DEF Scoped
  <2>3. Cardinality(Scoped(i)) <= Cardinality(Scoped(n))
    BY <1>1, <2>2, FS_Subset
  <2>4. Cardinality(Scoped(i)) # 0
    BY <1>1, <2>1, <2>2, FS_EmptySet
  <2>. QED
    BY <1>1, <2>1, <2>3, <2>4
<1>. QED
  BY <1>1, <1>2

LEMMA ScopesEntered ==
  ASSUME TypeOK, ScopesInPlace, NEW n, NEW r, NEW w, Enters(n, r, w),
         Live(listener') => Entering(listener, listener', r, w)
  PROVE  ScopesInPlace'
<1>0. PICK d : d = Len(open)
  OBVIOUS
<1>. DEFINE s == listener
            t == listener'
            c == Cardinality(Scoped(d))
<1>1. SUFFICES ASSUME Live(t)
               PROVE  /\ Len(t.scope) = Cardinality(Scoped(d + 1)')
                      /\ \A i \in Scoped(d + 1)' :
                           t.scope[Cardinality(Scoped(i)')].by \in {open'[i].rule, "set_type"}
  <2>1. Len(open') = d + 1
    BY <1>0 DEF Enters
  <2>. QED
    BY <2>1 DEF ScopesInPlace
<1>2. d \in Nat /\ \A i \in 1..d : open'[i].rule = open[i].rule
  BY <1>0 DEF Enters
<1>3. /\ Live(s)
      /\ IF Scopes(r, w) THEN PushedScope(s, t, r) ELSE SameScope(s, t)
  BY <1>1 DEF Entering
<1>4. /\ Len(s.scope) = c
      /\ \A i \in Scoped(d) : s.scope[Cardinality(Scoped(i))].by \in {open[i].rule, "set_type"}
  BY <1>0, <1>3 DEF ScopesInPlace
<1>5. /\ \A i \in 0..d : Scoped(i)' = Scoped(i)
      /\ Scoped(d + 1)' = IF Scopes(r, w) THEN Scoped(d) \cup {d + 1} ELSE Scoped(d)
  BY <1>0, ScopedEntered
<1>6. /\ IsFiniteSet(Scoped(d)) /\ c \in Nat
      /\ \A i \in Scoped(d) : i \in 1..d /\ Cardinality(Scoped(i)) \in 1..c
  BY <1>2, ScopesInOrder
<1>. HIDE DEF s, t, c
<1>7. \A i \in Scoped(d) : t.scope[Cardinality(Scoped(i)')].by \in {open'[i].rule, "set_type"}
  <2>1. SUFFICES ASSUME NEW i \in Scoped(d)
                 PROVE  t.scope[Cardinality(Scoped(i)')].by \in {open'[i].rule, "set_type"}
    OBVIOUS
  <2>2. i \in 1..d /\ Cardinality(Scoped(i)) \in 1..c
    BY <1>6
  <2>3. Scoped(i)' = Scoped(i) /\ open'[i].rule = open[i].rule
    BY <1>2, <1>5, <2>2
  <2>4. t.scope[Cardinality(Scoped(i))].by = s.scope[Cardinality(Scoped(i))].by
    BY <1>3, <1>4, <2>2 DEF PushedScope, SameScope
  <2>. QED
    BY <1>4, <2>3, <2>4
<1>8. CASE ~Scopes(r, w)
  BY <1>3, <1>4, <1>5, <1>7, <1>8 DEF SameScope, c
<1>9. CASE Scopes(r, w)
  <2>1. d + 1 \notin Scoped(d)
    BY <1>2, <1>6
  <2>2. Cardinality(Scoped(d + 1)') = c + 1
    BY <1>5, <1>6, <1>9, <2>1, FS_AddElement DEF c
  <2>3. Len(t.scope) = c + 1 /\ t.scope[c + 1].by = r
    BY <1>3, <1>4, <1>9 DEF PushedScope
  <2>4. open'[d + 1].rule = r
    BY <1>0 DEF Enters, Frame
  <2>. QED
    BY <1>5, <1>7, <1>9, <2>2, <2>3, <2>4
<1>. QED
  BY <1>8, <1>9

LEMMA ScopesExited ==
  ASSUME TypeOK, ScopesInPlace, Exits, listener' \in Listener,
         Live(listener') => Exiting(listener, listener', Top(open).rule, Top(open).word)
  PROVE  ScopesInPlace'
<1>0. PICK d : d = Len(open)
  OBVIOUS
<1>. DEFINE s == listener
            t == listener'
            c == Cardinality(Scoped(d - 1))
<1>1. SUFFICES ASSUME Live(t)
               PROVE  /\ Len(t.scope) = Cardinality(Scoped(d - 1)')
                      /\ \A i \in Scoped(d - 1)' :
                           t.scope[Cardinality(Scoped(i)')].by \in {open'[i].rule, "set_type"}
  <2>1. Len(open') = d - 1
    BY <1>0 DEF Exits
  <2>. QED
    BY <2>1 DEF ScopesInPlace
<1>2. d \in Nat \ {0} /\ \A i \in 1..(d - 1) : open'[i] = open[i]
  BY <1>0 DEF Exits
<1>3. Scopes(Top(open).rule, Top(open).word) <=> HasScope(open[d])
  BY <1>0 DEF Scopes, HasScope, Top
<1>4. /\ Live(s)
      /\ IF HasScope(open[d]) THEN PoppedScope(s, t) ELSE KeptScope(s, t)
  BY <1>1, <1>3 DEF Exiting
<1>5. /\ Len(s.scope) = Cardinality(Scoped(d))
      /\ \A i \in Scoped(d) : s.scope[Cardinality(Scoped(i))].by \in {open[i].rule, "set_type"}
  BY <1>0, <1>4 DEF ScopesInPlace
<1>6. \A i \in 0..(d - 1) : Scoped(i)' = Scoped(i)
  BY <1>2 DEF Scoped
<1>7. Scoped(d) = IF HasScope(open[d]) THEN Scoped(d - 1) \cup {d} ELSE Scoped(d - 1)
  BY <1>2 DEF Scoped
<1>8. /\ IsFiniteSet(Scoped(d - 1)) /\ c \in Nat
      /\ \A i \in Scoped(d - 1) : i \in 1..(d - 1) /\ Cardinality(Scoped(i)) \in 1..c
  <2>1. d - 1 \in Nat
    BY <1>2
  <2>. QED
    BY <2>1, ScopesInOrder
<1>9. d \notin Scoped(d - 1)
  BY <1>2, <1>8
<1>10. Len(s.scope) = IF HasScope(open[d]) THEN c + 1 ELSE c
  <2>1. Cardinality(Scoped(d - 1) \cup {d}) = c + 1
    BY <1>8, <1>9, FS_AddElement
  <2>. QED
    BY <1>5, <1>7, <2>1
<1>. HIDE DEF s, t, c
<1>11. Len(t.scope) = c
  <2>1. Len(t.scope) \in Nat
    <3>1. t.scope \in Seq(ScopeEntry)
      BY ListenerTypes DEF t
    <3>. QED
      BY <3>1
  <2>. QED
    BY <1>4, <1>8, <1>10, <2>1 DEF PoppedScope, KeptScope
<1>12. \A i \in Scoped(d - 1) : t.scope[Cardinality(Scoped(i)')].by \in {open'[i].rule, "set_type"}
  <2>1. SUFFICES ASSUME NEW i \in Scoped(d - 1)
                 PROVE  t.scope[Cardinality(Scoped(i)')].by \in {open'[i].rule, "set_type"}
    OBVIOUS
  <2>2. i \in 1..(d - 1) /\ Cardinality(Scoped(i)) \in 1..c /\ i \in Scoped(d)
    BY <1>7, <1>8
  <2>3. Scoped(i)' = Scoped(i) /\ open'[i].rule = open[i].rule
    BY <1>2, <1>6, <2>2
  <2>4. t.scope[Cardinality(Scoped(i))].by \in {s.scope[Cardinality(Scoped(i))].by, "set_type"}
    BY <1>4, <1>10, <1>11, <2>2 DEF PoppedScope, KeptScope
  <2>. QED
    BY <1>5, <2>2, <2>3, <2>4
<1>. QED
  BY <1>2, <1>6, <1>11, <1>12 DEF c

-----------------------------------------------------------------------------
\* What is mirrored

\* Where one of A is open, none of Z is the innermost rule.
LEMMA NotWithin ==
  ASSUME NEW A, NEW Z, Above(A, Z), Len(open) \in Nat \ {0}, Top(open).rule \in Z \ A
  PROVE  \A i \in 1..Len(open) : open[i].rule \notin A
<1>1. SUFFICES ASSUME NEW i \in 1..Len(open), open[i].rule \in A PROVE FALSE
  OBVIOUS
<1>2. Len(open) \in 1..Len(open) /\ open[Len(open)].rule \in Z \ A
  BY DEF Top
<1>3. i < Len(open)
  BY <1>1, <1>2
<1>. QED
  BY <1>1, <1>2, <1>3 DEF Above

\* What is not open when such a rule is the innermost one.
Outside ==
  /\ Top(open).rule \in Roots => \A i \in 1..Len(open) : open[i].rule # "rest_endpoint"
  /\ Top(open).rule \in Shallow \ {"params", "method_def"} =>
       \A i \in 1..Len(open) : open[i].rule # "method_def"
  /\ Top(open).rule \in Shallow \ {"http_path", "alias"} =>
       \A i \in 1..Len(open) : open[i].rule \notin TypeRules \cup {"http_path"}

LEMMA OthersOutside == Nesting /\ Len(open) \in Nat \ {0} => Outside
<1>. SUFFICES ASSUME Nesting, Len(open) \in Nat \ {0} PROVE Outside
  OBVIOUS
<1>1. ASSUME Top(open).rule \in Roots
      PROVE  \A i \in 1..Len(open) : open[i].rule # "rest_endpoint"
  <2>1. Top(open).rule \in Roots \ {"rest_endpoint"}
    BY <1>1 DEF Roots
  <2>. QED
    BY <2>1, NotWithin DEF Nesting
<1>2. ASSUME Top(open).rule \in Shallow \ {"params", "method_def"}
      PROVE  \A i \in 1..Len(open) : open[i].rule # "method_def"
  <2>1. Top(open).rule \in ({"file"} \cup (Shallow \ {"params"})) \ {"method_def"}
    BY <1>2
  <2>. QED
    BY <2>1, NotWithin DEF Nesting
<1>3. ASSUME Top(open).rule \in Shallow \ {"http_path", "alias"}
      PROVE  \A i \in 1..Len(open) : open[i].rule \notin TypeRules \cup {"http_path"}
  <2>1. Top(open).rule \in ({"file"} \cup Shallow) \ (TypeRules \cup {"http_path"})
    BY <1>3 DEF Shallow, TypeRules
  <2>. QED
    BY <2>1, NotWithin DEF Nesting
<1>. QED
  BY <1>1, <1>2, <1>3 DEF Outside

LEMMA OthersOutsideNext == (Nesting /\ Len(open) \in Nat \ {0} => Outside)'
  BY OthersOutside, PTL

\* What was outside of the innermost rule, one of http_path or alias, besides.
LEMMA OnlyOnTop ==
  ASSUME Nesting, Len(open) \in Nat \ {0}, Top(open).rule \in {"http_path", "alias"}
  PROVE  \A i \in 1..(Len(open) - 1) : open[i].rule \notin TypeRules \cup {"http_path"}
<1>1. /\ Len(open) \in 1..Len(open) /\ open[Len(open)].rule \in {"file"} \cup Shallow
      /\ \A i \in 1..(Len(open) - 1) : i \in 1..Len(open) /\ i < Len(open)
  BY DEF Top, Shallow
<1>. QED
  BY <1>1 DEF Nesting, Above

LEMMA MethodOnTop ==
  ASSUME Nesting, Len(open) \in Nat \ {0}, Top(open).rule = "method_def"
  PROVE  \A i \in 1..(Len(open) - 1) : open[i].rule # "method_def"
<1>1. /\ Len(open) \in 1..Len(open) /\ open[Len(open)].rule \in {"file"} \cup (Shallow \ {"params"})
      /\ \A i \in 1..(Len(open) - 1) : i \in 1..Len(open) /\ i < Len(open)
  BY DEF Top, Shallow
<1>. QED
  BY <1>1 DEF Nesting, Above

\* The path of a rest endpoint is the next child as long as it is left.
LEMMA PathIsNext ==
  ASSUME Shape, Len(open) \in Nat \ {0}, Top(open).rule = "rest_endpoint",
         NEW k \in 1..Len(Top(open).rest), Top(open).rest[k] = "http_path"
  PROVE  k = 1
<1>1. Len(open) \in 1..Len(open)
  OBVIOUS
<1>. QED
  BY <1>1 DEF Shape, PathFirst, Top

LEMMA PathAheadEntered ==
  ASSUME TypeOK, Shape, NEW n, NEW r, NEW w, Enters(n, r, w)
  PROVE  /\ r = "rest_endpoint" => ~PathAhead /\ PathAhead'
         /\ r = "http_path" => PathAhead /\ PathAhead'
         /\ r \notin {"rest_endpoint", "http_path"} => (PathAhead' <=> PathAhead)
<1>0. PICK d : d = Len(open)
  OBVIOUS
<1>1. /\ d \in Nat \ {0} /\ Len(open') = d + 1 /\ r \in Rules
      /\ \A i \in 1..d : open'[i].rule = open[i].rule
      /\ open'[d + 1].rule = r /\ open'[d + 1].rest = w /\ w \in Grammar[r] /\ w \in Seq(Symbols)
      /\ Top(open)' = open'[d + 1] /\ (open # <<>>)' /\ open # <<>>
      /\ n \in 1..Len(Top(open).rest) /\ r = Top(open).rest[n] /\ NextIs(Top(open).rest, n)
      /\ Len(Top(open).rest) \in Nat
  BY <1>0 DEF Enters, Frame, Top
\* A path that is left is entered before anything else.
<1>2. ASSUME Top(open).rule = "rest_endpoint", NEW k \in 1..Len(Top(open).rest),
             Top(open).rest[k] = "http_path"
      PROVE  r = "http_path"
  <2>1. k = 1
    BY <1>0, <1>1, <1>2, PathIsNext
  <2>2. "http_path" \in Rules
    BY SpineSymbols
  <2>3. n = 1
    BY <1>1, <1>2, <2>1, <2>2 DEF NextIs
  <2>. QED
    BY <1>1, <1>2, <2>1, <2>3
<1>3. Nesting'
  BY NestingEntered
<1>. DEFINE within == \E i \in 1..Len(open) : open[i].rule = "http_path"
            ahead == /\ open # <<>> /\ Top(open).rule = "rest_endpoint"
                     /\ \E k \in 1..Len(Top(open).rest) : Top(open).rest[k] = "http_path"
<1>4. PathAhead <=> within \/ ahead
  BY DEF PathAhead
<1>5. PathAhead' <=> within' \/ ahead'
  BY DEF PathAhead
<1>6. within' <=> within \/ r = "http_path"
  BY <1>0, <1>1
<1>7. ahead => r = "http_path"
  BY <1>2
<1>8. ahead' <=> r = "rest_endpoint" /\ \E k \in 1..Len(w) : w[k] = "http_path"
  BY <1>1
<1>. HIDE DEF within, ahead
<1>9. ASSUME r = "rest_endpoint" PROVE ~PathAhead /\ PathAhead'
  <2>1. \A i \in 1..(d + 1) : open'[i].rule \notin TypeRules \cup {"http_path"}
    <3>1. Top(open)'.rule \in Shallow \ {"http_path", "alias"}
      BY <1>1, <1>9 DEF Shallow
    <3>2. Len(open') \in Nat \ {0}
      BY <1>1
    <3>. QED
      BY <1>1, <1>3, <3>1, <3>2, OthersOutsideNext DEF Outside
  <2>2. ~within
    <3>. USE DEF within
    <3>1. SUFFICES ASSUME NEW i \in 1..d, open[i].rule = "http_path" PROVE FALSE
      BY <1>0
    <3>2. i \in 1..(d + 1) /\ open'[i].rule = "http_path"
      BY <1>1, <3>1
    <3>. QED
      BY <2>1, <3>2
  <2>3. w # <<>> /\ w[1] = "http_path"
    BY <1>1, <1>9, PathComesFirst
  <2>4. 1 \in 1..Len(w)
    BY <1>1, <2>3
  <2>. QED
    BY <1>4, <1>5, <1>7, <1>8, <1>9, <2>2, <2>3, <2>4
<1>10. ASSUME r = "http_path" PROVE PathAhead /\ PathAhead'
  <2>1. Top(open).rule \in Rules \cup {"file"} /\ MayHave(Top(open).rule, "http_path")
    <3>1. d \in 1..Len(open)
      BY <1>0, <1>1
    <3>. QED
      BY <1>0, <1>1, <1>10, <3>1, FramesTyped DEF Shape, RestsFit, Top
  <2>2. ahead
    BY <1>1, <1>10, <2>1, PathParent DEF ahead
  <2>. QED
    BY <1>4, <1>5, <1>6, <1>10, <2>2
<1>. QED
  BY <1>4, <1>5, <1>6, <1>7, <1>8, <1>9, <1>10

LEMMA PathAheadExited ==
  ASSUME Shape, Exits
  PROVE  /\ Top(open).rule = "rest_endpoint" => ~PathAhead
         /\ Top(open).rule = "http_path" => PathAhead
         /\ Top(open).rule \in {"rest_endpoint", "http_path"} => ~PathAhead'
         /\ Top(open).rule \notin {"rest_endpoint", "http_path"} => (PathAhead' <=> PathAhead)
<1>0. PICK d : d = Len(open)
  OBVIOUS
<1>1. /\ d \in Nat \ {0} /\ Len(open') = d - 1 /\ open # <<>>
      /\ \A i \in 1..(d - 1) : open'[i] = open[i]
      /\ Top(open) = open[d]
      /\ (open # <<>>)' => d - 1 \in 1..(d - 1) /\ Top(open)' = open[d - 1]
  BY <1>0 DEF Exits, Top
<1>. DEFINE within == \E i \in 1..Len(open) : open[i].rule = "http_path"
            ahead == /\ open # <<>> /\ Top(open).rule = "rest_endpoint"
                     /\ \E k \in 1..Len(Top(open).rest) : Top(open).rest[k] = "http_path"
<1>4. PathAhead <=> within \/ ahead
  BY DEF PathAhead
<1>5. PathAhead' <=> within' \/ ahead'
  BY DEF PathAhead
<1>2. ~ahead'
  <2>1. SUFFICES ASSUME (open # <<>>)', open[d - 1].rule = "rest_endpoint",
                        NEW k \in 1..Len(open[d - 1].rest), open[d - 1].rest[k] = "http_path"
                 PROVE  FALSE
    BY <1>1
  <2>2. d - 1 \in 1..Len(open) /\ d - 1 # Len(open)
    BY <1>0, <1>1, <2>1
  <2>. QED
    BY <2>1, <2>2 DEF Shape, PathFirst
<1>3. ~ahead
  <2>1. SUFFICES ASSUME Top(open).rule = "rest_endpoint",
                        NEW k \in 1..Len(Top(open).rest), Top(open).rest[k] = "http_path"
                 PROVE  FALSE
    OBVIOUS
  <2>2. k = 1
    BY <1>0, <1>1, <2>1, PathIsNext
  <2>3. NextIs(Top(open).rest, 1)
    BY <2>1, <2>2, SpineSymbols DEF NextIs
  <2>. QED
    BY <2>1, <2>2, <2>3 DEF Exits
<1>6. within <=> within' \/ Top(open).rule = "http_path"
  <2>1. within <=> \E i \in 1..d : open[i].rule = "http_path"
    BY <1>0
  <2>2. within' <=> \E i \in 1..(d - 1) : open[i].rule = "http_path"
    BY <1>1
  <2>. QED
    BY <1>1, <2>1, <2>2
<1>7. Top(open).rule = "http_path" => ~within'
  BY <1>0, <1>1, OnlyOnTop DEF Shape
<1>8. Top(open).rule = "rest_endpoint" => ~within
  <2>1. "rest_endpoint" \in Shallow \ {"http_path", "alias"}
    BY DEF Shallow
  <2>. QED
    BY <1>0, <1>1, <2>1, OthersOutside DEF Shape, Outside
<1>. HIDE DEF within, ahead
<1>. QED
  BY <1>2, <1>3, <1>4, <1>5, <1>6, <1>7, <1>8

LEMMA EnteredEffect ==
  ASSUME TypeOK, NEW n, NEW r, NEW w, Enters(n, r, w)
  PROVE  /\ listener' \in Listener
         /\ Live(listener') => Entering(listener, listener', r, w)
<1>1. listener \in Listener
  BY FramesTyped
<1>2. r \in Rules /\ w \in Grammar[r] /\ listener' \in Entered(listener, r, w)
  BY DEF Enters
<1>3. r = "simple_endpoint" => ~(Has(w, "WHATEVER") /\ Has(w, "statements"))
  BY <1>2, NoBodyNoStatement
<1>. QED
  BY <1>1, <1>2, <1>3, EnterEffect

\* A rest endpoint finds its length on the way out.
LEMMA LengthIsThere ==
  ASSUME TypeOK, Live(listener), Mirror, open # <<>>, Top(open).rule = "rest_endpoint"
  PROVE  /\ listener.rest_urlparams_len # <<>>
         /\ Top(listener.rest_urlparams_len) <= Len(listener.rest_urlparams)
<1>. DEFINE lens == listener.rest_urlparams_len
<1>1. listener.rest_urlparams \in Seq(Nat) /\ lens \in Seq(Nat)
  BY FramesTyped, ListenerTypes
<1>2. Len(lens) = Opened({"rest_endpoint"}) /\ Nests(listener.rest_urlparams, lens)
  BY DEF Mirror, AttrsMirrorRules, ParamsNest
<1>3. Opened({"rest_endpoint"}) > 0
  <2>1. Len(open) \in Nat \ {0} /\ open[Len(open)].rule \in {"rest_endpoint"}
    BY FramesTyped DEF Top
  <2>2. Len(open) \in 1..Len(open)
    BY <2>1
  <2>. QED
    BY <2>1, <2>2, OpenFinite
<1>4. lens # <<>>
  BY <1>2, <1>3
<1>. QED
  BY <1>1, <1>2, <1>4, NestsBack

LEMMA ExitedEffect ==
  ASSUME TypeOK, Live(listener), Mirror, ExitRule
  PROVE  /\ listener' \in Listener
         /\ Live(listener') => Exiting(listener, listener', Top(open).rule, Top(open).word)
<1>. DEFINE r == Top(open).rule
            w == Top(open).word
<1>1. listener \in Listener /\ r \in Rules \cup {"file"} /\ w \in Seq(Symbols)
  <2>1. Len(open) \in 1..Len(open)
    BY FramesTyped DEF ExitRule
  <2>. QED
    BY <2>1, FramesTyped DEF Top
<1>2. listener' = Exit(listener, r, w)
  BY DEF ExitRule
<1>3. CASE r = "file"
  BY <1>1, <1>2, <1>3, FileIsQuiet
<1>4. CASE r \in Rules
  <2>1. Len(w) \in Nat
    BY <1>1
  <2>2. r = "rest_endpoint" => /\ listener.rest_urlparams_len # <<>>
                               /\ Top(listener.rest_urlparams_len) <= Len(listener.rest_urlparams)
    BY LengthIsThere DEF ExitRule
  <2>. QED
    BY <1>1, <1>2, <1>4, <2>1, <2>2, ExitEffect
<1>. QED
  BY <1>1, <1>3, <1>4

LEMMA MirrorEntered ==
  ASSUME TypeOK, Shape, Live(listener), Mirror, NEW n, NEW r, NEW w, Enters(n, r, w)
  PROVE  Mirror'
<1>0. PICK d : d = Len(open)
  OBVIOUS
<1>1. SUFFICES ASSUME Live(listener') PROVE Mirror'
  BY DEF Mirror
<1>2. PICK s, t : s = listener /\ t = listener'
  OBVIOUS
<1>3. /\ TypesMirrorRules /\ AttrsMirrorRules /\ PrefixesMirrorRules /\ EndpointMirrorsRules
      /\ ParamsNest /\ OuterMap(s)
  BY <1>2 DEF Mirror
<1>4. s \in Listener /\ t \in Listener /\ Entering(s, t, r, w)
  BY <1>1, <1>2, FramesTyped, EnteredEffect
<1>5. /\ Opened(TypeRules)' = IF r \in TypeRules THEN Opened(TypeRules) + 1 ELSE Opened(TypeRules)
      /\ Opened({"rest_endpoint"})' = IF r = "rest_endpoint" THEN Opened({"rest_endpoint"}) + 1
                                      ELSE Opened({"rest_endpoint"})
  <2>1. /\ Opened(TypeRules)' = IF r \in TypeRules THEN Opened(TypeRules) + 1 ELSE Opened(TypeRules)
        /\ Opened({"rest_endpoint"})' = IF r \in {"rest_endpoint"} THEN Opened({"rest_endpoint"}) + 1
                                        ELSE Opened({"rest_endpoint"})
    BY OpenedEntered
  <2>. QED
    BY <2>1
<1>6. /\ d \in Nat \ {0} /\ Len(open') = d + 1 /\ d = Len(open)
      /\ \A i \in 1..d : open'[i].rule = open[i].rule
      /\ open'[d + 1].rule = r /\ Top(open)' = open'[d + 1]
  BY <1>0 DEF Enters, Frame, Top
<1>7. /\ Opened(TypeRules) \in Nat /\ Opened({"rest_endpoint"}) \in Nat
      /\ (Opened(TypeRules) = 0)' <=> \A i \in 1..(d + 1) : open'[i].rule \notin TypeRules
      /\ (Opened({"rest_endpoint"}) = 0)' <=> \A i \in 1..(d + 1) : open'[i].rule # "rest_endpoint"
  <2>1. Opened(TypeRules) \in Nat /\ Opened({"rest_endpoint"}) \in Nat
    BY <1>6, OpenFinite
  <2>2. /\ Opened(TypeRules)' \in Nat /\ Opened({"rest_endpoint"})' \in Nat
        /\ (Opened(TypeRules) > 0)' <=> \E i \in 1..(d + 1) : open'[i].rule \in TypeRules
        /\ (Opened({"rest_endpoint"}) > 0)' <=> \E i \in 1..(d + 1) : open'[i].rule \in {"rest_endpoint"}
    BY <1>6, OpenFiniteNext
  <2>. QED
    BY <2>1, <2>2
<1>8. Outside'
  <2>1. Nesting'
    BY NestingEntered
  <2>. QED
    BY <1>6, <2>1, OthersOutsideNext
<1>9. Len(s.types) \in Nat
  <2>1. s.types \in Seq(TypeEntry)
    BY <1>4, ListenerTypes
  <2>. QED
    BY <2>1
<1>10. TypesMirrorRules'
  <2>1. Len(t.types) = IF r \in TypeRules THEN Len(s.types) + 1 ELSE Len(s.types)
    BY <1>4 DEF Entering, PushedType, SameTypes
  <2>. QED
    BY <1>2, <1>3, <1>5, <2>1 DEF TypesMirrorRules
<1>11. AttrsMirrorRules'
  <2>1. t.rest_attrs = Opened({"rest_endpoint"})'
    <3>1. CASE r = "app_decl"
      <4>1. (Opened({"rest_endpoint"}) = 0)'
        BY <1>6, <1>7, <1>8, <3>1 DEF Outside, Roots
      <4>. QED
        BY <1>4, <3>1, <4>1 DEF Entering
    <3>2. CASE r # "app_decl"
      BY <1>2, <1>3, <1>4, <1>5, <3>2 DEF Entering, AttrsMirrorRules
    <3>. QED
      BY <3>1, <3>2
  <2>2. Len(t.rest_urlparams_len) = Opened({"rest_endpoint"})'
    <3>1. s.rest_urlparams \in Seq(Nat) /\ s.rest_urlparams_len \in Seq(Nat)
      BY <1>4, ListenerTypes
    <3>2. Len(t.rest_urlparams_len) = IF r = "rest_endpoint" THEN Len(s.rest_urlparams_len) + 1
                                      ELSE Len(s.rest_urlparams_len)
      BY <1>4, <3>1 DEF Entering
    <3>. QED
      BY <1>2, <1>3, <1>5, <3>2 DEF AttrsMirrorRules
  <2>. QED
    BY <1>2, <2>1, <2>2 DEF AttrsMirrorRules
<1>12. PrefixesMirrorRules'
  <2>1. t.urlPrefixes = s.urlPrefixes
    BY <1>4 DEF Entering
  <2>2. s.urlPrefixes = Opened({"rest_endpoint"}) - (IF PathAhead THEN 1 ELSE 0)
    BY <1>2, <1>3 DEF PrefixesMirrorRules
  <2>3. t.urlPrefixes = Opened({"rest_endpoint"})' - (IF PathAhead' THEN 1 ELSE 0)
    BY <1>5, <1>7, <2>1, <2>2, PathAheadEntered
  <2>. QED
    BY <1>2, <2>3 DEF PrefixesMirrorRules
<1>13. EndpointMirrorsRules'
  <2>1. s.endpoint = "rest" <=> \E i \in 1..d : open[i].rule = "method_def"
    BY <1>2, <1>3, <1>6 DEF EndpointMirrorsRules
  <2>2. t.endpoint = "rest" <=> \E i \in 1..(d + 1) : open'[i].rule = "method_def"
    <3>1. CASE r = "method_def"
      <4>1. t.endpoint = "rest"
        BY <1>4, <3>1 DEF Entering
      <4>. QED
        BY <1>6, <3>1, <4>1
    <3>2. CASE r # "method_def" /\ t.endpoint = s.endpoint
      BY <1>6, <2>1, <3>2
    <3>3. CASE r # "method_def" /\ t.endpoint # s.endpoint
      <4>1. r \in Naming /\ t.endpoint \in {"path", "plain"}
        BY <1>4, <3>3 DEF Entering
      <4>2. \A i \in 1..(d + 1) : open'[i].rule # "method_def"
        BY <1>6, <1>8, <4>1 DEF Outside, Naming, Shallow
      <4>. QED
        BY <4>1, <4>2
    <3>. QED
      BY <3>1, <3>2, <3>3
  <2>. QED
    BY <1>2, <1>6, <2>2 DEF EndpointMirrorsRules
<1>14. ParamsNest'
  <2>1. s.rest_urlparams \in Seq(Nat) /\ s.rest_urlparams_len \in Seq(Nat)
    BY <1>4, ListenerTypes
  <2>2. Nests(s.rest_urlparams, s.rest_urlparams_len)
    BY <1>2, <1>3 DEF ParamsNest
  <2>3. Nests(t.rest_urlparams, t.rest_urlparams_len)
    <3>1. CASE r = "http_path_var_with_type"
      BY <1>4, <2>1, <2>2, <3>1, NestsVariable DEF Entering
    <3>2. CASE r = "rest_endpoint"
      BY <1>4, <2>1, <2>2, <3>2, NestsEndpoint DEF Entering
    <3>3. CASE r \notin {"http_path_var_with_type", "rest_endpoint"}
      BY <1>4, <2>2, <3>3 DEF Entering
    <3>. QED
      BY <3>1, <3>2, <3>3
  <2>. QED
    BY <1>2, <2>3 DEF ParamsNest
<1>15. OuterMap(t)
  <2>1. CASE r \in TypeRules
    BY <1>4, <1>9, <2>1 DEF Entering, PushedType, OuterMap, Top
  <2>2. CASE r \in {"params", "view", "app_decl"}
    <3>1. (Opened(TypeRules) = 0)'
      BY <1>6, <1>7, <1>8, <2>2 DEF Outside, Shallow
    <3>2. Len(t.types) = 0
      BY <1>2, <1>10, <3>1 DEF TypesMirrorRules
    <3>3. t.types \in Seq(TypeEntry)
      BY <1>4, ListenerTypes
    <3>. QED
      BY <3>2, <3>3 DEF OuterMap
  <2>3. CASE r \notin TypeRules \cup {"params", "view", "app_decl"}
    <3>1. SameTypes(s, t) /\ t.typemap = s.typemap
      BY <1>4, <2>3 DEF Entering
    <3>2. t.types \in Seq(TypeEntry) /\ s.types \in Seq(TypeEntry)
      BY <1>4, ListenerTypes
    <3>. QED
      BY <1>3, <1>9, <3>1, <3>2 DEF SameTypes, OuterMap, Top
  <2>. QED
    BY <2>1, <2>2, <2>3
<1>. QED
  BY <1>2, <1>10, <1>11, <1>12, <1>13, <1>14, <1>15 DEF Mirror

LEMMA MirrorExited ==
  ASSUME TypeOK, Shape, Live(listener), Mirror, Exits, listener' \in Listener,
         Live(listener') => Exiting(listener, listener', Top(open).rule, Top(open).word)
  PROVE  Mirror'
<1>0. PICK d, r, w : d = Len(open) /\ r = Top(open).rule /\ w = Top(open).word
  OBVIOUS
<1>1. SUFFICES ASSUME Live(listener') PROVE Mirror'
  BY DEF Mirror
<1>2. PICK s, t : s = listener /\ t = listener'
  OBVIOUS
<1>3. /\ TypesMirrorRules /\ AttrsMirrorRules /\ PrefixesMirrorRules /\ EndpointMirrorsRules
      /\ ParamsNest /\ OuterMap(s)
  BY <1>2 DEF Mirror
<1>4. s \in Listener /\ t \in Listener /\ Exiting(s, t, r, w)
  BY <1>0, <1>1, <1>2, FramesTyped
<1>5. /\ Opened(TypeRules)' = IF r \in TypeRules THEN Opened(TypeRules) - 1 ELSE Opened(TypeRules)
      /\ Opened({"rest_endpoint"})' = IF r = "rest_endpoint" THEN Opened({"rest_endpoint"}) - 1
                                      ELSE Opened({"rest_endpoint"})
  <2>1. /\ Opened(TypeRules)' = IF r \in TypeRules THEN Opened(TypeRules) - 1 ELSE Opened(TypeRules)
        /\ Opened({"rest_endpoint"})' = IF r \in {"rest_endpoint"} THEN Opened({"rest_endpoint"}) - 1
                                        ELSE Opened({"rest_endpoint"})
    BY <1>0, OpenedExited
  <2>. QED
    BY <2>1
<1>6. /\ d \in Nat \ {0} /\ d = Len(open) /\ Len(open') = d - 1 /\ d \in 1..d
      /\ \A i \in 1..(d - 1) : open'[i] = open[i]
      /\ open[d].rule = r /\ Top(open).rule = r
  BY <1>0 DEF Exits, Top
<1>7. /\ Opened(TypeRules) \in Nat /\ Opened({"rest_endpoint"}) \in Nat
      /\ Opened(TypeRules) = 0 <=> \A i \in 1..d : open[i].rule \notin TypeRules
      /\ (Opened(TypeRules) = 0)' <=> \A i \in 1..(d - 1) : open[i].rule \notin TypeRules
      /\ r = "rest_endpoint" => Opened({"rest_endpoint"}) > 0
  <2>1. /\ Opened(TypeRules) \in Nat /\ Opened({"rest_endpoint"}) \in Nat
        /\ Opened(TypeRules) > 0 <=> \E i \in 1..d : open[i].rule \in TypeRules
        /\ Opened({"rest_endpoint"}) > 0 <=> \E i \in 1..d : open[i].rule \in {"rest_endpoint"}
    BY <1>6, OpenFinite
  <2>2. d - 1 \in Nat
    BY <1>6
  <2>3. /\ Opened(TypeRules)' \in Nat
        /\ (Opened(TypeRules) > 0)' <=> \E i \in 1..(d - 1) : open'[i].rule \in TypeRules
    BY <1>6, <2>2, OpenFiniteNext
  <2>4. (Opened(TypeRules) > 0)' <=> \E i \in 1..(d - 1) : open[i].rule \in TypeRules
    BY <1>6, <2>3
  <2>. QED
    BY <1>6, <2>1, <2>3, <2>4
<1>8. Outside
  BY <1>6, OthersOutside DEF Shape
<1>9. /\ Len(s.types) \in Nat /\ Len(t.types) \in Nat
      /\ s.rest_urlparams \in Seq(Nat) /\ s.rest_urlparams_len \in Seq(Nat)
      /\ s.types \in Seq(TypeEntry) /\ t.types \in Seq(TypeEntry)
  <2>1. s.types \in Seq(TypeEntry) /\ t.types \in Seq(TypeEntry)
    BY <1>4, ListenerTypes
  <2>2. s.rest_urlparams \in Seq(Nat) /\ s.rest_urlparams_len \in Seq(Nat)
    BY <1>4, ListenerTypes
  <2>. QED
    BY <2>1, <2>2
<1>10. TypesMirrorRules'
  <2>1. Len(s.types) = Opened(TypeRules)
    BY <1>2, <1>3 DEF TypesMirrorRules
  <2>2. r \in TypeRules => s.types # <<>>
    BY <1>6, <1>7, <1>9, <2>1
  <2>3. Len(t.types) = IF r \in TypeRules THEN Len(s.types) - 1 ELSE Len(s.types)
    BY <1>4, <2>2 DEF Exiting, PoppedType, SameTypes
  <2>. QED
    BY <1>2, <1>5, <2>1, <2>3 DEF TypesMirrorRules
<1>11. AttrsMirrorRules'
  <2>1. t.rest_attrs = IF r = "rest_endpoint" THEN s.rest_attrs - 1 ELSE s.rest_attrs
    BY <1>4 DEF Exiting
  <2>2. s.rest_attrs = Opened({"rest_endpoint"}) /\ Len(s.rest_urlparams_len) = Opened({"rest_endpoint"})
    BY <1>2, <1>3 DEF AttrsMirrorRules
  <2>3. Len(t.rest_urlparams_len) = IF r = "rest_endpoint" THEN Len(s.rest_urlparams_len) - 1
                                    ELSE Len(s.rest_urlparams_len)
    <3>1. CASE r = "rest_endpoint"
      <4>1. t.rest_urlparams_len = Pop(s.rest_urlparams_len)
        BY <1>4, <3>1 DEF Exiting
      <4>2. Len(s.rest_urlparams_len) > 0
        BY <1>7, <2>2, <3>1
      <4>. QED
        BY <1>9, <3>1, <4>1, <4>2 DEF Pop
    <3>2. CASE r # "rest_endpoint"
      BY <1>4, <3>2 DEF Exiting
    <3>. QED
      BY <3>1, <3>2
  <2>. QED
    BY <1>2, <1>5, <2>1, <2>2, <2>3 DEF AttrsMirrorRules
<1>12. PrefixesMirrorRules'
  <2>1. t.urlPrefixes = IF r = "http_path" THEN s.urlPrefixes + 1
                        ELSE IF r = "rest_endpoint" THEN s.urlPrefixes - 1 ELSE s.urlPrefixes
    BY <1>4 DEF Exiting
  <2>2. s.urlPrefixes = Opened({"rest_endpoint"}) - (IF PathAhead THEN 1 ELSE 0)
    BY <1>2, <1>3 DEF PrefixesMirrorRules
  <2>3. t.urlPrefixes = Opened({"rest_endpoint"})' - (IF PathAhead' THEN 1 ELSE 0)
    BY <1>0, <1>5, <1>7, <2>1, <2>2, PathAheadExited
  <2>. QED
    BY <1>2, <2>3 DEF PrefixesMirrorRules
<1>13. EndpointMirrorsRules'
  <2>1. s.endpoint = "rest" <=> \E i \in 1..d : open[i].rule = "method_def"
    BY <1>2, <1>3, <1>6 DEF EndpointMirrorsRules
  <2>2. t.endpoint = "rest" <=> \E i \in 1..(d - 1) : open[i].rule = "method_def"
    <3>1. CASE r = "method_def"
      <4>1. t.endpoint = ""
        BY <1>4, <3>1 DEF Exiting
      <4>2. \A i \in 1..(d - 1) : open[i].rule # "method_def"
        BY <1>6, <3>1, MethodOnTop DEF Shape
      <4>. QED
        BY <4>1, <4>2
    <3>2. CASE r \in {"simple_endpoint", "event", "subscribe"}
      <4>1. t.endpoint = ""
        BY <1>4, <3>2 DEF Exiting
      <4>2. \A i \in 1..d : open[i].rule # "method_def"
        BY <1>6, <1>8, <3>2 DEF Outside, Shallow
      <4>3. t.endpoint # "rest"
        BY <4>1
      <4>. QED
        BY <1>6, <4>2, <4>3
    <3>3. CASE r \notin {"method_def", "simple_endpoint", "event", "subscribe"}
      <4>1. t.endpoint = s.endpoint
        BY <1>4, <3>3 DEF Exiting
      <4>. QED
        BY <1>6, <2>1, <3>3, <4>1
    <3>. QED
      BY <3>1, <3>2, <3>3
  <2>. QED
    BY <1>2, <1>6, <2>2 DEF EndpointMirrorsRules
<1>14. ParamsNest'
  <2>1. Nests(s.rest_urlparams, s.rest_urlparams_len)
    BY <1>2, <1>3 DEF ParamsNest
  <2>2. Nests(t.rest_urlparams, t.rest_urlparams_len)
    <3>1. CASE r = "rest_endpoint"
      <4>1. s.rest_urlparams_len # <<>>
        BY <1>2, <1>3, <1>7, <1>9, <3>1 DEF AttrsMirrorRules
      <4>. QED
        BY <1>4, <1>9, <2>1, <3>1, <4>1, NestsBack DEF Exiting
    <3>2. CASE r # "rest_endpoint"
      BY <1>4, <2>1, <3>2 DEF Exiting
    <3>. QED
      BY <3>1, <3>2
  <2>. QED
    BY <1>2, <2>2 DEF ParamsNest
<1>15. OuterMap(t)
  <2>1. CASE r = "alias"
    <3>1. (Opened(TypeRules) = 0)'
      BY <1>6, <1>7, <2>1, OnlyOnTop DEF Shape
    <3>. QED
      BY <1>2, <1>9, <1>10, <3>1 DEF TypesMirrorRules, OuterMap
  <2>2. CASE r = "view"
    <3>1. Opened(TypeRules) = 0
      BY <1>6, <1>7, <1>8, <2>2 DEF Outside, Shallow
    <3>2. Len(t.types) = 0
      BY <1>2, <1>5, <1>10, <2>2, <3>1 DEF TypesMirrorRules, TypeRules
    <3>. QED
      BY <1>9, <3>2 DEF OuterMap
  <2>3. CASE r \in TypeRules \ {"alias"}
    BY <1>4, <2>3 DEF Exiting
  <2>4. CASE r \notin TypeRules \cup {"view"}
    <3>1. SameTypes(s, t) /\ (OuterMap(t) \/ t.typemap = s.typemap)
      BY <1>4, <2>4 DEF Exiting
    <3>. QED
      BY <1>3, <1>4, <3>1, OuterMapKept
  <2>. QED
    BY <2>1, <2>2, <2>3, <2>4
<1>. QED
  BY <1>2, <1>10, <1>11, <1>12, <1>13, <1>14, <1>15 DEF Mirror

-----------------------------------------------------------------------------
\* Fields

LEMMA FieldsEntered ==
  ASSUME TypeOK, NEW n, NEW r, NEW w, Enters(n, r, w), Mirror'
  PROVE  FieldsGoToTheirType'
<1>1. PICK s, t : s = listener /\ t = listener'
  OBVIOUS
<1>2. SUFFICES ASSUME Live(t), Top(open)'.rule = "field", t.types # <<>>
               PROVE  t.field.top = Top(t.types).map
  BY <1>1 DEF FieldsGoToTheirType
<1>3. Top(open)'.rule = r
  BY DEF Enters, Top, Frame
<1>4. s \in Listener /\ t \in Entered(s, "field", w) /\ Entering(s, t, "field", w)
  BY <1>1, <1>2, <1>3, FramesTyped, EnteredEffect DEF Enters
<1>5. s.typemap # 0 /\ t.field.top = s.typemap
  BY <1>2, <1>4, FieldEntered
<1>6. t.typemap = s.typemap
  BY <1>4 DEF Entering, TypeRules
<1>7. OuterMap(t)
  BY <1>1, <1>2 DEF Mirror
<1>. QED
  BY <1>2, <1>5, <1>6, <1>7 DEF OuterMap

LEMMA FieldsExited ==
  ASSUME TypeOK, Shape, Exits, open' \in Seq(Frames)
  PROVE  FieldsGoToTheirType'
<1>0. PICK d : d = Len(open)
  OBVIOUS
<1>1. SUFFICES ASSUME (open # <<>>)', Top(open)'.rule = "field"
               PROVE  Top(open)'.rest # Top(open)'.word
  BY DEF FieldsGoToTheirType
<1>2. /\ d \in Nat \ {0} /\ d = Len(open) /\ Len(open') = d - 1
      /\ \A i \in 1..(d - 1) : open'[i] = open[i]
  BY <1>0 DEF Exits
<1>3. d - 1 \in 1..(d - 1)
  <2>1. Len(open') # 0
    BY <1>1
  <2>. QED
    BY <1>2, <2>1
<1>4. Top(open)' = open[d - 1] /\ d - 1 \in 1..d /\ d - 1 < d
  BY <1>2, <1>3 DEF Top
<1>5. Len(open[d - 1].rest) < Len(open[d - 1].word)
  BY <1>1, <1>2, <1>4 DEF Shape, FieldBegun
<1>6. Len(open[d - 1].rest) \in Nat
  <2>1. open[d - 1].rest \in Seq(Symbols)
    BY <1>2, <1>4, FramesTyped
  <2>. QED
    BY <2>1
<1>. QED
  BY <1>4, <1>5, <1>6

-----------------------------------------------------------------------------
\* The invariant

LEMMA TypeOKNext ==
  ASSUME TypeOK, listener' \in Listener, open' \in Seq(Frames), detours' \in 0..Detours
  PROVE  TypeOK'
  BY DEF TypeOK

LEMMA InitInv == Init => IInv
<1>. SUFFICES ASSUME Init PROVE IInv
  OBVIOUS
<1>. DEFINE f == [rule |-> "file", word |-> <<>>, rest |-> <<"sysl_file">>, base |-> 0]
<1>1. /\ open = <<f>> /\ Len(open) = 1 /\ open[1] = f /\ listener = NewTreeShapeListener /\ detours = Detours
      /\ Top(open) = f
  BY DEF Init, Top
<1>2. f.rule = "file" /\ f.word = <<>> /\ f.rest = <<"sysl_file">> /\ f.base = 0
  OBVIOUS
<1>3. f \in Frames
  <2>1. "sysl_file" \in Symbols
    BY SpineSymbols DEF Symbols
  <2>2. <<"sysl_file">> \in Seq(Symbols) /\ <<>> \in Seq(Symbols)
    BY <2>1, WordIn
  <2>. QED
    BY <2>2 DEF Frames
<1>. HIDE DEF f
<1>4. listener \in Listener /\ Live(listener)
  BY <1>1, NewIsListener
<1>5. TypeOK
  BY <1>1, <1>3, <1>4, OpenAssumption DEF TypeOK
<1>6. Shape
  <2>1. RestsFit
    BY <1>1, <1>2 DEF RestsFit, MayHave
  <2>2. Nesting
    BY <1>1 DEF Nesting, Above
  <2>3. PathFirst /\ FieldBegun
    BY <1>1, <1>2 DEF PathFirst, FieldBegun
  <2>. QED
    BY <2>1, <2>2, <2>3 DEF Shape
<1>7. Among(TypeRules) = {} /\ Among({"rest_endpoint"}) = {}
  BY <1>1, <1>2 DEF Among, TypeRules
<1>8. Opened(TypeRules) = 0 /\ Opened({"rest_endpoint"}) = 0
  BY <1>7, FS_EmptySet DEF Opened
<1>9. ~PathAhead
  BY <1>1, <1>2 DEF PathAhead
<1>10. /\ listener.scope = <<>> /\ listener.types = <<>> /\ listener.urlPrefixes = 0
       /\ listener.rest_attrs = 0 /\ listener.rest_urlparams = <<>>
       /\ listener.rest_urlparams_len = <<>> /\ listener.endpoint = ""
  BY <1>1 DEF NewTreeShapeListener
<1>11. Mirror
  <2>1. TypesMirrorRules /\ AttrsMirrorRules /\ PrefixesMirrorRules
    <3>1. Len(listener.types) = 0 /\ Len(listener.rest_urlparams_len) = 0
      BY <1>10
    <3>2. TypesMirrorRules
      BY <1>8, <3>1 DEF TypesMirrorRules
    <3>3. AttrsMirrorRules
      BY <1>8, <1>10, <3>1 DEF AttrsMirrorRules
    <3>4. PrefixesMirrorRules
      <4>1. listener.urlPrefixes = 0
        BY <1>10
      <4>2. (IF PathAhead THEN 1 ELSE 0) = 0
        BY <1>9
      <4>3. Opened({"rest_endpoint"}) - 0 = 0
        BY <1>8
      <4>. QED
        BY <4>1, <4>2, <4>3 DEF PrefixesMirrorRules
    <3>. QED
      BY <3>2, <3>3, <3>4
  <2>2. EndpointMirrorsRules
    <3>1. listener.endpoint # "rest"
      BY <1>10
    <3>2. \A i \in 1..Len(open) : open[i].rule # "method_def"
      BY <1>1, <1>2
    <3>. QED
      BY <3>1, <3>2 DEF EndpointMirrorsRules
  <2>3. ParamsNest /\ OuterMap(listener)
    <3>1. listener.rest_urlparams = <<>> /\ listener.rest_urlparams_len = <<>> /\ listener.types = <<>>
      BY <1>10
    <3>2. Nests(<<>>, <<>>)
      BY DEF Nests
    <3>. QED
      BY <3>1, <3>2 DEF ParamsNest, OuterMap
  <2>. QED
    BY <2>1, <2>2, <2>3 DEF Mirror
<1>12. ScopesInPlace
  <2>1. ~HasScope(f)
    BY <1>2, ScopedForDomain DEF HasScope, Scoping
  <2>2. Scoped(1) = {}
    BY <1>1, <2>1 DEF Scoped
  <2>. QED
    BY <1>1, <1>10, <2>2, FS_EmptySet DEF ScopesInPlace
<1>13. FieldsGoToTheirType
  BY <1>1, <1>2 DEF FieldsGoToTheirType
<1>. QED
  BY <1>5, <1>6, <1>11, <1>12, <1>13 DEF IInv

LEMMA EnterKeepsInv ==
  ASSUME IInv, EnterRule
  PROVE  IInv'
<1>1. TypeOK /\ Shape /\ Mirror /\ ScopesInPlace /\ Live(listener)
  BY DEF IInv, EnterRule
<1>2. open' \in Seq(Frames) /\ detours' \in 0..Detours
  BY <1>1, EnterStep
<1>3. PICK n, r, w : Enters(n, r, w)
  BY <1>1, EnterStep
<1>4. listener' \in Listener /\ (Live(listener') => Entering(listener, listener', r, w))
  BY <1>1, <1>3, EnteredEffect
<1>5. TypeOK'
  BY <1>1, <1>2, <1>4, TypeOKNext
<1>6. Shape'
  BY <1>1, <1>3, ShapeEntered
<1>7. Mirror'
  BY <1>1, <1>3, MirrorEntered
<1>8. ScopesInPlace'
  BY <1>1, <1>3, <1>4, ScopesEntered
<1>9. FieldsGoToTheirType'
  BY <1>1, <1>3, <1>7, FieldsEntered
<1>. QED
  BY <1>5, <1>6, <1>7, <1>8, <1>9 DEF IInv

LEMMA ExitKeepsInv ==
  ASSUME IInv, ExitRule
  PROVE  IInv'
<1>1. TypeOK /\ Shape /\ Mirror /\ ScopesInPlace /\ Live(listener)
  BY DEF IInv, ExitRule
<1>2. /\ listener' \in Listener
      /\ Live(listener') => Exiting(listener, listener', Top(open).rule, Top(open).word)
  BY <1>1, ExitedEffect
<1>3. open' \in Seq(Frames) /\ (Live(listener') => Exits) /\ (~Live(listener') => open' = open)
  BY <1>1, ExitStep
<1>4. TypeOK'
  BY <1>1, <1>2, <1>3, TypeOKNext DEF ExitRule, TypeOK
<1>5. CASE Live(listener')
  <2>1. Exits
    BY <1>3, <1>5
  <2>2. Shape'
    BY <1>1, <2>1, ShapeExited
  <2>3. Mirror'
    BY <1>1, <1>2, <2>1, MirrorExited
  <2>4. ScopesInPlace'
    BY <1>1, <1>2, <2>1, ScopesExited
  <2>5. FieldsGoToTheirType'
    BY <1>1, <2>1, <1>3, FieldsExited
  <2>. QED
    BY <1>4, <2>2, <2>3, <2>4, <2>5 DEF IInv
<1>6. CASE ~Live(listener')
  <2>1. Shape'
    BY <1>1, <1>3, <1>6 DEF Shape, RestsFit, Nesting, Above, PathFirst, FieldBegun
  <2>2. Mirror' /\ ScopesInPlace' /\ FieldsGoToTheirType'
    BY <1>6 DEF Mirror, ScopesInPlace, FieldsGoToTheirType
  <2>. QED
    BY <1>4, <2>1, <2>2 DEF IInv
<1>. QED
  BY <1>5, <1>6

LEMMA StutterKeepsInv ==
  ASSUME IInv, UNCHANGED vars
  PROVE  IInv'
<1>1. open' = open /\ listener' = listener /\ detours' = detours
  BY DEF vars
<1>2. TypeOK' /\ ScopesInPlace' /\ FieldsGoToTheirType'
  BY <1>1 DEF IInv, TypeOK, ScopesInPlace, Scoped, FieldsGoToTheirType
<1>3. Shape'
  BY <1>1 DEF IInv, Shape, RestsFit, Nesting, Above, PathFirst, FieldBegun
<1>4. Mirror'
  BY <1>1 DEF IInv, Mirror, TypesMirrorRules, AttrsMirrorRules, PrefixesMirrorRules, PathAhead,
     EndpointMirrorsRules, ParamsNest, Opened, Among
<1>. QED
  BY <1>2, <1>3, <1>4 DEF IInv

(***************************************************************************)
(* The inductive invariant: whatever tree the parser makes of a file, each *)
(* stack of the listener has, between two callbacks, what the open rules   *)
(* have put there.                                                         *)
(***************************************************************************)
THEOREM Invariance == Spec => []IInv
<1>1. IInv /\ [Next]_vars => IInv'
  <2>1. SUFFICES ASSUME IInv, [Next]_vars PROVE IInv'
    OBVIOUS
  <2>2. CASE EnterRule
    BY <2>1, <2>2, EnterKeepsInv
  <2>3. CASE ExitRule
    BY <2>1, <2>3, ExitKeepsInv
  <2>4. CASE UNCHANGED vars
    BY <2>1, <2>4, StutterKeepsInv
  <2>. QED
    BY <2>1, <2>2, <2>3, <2>4 DEF Next
<1>. QED
  BY InitInv, <1>1, PTL DEF Spec

(***************************************************************************)
(* No callback leaves the listener or the stack of open rules in a state   *)
(* that is not one of theirs: a popped stack was not empty, a number of    *)
(* prefixes or attributes is never negative.                               *)
(***************************************************************************)
THEOREM TypeCorrect == Spec => []TypeOK
<1>1. IInv => TypeOK
  BY DEF IInv
<1>. QED
  BY Invariance, <1>1, PTL

(***************************************************************************)
(* A field is put among the fields of the innermost type that is open,     *)
(* however deep types are nested and whichever were closed before it       *)
(* (listener_impl.go:570).                                                 *)
(***************************************************************************)
THEOREM FieldsStayInTheirType == Spec => []FieldsGoToTheirType
<1>1. IInv => FieldsGoToTheirType
  BY DEF IInv
<1>. QED
  BY Invariance, <1>1, PTL

LEMMA PathsFollow == IInv => PathsMirrorRules
<1>. SUFFICES ASSUME IInv, Live(listener) PROVE PathsMirrorRules
  BY DEF PathsMirrorRules
<1>. DEFINE rests == Opened({"rest_endpoint"})
            paths == Opened({"http_path"})
<1>1. TypeOK /\ Shape /\ TypesMirrorRules /\ AttrsMirrorRules /\ PrefixesMirrorRules
      /\ EndpointMirrorsRules /\ ParamsNest
  BY DEF IInv, Mirror
<1>2. Len(open) \in Nat /\ listener.rest_urlparams \in Seq(Nat)
  BY <1>1, FramesTyped, ListenerTypes
<1>3. /\ rests \in Nat /\ paths \in Nat
      /\ paths > 0 <=> \E i \in 1..Len(open) : open[i].rule = "http_path"
      /\ Opened({"method_def"}) > 0 <=> \E i \in 1..Len(open) : open[i].rule = "method_def"
      /\ Opened({"http_path", "method_def"}) > 0 <=>
           \E i \in 1..Len(open) : open[i].rule \in {"http_path", "method_def"}
  <2>1. /\ rests \in Nat /\ paths \in Nat
        /\ paths > 0 <=> \E i \in 1..Len(open) : open[i].rule \in {"http_path"}
        /\ Opened({"method_def"}) > 0 <=> \E i \in 1..Len(open) : open[i].rule \in {"method_def"}
        /\ Opened({"http_path", "method_def"}) > 0 <=>
             \E i \in 1..Len(open) : open[i].rule \in {"http_path", "method_def"}
    BY <1>2, OpenFinite
  <2>. QED
    BY <2>1
\* One path at most is open.
<1>4. paths <= 1
  <2>1. SUFFICES ASSUME paths # 0 PROVE paths <= 1
    BY <1>3
  <2>2. PICK i \in 1..Len(open) : open[i].rule = "http_path"
    BY <1>3, <2>1
  <2>3. \A j, k \in Among({"http_path"}) : ~(j < k)
    BY <1>1 DEF Shape, Nesting, Above, Among, Shallow
  <2>4. Among({"http_path"}) = {i}
    BY <1>2, <2>2, <2>3 DEF Among
  <2>. QED
    <3>1. Cardinality({i}) = 1
      BY FS_Singleton
    <3>2. paths = 1
      BY <2>4, <3>1 DEF Opened
    <3>. QED
      BY <3>2
<1>5. ASSUME Opened({"http_path", "method_def"}) > 0 PROVE listener.urlPrefixes = rests - paths
  <2>1. CASE paths > 0
    <3>1. PathAhead
      BY <1>3, <2>1 DEF PathAhead
    <3>. QED
      BY <1>1, <1>3, <1>4, <2>1, <3>1 DEF PrefixesMirrorRules
  <2>2. CASE ~(paths > 0)
    <3>1. PICK i \in 1..Len(open) : open[i].rule = "method_def"
      BY <1>3, <1>5, <2>2
    <3>2. ~PathAhead
      <4>1. SUFFICES ASSUME open # <<>>, Top(open).rule = "rest_endpoint" PROVE FALSE
        BY <1>3, <2>2 DEF PathAhead
      <4>2. Outside
        BY <1>1, <1>2, <3>1, OthersOutside DEF Shape
      <4>. QED
        BY <3>1, <4>1, <4>2 DEF Outside, Shallow
    <3>. QED
      BY <1>1, <1>3, <2>2, <3>2 DEF PrefixesMirrorRules
  <2>. QED
    BY <2>1, <2>2
<1>6. listener.urlPrefixes \in {rests - 1, rests}
  BY <1>1, <1>3 DEF PrefixesMirrorRules
<1>7. \A i \in 1..Len(listener.rest_urlparams) : listener.rest_urlparams[i] <= rests
  BY <1>1 DEF ParamsNest, Nests, AttrsMirrorRules
<1>8. (listener.endpoint = "rest") <=> (Opened({"method_def"}) > 0)
  BY <1>1, <1>3 DEF EndpointMirrorsRules
<1>. QED
  BY <1>1, <1>5, <1>6, <1>7, <1>8
  DEF PathsMirrorRules, TypesMirrorRules, AttrsMirrorRules, TypeRules

(***************************************************************************)
(* The stacks for types and REST paths are those of the open rules: a      *)
(* method is declared under the prefixes and the attributes of the         *)
(* endpoints around it and of no other, a variable of a path goes to no    *)
(* method of another path, and the type path names the types that are open *)
(* (listener_impl.go, EnterRest_endpoint, ExitRest_endpoint).              *)
(***************************************************************************)
THEOREM PathsAreTheOpenOnes == Spec => []PathsMirrorRules
  BY Invariance, PathsFollow, PTL

-----------------------------------------------------------------------------
\* The values that the children of a word leave

\* Whatever the word of a rule below an expression: its children leave what it will take.
LEMMA GainedIsTaken ==
  ASSUME NEW r \in Rules \cap Held, NEW w \in Grammar[r]
  PROVE  Gained(w) = Took(r, Frame(r, w).word)
<1>1. CASE r \in Mild
  <2>1. r \in Rules \ (Spine \cup Body \cup {"view"})
    BY <1>1, FileIsNoRule DEF Mild, Deep, Shallow, Spine
  <2>2. Seq(Mild) \subseteq Seq(Idle)
    BY DEF Idle
  <2>3. Gains(Grammar[r], 0)
    BY <2>1, <2>2, MildRules, GainsIdle
  <2>4. /\ r \notin Chains /\ r \notin Ones
        /\ r \notin {"power", "first_func_target", "matching_rhs", "expr_single_arg_func", "if_one_liner"}
    BY <1>1 DEF Mild, Body, Inner, Gainers, Neutral, Outer, Chains, Ones
  <2>. QED
    BY <2>3, <2>4 DEF Took, Gains
<1>2. CASE r \in IdleRules
  <2>1. Gains(Grammar[r], 0)
    BY <1>2, IdleBelow, GainsIdle
  <2>2. /\ r \notin Chains /\ r \notin Ones
        /\ r \notin {"power", "first_func_target", "matching_rhs", "expr_single_arg_func", "if_one_liner"}
    BY <1>2 DEF IdleRules, Chains, Ones
  <2>. QED
    BY <2>1, <2>2 DEF Took, Gains
<1>3. CASE r \in Chains
  <2>1. Frame(r, w).word = w
    BY <1>3 DEF Frame, LooksBack, Chains
  <2>2. r \notin Ones /\ r \notin {"power", "first_func_target", "matching_rhs",
      "expr_single_arg_func", "if_one_liner"}
    BY <1>3 DEF Chains, Ones
  <2>3. Took(r, w) = (IF Len(w) > 1 THEN Len(w) ELSE 1)
    BY <1>3, <2>2 DEF Took
  <2>. QED
    BY <1>3, <2>1, <2>3, ChainsGain
<1>4. CASE r \in Ones
  <2>1. /\ r \notin Chains
        /\ r \notin {"power", "first_func_target", "matching_rhs", "expr_single_arg_func", "if_one_liner"}
    BY <1>4 DEF Chains, Ones
  <2>2. \A u : Took(r, u) = 1
    BY <1>4, <2>1 DEF Took
  <2>3. Gained(w) = 1
    BY <1>4, OnesGain DEF Gains
  <2>. QED
    BY <2>2, <2>3
<1>5. CASE r \in {"power", "first_func_target", "matching_rhs", "expr_single_arg_func", "if_one_liner"}
  <2>1. r \in {"power", "first_func_target", "matching_rhs"} => Frame(r, w).word = w
    BY DEF Frame, LooksBack
  <2>2. r \notin Chains /\ r \notin Ones
    BY <1>5 DEF Chains, Ones
  <2>. QED
    BY <1>5, <2>1, <2>2, OthersGain DEF Took, Gains
<1>6. Inner \subseteq IdleRules \cup Chains \cup Ones
        \cup {"power", "first_func_target", "matching_rhs", "expr_single_arg_func", "if_one_liner"}
  BY DEF Inner, Gainers, Neutral, IdleRules, Chains, Ones
<1>7. CASE r = "expr_dot_assign"
  <2>1. r \notin Chains /\ r \notin Ones
    BY <1>7 DEF Chains, Ones
  <2>2. Took(r, Frame(r, w).word) = 0
    BY <1>7, <2>1 DEF Took
  <2>3. w = <<>>
    BY <1>7 DEF Grammar, expr_dot_assign
  <2>4. <<>> \in Seq({}) /\ {} \cap Gainers = {}
    OBVIOUS
  <2>. QED
    BY <2>2, <2>3, <2>4, GainedNone
<1>8. Rims \subseteq Ones \cup {"expr_dot_assign"}
  BY DEF Rims, Ones
<1>. QED
  BY <1>1, <1>2, <1>3, <1>4, <1>5, <1>6, <1>7, <1>8 DEF Within, Held

-----------------------------------------------------------------------------
\* What the steps do to the frames, for the stack of expressions

\* Entering a rule takes it from the rest of the innermost one, and opens it.
LEMMA EnteredFrames ==
  ASSUME TypeOK, RestsFit, NEW n, NEW r, NEW w, Enters(n, r, w)
  PROVE  LET d == Len(open)
         IN  /\ d \in Nat \ {0} /\ d \in 1..d /\ Len(open') = d + 1
             /\ r \in Rules /\ w \in Grammar[r] /\ w \in Seq(Symbols)
             /\ \A i \in 1..d : /\ open'[i].rule = open[i].rule /\ open'[i].word = open[i].word
                                /\ open'[i].base = open[i].base
             /\ \A i \in 1..(d - 1) : open'[i].rest = open[i].rest
             /\ open'[d].rest = SubSeq(open[d].rest, n + 1, Len(open[d].rest))
             /\ n \in 1..Len(open[d].rest) /\ r = open[d].rest[n]
             /\ open'[d + 1].rule = r /\ open'[d + 1].rest = w
             /\ open'[d + 1].word = Frame(r, w).word
             /\ r = "expr" => open'[d + 1].base = Len(listener.exprs)
             /\ open[d].rest \in Seq(Symbols) /\ open'[d].rest \in Seq(Symbols)
             /\ open[d].rule \in Rules \cup {"file"} /\ MayHave(open[d].rule, r)
             /\ Gained(open[d].rest) = Leaves(r) + Gained(open'[d].rest)
             /\ listener \in Listener /\ listener' \in Entered(listener, r, w)
<1>. DEFINE d == Len(open)
            rest == open[d].rest
<1>1. /\ d \in Nat \ {0} /\ Len(open') = d + 1 /\ r \in Rules /\ w \in Grammar[r] /\ w \in Seq(Symbols)
      /\ \A i \in 1..d : /\ open'[i].rule = open[i].rule /\ open'[i].word = open[i].word
                         /\ open'[i].base = open[i].base
      /\ \A i \in 1..(d - 1) : open'[i].rest = open[i].rest
      /\ open'[d].rest = SubSeq(rest, n + 1, Len(rest))
      /\ n \in 1..Len(rest) /\ r = rest[n] /\ NextIs(rest, n)
      /\ open'[d + 1] = Frame(r, w)
      /\ listener' \in Entered(listener, r, w)
  BY DEF Enters, Top
<1>2. /\ Frame(r, w).rule = r /\ Frame(r, w).rest = w
      /\ r = "expr" => Frame(r, w).base = Len(listener.exprs)
  BY DEF Frame
<1>3. d \in 1..d
  BY <1>1
<1>4. rest \in Seq(Symbols) /\ open[d].rule \in Rules \cup {"file"} /\ listener \in Listener
  BY <1>3, FramesTyped
<1>5. MayHave(open[d].rule, r)
  BY <1>1, <1>3 DEF RestsFit
<1>6. Gained(rest) = Leaves(r) + Gained(SubSeq(rest, n + 1, Len(rest)))
  BY <1>1, <1>4, GainedNext
<1>. HIDE DEF rest
<1>7. n + 1 \in 1..(Len(rest) + 1) /\ Len(rest) \in Nat
  BY <1>1, <1>4
<1>8. SubSeq(rest, n + 1, Len(rest)) \in Seq(Symbols)
  BY <1>4, <1>7
<1>. HIDE DEF d
<1>9. /\ d \in Nat \ {0} /\ d \in 1..d /\ Len(open') = d + 1
      /\ r \in Rules /\ w \in Grammar[r] /\ w \in Seq(Symbols)
      /\ \A i \in 1..d : /\ open'[i].rule = open[i].rule /\ open'[i].word = open[i].word
                         /\ open'[i].base = open[i].base
      /\ \A i \in 1..(d - 1) : open'[i].rest = open[i].rest
      /\ open'[d].rest = SubSeq(rest, n + 1, Len(rest))
      /\ n \in 1..Len(rest) /\ r = rest[n]
      /\ open'[d + 1].rule = r /\ open'[d + 1].rest = w
      /\ open'[d + 1].word = Frame(r, w).word
      /\ r = "expr" => open'[d + 1].base = Len(listener.exprs)
      /\ rest \in Seq(Symbols) /\ open'[d].rest \in Seq(Symbols)
      /\ open[d].rule \in Rules \cup {"file"} /\ MayHave(open[d].rule, r)
      /\ Gained(rest) = Leaves(r) + Gained(open'[d].rest)
      /\ listener \in Listener /\ listener' \in Entered(listener, r, w)
  BY <1>1, <1>2, <1>3, <1>4, <1>5, <1>6, <1>8
<1>. QED
  BY <1>9 DEF d, rest

\* Exiting a rule closes it; what was left of it holds no rule.
LEMMA ExitedFrames ==
  ASSUME TypeOK, Exits
  PROVE  LET d == Len(open)
         IN  /\ d \in Nat \ {0} /\ d \in 1..d /\ Len(open') = d - 1
             /\ \A i \in 1..(d - 1) : open'[i] = open[i]
             /\ open[d].rule \in Rules \cup {"file"} /\ Len(open[d].word) \in Nat
             /\ open[d].rest \in Seq(Symbols)
             /\ Gained(open[d].rest) = 0
             /\ \A k \in 1..Len(open[d].rest) : open[d].rest[k] \notin Rules
             /\ listener \in Listener /\ listener' = Exit(listener, open[d].rule, open[d].word)
<1>. DEFINE d == Len(open)
<1>1. /\ d \in Nat \ {0} /\ Len(open') = d - 1
      /\ \A k \in 1..Len(open[d].rest) : ~NextIs(open[d].rest, k)
      /\ \A i \in 1..(d - 1) : open'[i] = open[i]
      /\ listener' = Exit(listener, open[d].rule, open[d].word)
  BY DEF Exits, Top
<1>2. d \in 1..d
  BY <1>1
<1>3. /\ open[d].rest \in Seq(Symbols) /\ open[d].word \in Seq(Symbols)
      /\ open[d].rule \in Rules \cup {"file"} /\ listener \in Listener
  BY <1>2, FramesTyped
<1>4. Gained(open[d].rest) = 0 /\ \A k \in 1..Len(open[d].rest) : open[d].rest[k] \notin Rules
  BY <1>1, <1>3, GainedLast
<1>5. Len(open[d].word) \in Nat
  BY <1>3
<1>. QED
  BY <1>1, <1>2, <1>3, <1>4, <1>5

-----------------------------------------------------------------------------
\* The heights of the stack of expressions

\* An expression, or a rule around one, is open at i or outside of it.
Inside(i) == \E j \in 1..i : open[j].rule \in Rims

\* h[i] is the height of the stack when the rule i was entered.
Tall(h) ==
  /\ \A i \in 1..Len(open) : open[i].rule = "expr" => h[i] = open[i].base
  /\ \A i \in 1..(Len(open) - 1) :
       Inside(i) => h[i + 1] = h[i] + Pending(open[i]) - Leaves(open[i + 1].rule)
  /\ Live(listener) /\ Inside(Len(open))
       => Len(listener.exprs) = h[Len(open)] + Pending(open[Len(open)])

HeldInside == \A i \in 1..Len(open) : Inside(i) => open[i].rule \in Held

Heights == HeldInside /\ \E h \in [Nat -> Int] : Tall(h)

\* Entering a rule gives it the height that the stack has now.
LEMMA TallEntered ==
  ASSUME TypeOK, RestsFit, HeldInside, Live(listener), NEW n, NEW r, NEW w, Enters(n, r, w),
         NEW h \in [Nat -> Int], Tall(h),
         NEW g \in [Nat -> Int], g = [h EXCEPT ![Len(open) + 1] = Len(listener.exprs)]
  PROVE  HeldInside' /\ Tall(g)'
<1>0. PICK d \in Nat : d = Len(open)
  BY FramesTyped
<1>. DEFINE e == Len(listener.exprs)
<1>1. /\ d \in Nat \ {0} /\ d \in 1..d /\ Len(open') = d + 1
      /\ r \in Rules /\ w \in Grammar[r] /\ w \in Seq(Symbols)
      /\ \A i \in 1..d : /\ open'[i].rule = open[i].rule /\ open'[i].word = open[i].word
                         /\ open'[i].base = open[i].base
      /\ \A i \in 1..(d - 1) : open'[i].rest = open[i].rest
      /\ open'[d + 1].rule = r /\ open'[d + 1].rest = w
      /\ open'[d + 1].word = Frame(r, w).word
      /\ r = "expr" => open'[d + 1].base = e
      /\ open[d].rule \in Rules \cup {"file"} /\ MayHave(open[d].rule, r)
      /\ Gained(open[d].rest) = Leaves(r) + Gained(open'[d].rest)
      /\ listener \in Listener /\ listener' \in Entered(listener, r, w)
      /\ open[d].rest \in Seq(Symbols) /\ open'[d].rest \in Seq(Symbols)
  BY <1>0, EnteredFrames
<1>2. e \in Nat /\ Len(w) \in Nat /\ Len(open[d].word) \in Nat
      /\ Len(open[d].rest) \in Nat /\ Len(open'[d].rest) \in Nat
  <2>1. listener \in Listener /\ d \in 1..Len(open)
    BY <1>0, <1>1
  <2>2. listener.exprs \in Seq(AnyExpr) /\ open[d].word \in Seq(Symbols)
    BY <2>1, FramesTyped, ListenerTypes
  <2>3. w \in Seq(Symbols) /\ open[d].rest \in Seq(Symbols) /\ open'[d].rest \in Seq(Symbols)
    BY <1>1
  <2>4. \A S : \A q \in Seq(S) : Len(q) \in Nat
    OBVIOUS
  <2>. QED
    BY <2>2, <2>3, <2>4
<1>20. /\ d + 1 \in Nat /\ d \in 1..d /\ open'[d + 1].rule = r
       /\ \A i \in 1..d : open'[i].rule = open[i].rule
  BY <1>0, <1>1
<1>3. Tall(h)
  OBVIOUS
<1>5. g[d + 1] = e /\ \A i \in 1..d : g[i] = h[i]
  BY <1>0, <1>20
<1>6. ASSUME NEW i \in 1..d PROVE Inside(i)' <=> Inside(i)
  <2>1. \A j \in 1..i : j \in 1..d
    OBVIOUS
  <2>. QED
    BY <1>20, <2>1 DEF Inside
<1>7. Inside(d + 1)' <=> Inside(d) \/ r \in Rims
  <2>1. Inside(d + 1)' <=> \E j \in 1..(d + 1) : open'[j].rule \in Rims
    BY DEF Inside
  <2>2. Inside(d) <=> \E j \in 1..d : open[j].rule \in Rims
    BY DEF Inside
  <2>. QED
    BY <1>20, <2>1, <2>2
<1>8. Inside(d) => open[d].rule \in Held /\ e = h[d] + Pending(open[d])
  BY <1>0, <1>1, <1>3 DEF HeldInside, Tall
<1>9. Inside(d + 1)' => r \in Held
  BY <1>1, <1>7, <1>8, WithinBelow DEF Held
<1>10. \A i \in 1..(d + 1) : Inside(i)' => open'[i].rule \in Held
  <2>1. SUFFICES ASSUME NEW i \in 1..(d + 1), Inside(i)' PROVE open'[i].rule \in Held
    OBVIOUS
  <2>2. CASE i = d + 1
    BY <1>1, <1>9, <2>1, <2>2
  <2>3. CASE i \in 1..d
    BY <1>0, <1>1, <1>6, <2>1, <2>3 DEF HeldInside
  <2>. QED
    BY <1>1, <2>2, <2>3
<1>11. \A i \in 1..(d + 1) : open'[i].rule = "expr" => g[i] = open'[i].base
  <2>1. SUFFICES ASSUME NEW i \in 1..(d + 1), open'[i].rule = "expr" PROVE g[i] = open'[i].base
    OBVIOUS
  <2>2. CASE i = d + 1
    BY <1>1, <1>5, <2>1, <2>2
  <2>3. CASE i \in 1..d
    BY <1>0, <1>1, <1>3, <1>5, <2>1, <2>3 DEF Tall
  <2>. QED
    BY <1>1, <2>2, <2>3
<1>12. \A i \in 1..d : Inside(i)' => g[i + 1] = g[i] + Pending(open'[i]) - Leaves(open'[i + 1].rule)
  <2>1. SUFFICES ASSUME NEW i \in 1..d, Inside(i)
                 PROVE  g[i + 1] = g[i] + Pending(open'[i]) - Leaves(open'[i + 1].rule)
    BY <1>6
  <2>2. CASE i = d
    <3>1. /\ Put(open[d].rule, open[d].word) \in Nat /\ Took(open[d].rule, open[d].word) \in Nat
          /\ Gained(open[d].rest) \in Nat /\ Gained(open'[d].rest) \in Nat /\ Leaves(r) \in Nat
      BY <1>2, PendingType
    <3>2. /\ Pending(open[d]) = Put(open[d].rule, open[d].word) + Took(open[d].rule, open[d].word)
                                  - Gained(open[d].rest)
          /\ Pending(open'[d]) = Put(open[d].rule, open[d].word) + Took(open[d].rule, open[d].word)
                                   - Gained(open'[d].rest)
      BY <1>1 DEF Pending
    <3>3. e = h[d] + Pending(open[d]) /\ h[d] \in Int
      BY <1>1, <1>8, <2>1, <2>2
    <3>4. Pending(open[d]) = Pending(open'[d]) - Leaves(r) /\ Pending(open'[d]) \in Int
      <4>1. \A p, t, a, b, l, x, y : p \in Nat /\ t \in Nat /\ a \in Nat /\ b \in Nat /\ l \in Nat
              /\ a = l + b /\ x = p + t - a /\ y = p + t - b => x = y - l /\ y \in Int
        OBVIOUS
      <4>2. Gained(open[d].rest) = Leaves(r) + Gained(open'[d].rest)
        BY <1>1
      <4>. QED
        BY <3>1, <3>2, <4>1, <4>2
    <3>5. e = h[d] + Pending(open'[d]) - Leaves(r)
      BY <3>1, <3>3, <3>4
    <3>. QED
      BY <1>1, <1>5, <2>2, <3>5
  <2>3. CASE i # d
    <3>1. i \in 1..(d - 1) /\ i + 1 \in 1..d
      BY <2>3
    <3>2. h[i + 1] = h[i] + Pending(open[i]) - Leaves(open[i + 1].rule)
      BY <1>0, <1>3, <2>1, <3>1 DEF Tall
    <3>3. Pending(open'[i]) = Pending(open[i]) /\ open'[i + 1].rule = open[i + 1].rule
      BY <1>1, <3>1 DEF Pending
    <3>. QED
      BY <1>5, <3>1, <3>2, <3>3
  <2>. QED
    BY <2>2, <2>3
<1>13. ASSUME Live(listener'), Inside(d + 1)'
       PROVE  Len(listener'.exprs) = g[d + 1] + Pending(open'[d + 1])
  <2>1. r \in Held
    BY <1>9, <1>13
  <2>2. r \in Rules \ {"transform", "template_statement"}
    BY <1>1, <2>1 DEF Held, Rims, Within, Mild, Body, Inner, Gainers, Neutral, Outer
  <2>3. Shifts(listener, listener', Put(r, w))
    BY <1>1, <2>2, EnterShifts
  <2>4. Len(listener'.exprs) = e + Put(r, w)
    BY <1>13, <2>3 DEF Shifts
  <2>5. Gained(w) = Took(r, Frame(r, w).word)
    BY <1>1, <2>1, GainedIsTaken
  <2>6. Put(r, Frame(r, w).word) = Put(r, w)
    BY DEF Put, Frame, LooksBack
  <2>7. Put(r, w) \in Nat /\ Gained(w) \in Nat
    BY <1>2, PendingType
  <2>8. Pending(open'[d + 1]) = Put(r, w) + Gained(w) - Gained(w)
    BY <1>1, <2>5, <2>6 DEF Pending
  <2>9. Pending(open'[d + 1]) = Put(r, w)
    BY <2>7, <2>8
  <2>. QED
    BY <1>5, <2>4, <2>9
<1>14. Tall(g)'
  BY <1>0, <1>1, <1>11, <1>12, <1>13 DEF Tall
<1>. QED
  BY <1>1, <1>10, <1>14 DEF HeldInside

\* The heights with one more.
LEMMA Taller ==
  ASSUME TypeOK, NEW h \in [Nat -> Int]
  PROVE  \E g \in [Nat -> Int] : g = [h EXCEPT ![Len(open) + 1] = Len(listener.exprs)]
<1>1. listener.exprs \in Seq(AnyExpr)
  BY FramesTyped, ListenerTypes
<1>2. Len(listener.exprs) \in Int
  BY <1>1
<1>. QED
  BY <1>2

\* So there are heights after it.
LEMMA HeightsEntered ==
  ASSUME TypeOK, RestsFit, Heights, Live(listener), NEW n, NEW r, NEW w, Enters(n, r, w)
  PROVE  Heights'
<1>1. PICK h \in [Nat -> Int] : Tall(h)
  BY DEF Heights
<1>2. PICK g \in [Nat -> Int] : g = [h EXCEPT ![Len(open) + 1] = Len(listener.exprs)]
  BY Taller
<1>3. HeldInside' /\ Tall(g)'
  BY <1>1, <1>2, TallEntered DEF Heights
<1>. QED
  BY <1>3 DEF Heights

\* Exiting a rule leaves its value where the rule around it waits for it.
LEMMA TallExited ==
  ASSUME TypeOK, HeldInside, Live(listener), Exits, NEW h \in [Nat -> Int], Tall(h)
  PROVE  HeldInside' /\ Tall(h)'
<1>0. PICK d \in Nat : d = Len(open)
  BY FramesTyped
<1>. DEFINE e == Len(listener.exprs)
            f == open[d]
<1>1. /\ d \in Nat \ {0} /\ d \in 1..d /\ Len(open') = d - 1
      /\ \A i \in 1..(d - 1) : open'[i] = open[i]
      /\ Len(f.word) \in Nat /\ Len(f.rest) \in Nat
      /\ Gained(f.rest) = 0
      /\ listener \in Listener /\ listener' = Exit(listener, f.rule, f.word)
  <2>1. \A u \in Seq(Symbols) : Len(u) \in Nat
    OBVIOUS
  <2>. QED
    BY <1>0, <2>1, ExitedFrames
<1>20. d - 1 \in Nat /\ \A i \in 1..(d - 1) : i \in 1..d /\ open'[i] = open[i]
  BY <1>0, <1>1
<1>2. Tall(h)
  OBVIOUS
<1>3. \A i \in 1..(d - 1) : Inside(i)' <=> Inside(i)
  BY <1>20 DEF Inside
<1>4. \A i \in 1..(d - 1) : Inside(i)' => open'[i].rule \in Held
  BY <1>0, <1>3, <1>20 DEF HeldInside
<1>5. \A i \in 1..(d - 1) : open'[i].rule = "expr" => h[i] = open'[i].base
  BY <1>0, <1>2, <1>20 DEF Tall
<1>6. \A i \in 1..(d - 1 - 1) :
        Inside(i)' => h[i + 1] = h[i] + Pending(open'[i]) - Leaves(open'[i + 1].rule)
  <2>1. SUFFICES ASSUME NEW i \in 1..(d - 1 - 1), Inside(i)'
                 PROVE  h[i + 1] = h[i] + Pending(open'[i]) - Leaves(open'[i + 1].rule)
    OBVIOUS
  <2>2. i \in 1..(d - 1) /\ i + 1 \in 1..(d - 1)
    BY <1>1
  <2>3. Inside(i)
    BY <1>3, <2>1, <2>2
  <2>4. h[i + 1] = h[i] + Pending(open[i]) - Leaves(open[i + 1].rule)
    BY <1>0, <1>2, <2>2, <2>3 DEF Tall
  <2>. QED
    BY <1>1, <2>2, <2>4
<1>7. ASSUME Live(listener'), Inside(d - 1)'
      PROVE  Len(listener'.exprs) = h[d - 1] + Pending(open'[d - 1])
  <2>1. d - 1 \in 1..(d - 1)
    BY <1>1, <1>7 DEF Inside
  <2>2. Inside(d - 1) /\ Inside(d)
    <3>1. Inside(d - 1)
      BY <1>3, <1>7, <2>1
    <3>. QED
      BY <1>1, <3>1 DEF Inside
  <2>3. f.rule \in Held
    BY <1>0, <1>1, <2>2 DEF HeldInside
  <2>4. e = h[d] + Pending(f)
    BY <1>0, <1>2, <2>2 DEF Tall
  <2>5. h[d] = h[d - 1] + Pending(open[d - 1]) - Leaves(f.rule)
    <3>1. d - 1 + 1 = d
      BY <1>1
    <3>2. h[d - 1 + 1] = h[d - 1] + Pending(open[d - 1]) - Leaves(open[d - 1 + 1].rule)
      BY <1>0, <1>2, <2>1, <2>2 DEF Tall
    <3>. QED
      BY <3>1, <3>2
  <2>6. Shifts(listener, listener', Adds(f.rule, f.word))
    BY <1>1, <2>3, WithinExits
  <2>7. Len(listener'.exprs) = e + Adds(f.rule, f.word)
    BY <1>7, <2>6 DEF Shifts
  <2>8. /\ Put(f.rule, f.word) \in Nat /\ Took(f.rule, f.word) \in Nat /\ Leaves(f.rule) \in Nat
        /\ Pending(f) = Put(f.rule, f.word) + Took(f.rule, f.word) - 0
        /\ Adds(f.rule, f.word) = Leaves(f.rule) - (Put(f.rule, f.word) + Took(f.rule, f.word))
    BY <1>1, PendingType DEF Pending, Adds
  <2>9. h[d - 1] \in Int /\ h[d] \in Int /\ Pending(open[d - 1]) \in Int
    <3>1. open[d - 1].word \in Seq(Symbols) /\ open[d - 1].rest \in Seq(Symbols) /\ d - 1 \in Nat
      BY <1>0, <1>1, <2>1, FramesTyped
    <3>2. Len(open[d - 1].word) \in Nat /\ Len(open[d - 1].rest) \in Nat
      BY <3>1
    <3>. DEFINE o == open[d - 1]
    <3>4. Put(o.rule, o.word) \in Nat /\ Took(o.rule, o.word) \in Nat /\ Gained(o.rest) \in Nat
      BY <3>2, PendingType
    <3>5. Pending(o) = Put(o.rule, o.word) + Took(o.rule, o.word) - Gained(o.rest)
      BY DEF Pending
    <3>. HIDE DEF o
    <3>3. Pending(open[d - 1]) \in Int
      BY <3>4, <3>5 DEF o
    <3>. QED
      BY <1>1, <3>1, <3>3
  <2>10. Len(listener'.exprs) = h[d - 1] + Pending(open[d - 1])
    <3>. DEFINE p == Put(f.rule, f.word)
                t == Took(f.rule, f.word)
                l == Leaves(f.rule)
                a == h[d]
                b == h[d - 1]
                c == Pending(open[d - 1])
    <3>1. p \in Nat /\ t \in Nat /\ l \in Nat /\ a \in Int /\ b \in Int /\ c \in Int /\ a = b + c - l
      BY <2>5, <2>8, <2>9
    <3>2. Len(listener'.exprs) = (a + (p + t - 0)) + (l - (p + t))
      BY <2>4, <2>7, <2>8
    <3>. HIDE DEF p, t, l, a, b, c
    <3>3. (a + (p + t - 0)) + (l - (p + t)) = b + c
      BY <3>1
    <3>4. Len(listener'.exprs) = b + c
      BY <3>2, <3>3
    <3>. QED
      BY <3>4 DEF b, c
  <2>. QED
    BY <1>1, <2>1, <2>10
<1>8. Tall(h)'
  BY <1>0, <1>1, <1>5, <1>6, <1>7 DEF Tall
<1>. QED
  BY <1>1, <1>4, <1>8 DEF HeldInside

\* So there are heights after it.
LEMMA HeightsExited ==
  ASSUME TypeOK, Heights, Live(listener), Exits
  PROVE  Heights'
  BY TallExited DEF Heights

\* At first only the file is open.
LEMMA Begun ==
  ASSUME Init
  PROVE  /\ Len(open) = 1 /\ open[1].rule = "file" /\ open[1].rest = <<"sysl_file">>
         /\ listener.exprs = <<>>
<1>. DEFINE f == [rule |-> "file", word |-> <<>>, rest |-> <<"sysl_file">>, base |-> 0]
<1>1. open = <<f>> /\ Len(open) = 1 /\ open[1] = f /\ listener = NewTreeShapeListener
  BY DEF Init
<1>2. f.rule = "file" /\ f.rest = <<"sysl_file">>
  OBVIOUS
<1>. HIDE DEF f
<1>. QED
  BY <1>1, <1>2 DEF NewTreeShapeListener

\* No expression is open at first.
LEMMA HeightsInit == Init => Heights
<1>1. SUFFICES ASSUME Init PROVE Heights
  OBVIOUS
<1>2. Len(open) = 1 /\ \A i \in 1..1 : open[i].rule = "file"
  BY <1>1, Begun
<1>3. \A i \in 1..1 : ~Inside(i)
  BY <1>2 DEF Inside, Rims
<1>4. [k \in Nat |-> 0] \in [Nat -> Int]
  OBVIOUS
<1>5. Tall([k \in Nat |-> 0])
  BY <1>2, <1>3 DEF Tall
<1>. QED
  BY <1>2, <1>3, <1>4, <1>5 DEF Heights, HeldInside

\* A callback that fails, or no step at all, changes no height.
LEMMA HeightsStuck ==
  ASSUME Heights, open' = open, listener' = listener \/ ~Live(listener')
  PROVE  Heights'
<1>1. PICK h \in [Nat -> Int] : Tall(h)
  BY DEF Heights
<1>2. \A i : Inside(i)' <=> Inside(i)
  BY DEF Inside
<1>3. Tall(h)'
  BY <1>1, <1>2 DEF Tall
<1>. QED
  BY <1>2, <1>3 DEF Heights, HeldInside

\* So an expression that is complete has left one value.
LEMMA ExprLeavesOne ==
  ASSUME TypeOK, Heights, Live(listener), open # <<>>, Top(open).rule = "expr", Top(open).rest = <<>>
  PROVE  Len(listener.exprs) = Top(open).base + 1
<1>. DEFINE d == Len(open)
            f == open[d]
<1>1. d \in 1..d
  BY FramesTyped
<1>2. f.rule = "expr" /\ f.rest = <<>> /\ f.base \in Nat
  BY <1>1, FramesTyped DEF Top
<1>3. PICK h \in [Nat -> Int] : Tall(h)
  BY DEF Heights
<1>4. Inside(d)
  BY <1>1, <1>2 DEF Inside, Rims
<1>5. h[d] = f.base /\ Len(listener.exprs) = h[d] + Pending(f)
  BY <1>1, <1>2, <1>3, <1>4 DEF Tall
<1>6. Put(f.rule, f.word) = 0 /\ Took(f.rule, f.word) = 1
  BY <1>2 DEF Put, Took, Chains, Ones
<1>7. Gained(f.rest) = 0
  <2>1. <<>> \in Seq({}) /\ {} \cap Gainers = {}
    OBVIOUS
  <2>. QED
    BY <1>2, <2>1, GainedNone
<1>. QED
  BY <1>2, <1>5, <1>6, <1>7 DEF Pending, Top

-----------------------------------------------------------------------------
\* The rules from the file down to the block of a view

\* Each open rule stands in a word of the one around it.
Lineage == \A i \in 1..(Len(open) - 1) : MayHave(open[i].rule, open[i + 1].rule)

Stands(r, n) == \A i \in 1..Len(open) : open[i].rule = r => i = n

Levels ==
  /\ Stands("file", 1) /\ Stands("sysl_file", 2) /\ Stands("application", 3)
  /\ Stands("app_decl", 4) /\ Stands("view", 5) /\ Stands("expr_block", 6)
  /\ \A i \in 1..Len(open) : open[i].rule \in Body => i >= 6 /\ open[6].rule = "expr_block"

\* The block of a view comes last; an abstract view has none.
BlockLast ==
  \A i \in 1..Len(open) : open[i].rule = "view" =>
    /\ Has(open[i].word, "abstract_view") => ~Has(open[i].rest, "expr_block")
    /\ ~Has(open[i].word, "abstract_view")
         => \A k \in 1..Len(open[i].rest) : open[i].rest[k] = "expr_block" <=> k = Len(open[i].rest)

BlockOpen == \A i \in 1..(Len(open) - 1) : Spent(open[i]) <=> open[i + 1].rule = "expr_block"

Singles ==
  \A i \in 1..Len(open) : open[i].rule \in Single =>
    Len(open[i].rest) <= 1 /\ (i < Len(open) => open[i].rest = <<>>)

Skeleton == Lineage /\ Levels /\ BlockLast /\ BlockOpen /\ Singles

\* The file is the innermost rule at first.
LEMMA SkeletonInit == Init => Skeleton
<1>1. SUFFICES ASSUME Init PROVE Skeleton
  OBVIOUS
<1>2. Len(open) = 1 /\ \A i \in 1..1 : open[i].rule = "file"
  BY <1>1, Begun
<1>3. "file" \notin Body \cup Single
  BY DEF Body, Inner, Gainers, Neutral, Outer, Assigns, Single
<1>. QED
  BY <1>2, <1>3 DEF Skeleton, Lineage, Levels, Stands, BlockLast, BlockOpen, Singles

\* The skeleton is about the open rules alone.
LEMMA SkeletonStuck ==
  ASSUME Skeleton, open' = open
  PROVE  Skeleton'
  BY DEF Skeleton, Lineage, Levels, Stands, BlockLast, BlockOpen, Singles

\* Exiting the innermost rule leaves the skeleton of the others.
LEMMA SkeletonExited ==
  ASSUME TypeOK, Skeleton, Exits
  PROVE  Skeleton'
<1>0. PICK d \in Nat : d = Len(open)
  BY FramesTyped
<1>1. d > 0 /\ Len(open') = d - 1 /\ \A i \in 1..(d - 1) : i \in 1..d /\ open'[i] = open[i]
  BY <1>0, ExitedFrames
<1>2. \A i \in 1..(d - 1 - 1) : i \in 1..(d - 1) /\ i + 1 \in 1..(d - 1)
  BY <1>1
<1>3. Lineage' /\ BlockOpen'
  BY <1>0, <1>1, <1>2 DEF Skeleton, Lineage, BlockOpen, Spent
<1>4. \A r, n : Stands(r, n) => Stands(r, n)'
  BY <1>0, <1>1 DEF Stands
<1>5. \A i \in 1..(d - 1) : open'[i].rule \in Body => i >= 6 /\ open'[6].rule = "expr_block"
  <2>1. SUFFICES ASSUME NEW i \in 1..(d - 1), open'[i].rule \in Body
                 PROVE  i >= 6 /\ open'[6].rule = "expr_block"
    OBVIOUS
  <2>2. i >= 6 /\ open[6].rule = "expr_block"
    BY <1>0, <1>1, <2>1 DEF Skeleton, Levels
  <2>3. 6 \in 1..(d - 1)
    BY <1>1, <2>2
  <2>. QED
    BY <1>1, <2>2, <2>3
<1>6. Levels'
  <2>1. Stands("file", 1)' /\ Stands("sysl_file", 2)' /\ Stands("application", 3)'
    BY <1>4 DEF Skeleton, Levels
  <2>2. Stands("app_decl", 4)' /\ Stands("view", 5)' /\ Stands("expr_block", 6)'
    BY <1>4 DEF Skeleton, Levels
  <2>. QED
    BY <1>1, <1>5, <2>1, <2>2 DEF Levels
<1>7. BlockLast'
  BY <1>0, <1>1 DEF Skeleton, BlockLast
<1>8. Singles'
  BY <1>0, <1>1 DEF Skeleton, Singles
<1>. QED
  BY <1>3, <1>6, <1>7, <1>8 DEF Skeleton

\* A rule that is entered stands where the grammar has it.
LEMMA SkeletonEntered ==
  ASSUME TypeOK, RestsFit, Skeleton, NEW n, NEW r, NEW w, Enters(n, r, w)
  PROVE  Skeleton'
<1>0. PICK d \in Nat : d = Len(open)
  BY FramesTyped
<1>. DEFINE p == open[d].rule
            rest == open[d].rest
<1>1. /\ d > 0 /\ d \in 1..d /\ Len(open') = d + 1 /\ d + 1 \in Nat
      /\ open'[d + 1].rule = r /\ open'[d + 1].rest = w /\ open'[d + 1].word = Frame(r, w).word
      /\ \A i \in 1..d : open'[i].rule = open[i].rule /\ open'[i].word = open[i].word
      /\ \A i \in 1..(d - 1) : open'[i].rest = open[i].rest
  BY <1>0, EnteredFrames
<1>2. r \in Rules /\ w \in Grammar[r] /\ p \in Rules \cup {"file"} /\ MayHave(p, r)
  BY <1>0, EnteredFrames
<1>3. n \in 1..Len(rest) /\ r = rest[n] /\ open'[d].rest = SubSeq(rest, n + 1, Len(rest))
      /\ rest \in Seq(Symbols)
  BY <1>0, EnteredFrames
<1>4. /\ Len(open'[d].rest) = Len(rest) - n /\ Len(rest) \in Nat /\ n \in Nat
      /\ \A k \in 1..(Len(rest) - n) : n + k \in 1..Len(rest) /\ open'[d].rest[k] = rest[n + k]
      /\ open'[d].rest = <<>> <=> n = Len(rest)
  <2>1. open'[d].rest \in Seq(Symbols)
    BY <1>0, EnteredFrames
  <2>2. /\ Len(open'[d].rest) = Len(rest) - n /\ Len(rest) \in Nat
        /\ \A k \in 1..(Len(rest) - n) : n + k \in 1..Len(rest) /\ open'[d].rest[k] = rest[n + k]
    BY <1>3, RestOfWord
  <2>3. open'[d].rest = <<>> <=> Len(open'[d].rest) = 0
    BY <2>1
  <2>4. n \in Nat
    BY <1>3, <2>2
  <2>. QED
    BY <2>2, <2>3, <2>4
<1>5. /\ r \in Body => p \in Body \/ (p = "view" /\ r = "expr_block")
      /\ r = "expr_block" => p = "view"
      /\ r = "view" => p = "app_decl"
      /\ r = "app_decl" => p = "application"
      /\ r = "application" => p = "sysl_file"
      /\ r = "sysl_file" => p = "file"
      /\ r # "file"
  BY <1>2, BodyParents
<1>. HIDE DEF p, rest
<1>6. /\ p = "file" => d = 1
      /\ p = "sysl_file" => d = 2
      /\ p = "application" => d = 3
      /\ p = "app_decl" => d = 4
      /\ p = "view" => d = 5
      /\ p \in Body => d >= 6 /\ open[6].rule = "expr_block"
  BY <1>0, <1>1 DEF p, Skeleton, Levels, Stands
<1>7. Lineage'
  <2>1. SUFFICES ASSUME NEW i \in 1..d PROVE MayHave(open'[i].rule, open'[i + 1].rule)
    BY <1>1 DEF Lineage
  <2>2. CASE i = d
    BY <1>1, <1>2, <2>2 DEF p
  <2>3. CASE i # d
    <3>1. i \in 1..(d - 1) /\ i + 1 \in 1..d
      BY <2>3
    <3>2. MayHave(open[i].rule, open[i + 1].rule)
      BY <1>0, <3>1 DEF Skeleton, Lineage
    <3>. QED
      BY <1>1, <3>1, <3>2
  <2>. QED
    BY <2>2, <2>3
<1>8. \A x, m : Stands(x, m) /\ (r = x => d + 1 = m) => Stands(x, m)'
  <2>0. SUFFICES ASSUME NEW x, NEW m, Stands(x, m), r = x => d + 1 = m PROVE Stands(x, m)'
    OBVIOUS
  <2>1. SUFFICES ASSUME NEW i \in 1..(d + 1), open'[i].rule = x PROVE i = m
    BY <1>1 DEF Stands
  <2>2. CASE i = d + 1
    BY <1>1, <2>0, <2>1, <2>2
  <2>3. CASE i \in 1..d
    BY <1>0, <1>1, <2>0, <2>1, <2>3 DEF Stands
  <2>. QED
    BY <2>2, <2>3
<1>9. Levels'
  <2>1. Stands("file", 1)' /\ Stands("sysl_file", 2)' /\ Stands("application", 3)'
    BY <1>5, <1>6, <1>8 DEF Skeleton, Levels
  <2>2. Stands("app_decl", 4)' /\ Stands("view", 5)' /\ Stands("expr_block", 6)'
    BY <1>5, <1>6, <1>8 DEF Skeleton, Levels
  <2>3. \A i \in 1..(d + 1) : open'[i].rule \in Body => i >= 6 /\ open'[6].rule = "expr_block"
    <3>1. SUFFICES ASSUME NEW i \in 1..(d + 1), open'[i].rule \in Body
                   PROVE  i >= 6 /\ open'[6].rule = "expr_block"
      OBVIOUS
    <3>2. CASE i \in 1..d
      <4>1. i >= 6 /\ open[6].rule = "expr_block"
        BY <1>0, <1>1, <3>1, <3>2 DEF Skeleton, Levels
      <4>2. 6 \in 1..d
        BY <3>2, <4>1
      <4>. QED
        BY <1>1, <4>1, <4>2
    <3>3. CASE i = d + 1 /\ p \in Body
      <4>1. 6 \in 1..d
        BY <1>6, <3>3
      <4>. QED
        BY <1>1, <1>6, <3>3, <4>1
    <3>4. CASE i = d + 1 /\ p = "view" /\ r = "expr_block"
      BY <1>1, <1>6, <3>4
    <3>. QED
      BY <1>1, <1>5, <3>1, <3>2, <3>3, <3>4
  <2>. QED
    BY <1>1, <2>1, <2>2, <2>3 DEF Levels
<1>10. BlockLast'
  <2>1. SUFFICES ASSUME NEW i \in 1..(d + 1), open'[i].rule = "view"
                 PROVE  /\ Has(open'[i].word, "abstract_view") => ~Has(open'[i].rest, "expr_block")
                        /\ ~Has(open'[i].word, "abstract_view")
                             => \A k \in 1..Len(open'[i].rest) :
                                  open'[i].rest[k] = "expr_block" <=> k = Len(open'[i].rest)
    BY <1>1 DEF BlockLast
  <2>2. CASE i = d + 1
    <3>1. r = "view" /\ open'[i].word = w /\ open'[i].rest = w
      BY <1>1, <2>1, <2>2 DEF Frame, LooksBack
    <3>. QED
      BY <1>2, <3>1, ViewWords
  <2>3. CASE i = d
    <3>1. /\ p = "view" /\ open'[i].word = open[d].word
          /\ Has(open[d].word, "abstract_view") => ~Has(rest, "expr_block")
          /\ ~Has(open[d].word, "abstract_view")
               => \A k \in 1..Len(rest) : rest[k] = "expr_block" <=> k = Len(rest)
      BY <1>0, <1>1, <2>1, <2>3 DEF Skeleton, BlockLast, p, rest
    <3>2. Has(open'[d].rest, "expr_block") => Has(rest, "expr_block")
      BY <1>4 DEF Has
    <3>3. ASSUME NEW k \in 1..Len(open'[d].rest), ~Has(open[d].word, "abstract_view")
          PROVE  open'[d].rest[k] = "expr_block" <=> k = Len(open'[d].rest)
      <4>1. k \in 1..(Len(rest) - n) /\ n + k \in 1..Len(rest) /\ open'[d].rest[k] = rest[n + k]
        BY <1>4, <3>3
      <4>2. n + k = Len(rest) <=> k = Len(rest) - n
        BY <1>4, <4>1
      <4>. QED
        BY <1>4, <3>1, <3>3, <4>1, <4>2
    <3>. QED
      BY <2>3, <3>1, <3>2, <3>3
  <2>4. CASE i \in 1..(d - 1)
    <3>1. i \in 1..d
      BY <2>4
    <3>. QED
      BY <1>0, <1>1, <2>1, <2>4, <3>1 DEF Skeleton, BlockLast
  <2>. QED
    BY <2>2, <2>3, <2>4
<1>11. BlockOpen'
  <2>1. SUFFICES ASSUME NEW i \in 1..d PROVE Spent(open'[i]) <=> open'[i + 1].rule = "expr_block"
    BY <1>1 DEF BlockOpen
  <2>2. CASE i = d
    <3>1. Spent(open'[d]) <=> p = "view" /\ ~Has(open[d].word, "abstract_view") /\ n = Len(rest)
      BY <1>1, <1>4 DEF Spent, p
    <3>2. p = "view" =>
            /\ Has(open[d].word, "abstract_view") => ~Has(rest, "expr_block")
            /\ ~Has(open[d].word, "abstract_view")
                 => \A k \in 1..Len(rest) : rest[k] = "expr_block" <=> k = Len(rest)
      BY <1>0, <1>1 DEF Skeleton, BlockLast, p, rest
    <3>3. r = "expr_block" => Has(rest, "expr_block")
      BY <1>3 DEF Has
    <3>4. Spent(open'[d]) <=> r = "expr_block"
      BY <1>3, <1>5, <3>1, <3>2, <3>3
    <3>. QED
      BY <1>1, <2>2, <3>4
  <2>3. CASE i # d
    <3>1. i \in 1..(d - 1) /\ i + 1 \in 1..d
      BY <2>3
    <3>2. Spent(open[i]) <=> open[i + 1].rule = "expr_block"
      BY <1>0, <3>1 DEF Skeleton, BlockOpen
    <3>3. Spent(open'[i]) <=> Spent(open[i])
      BY <1>1, <3>1 DEF Spent
    <3>. QED
      BY <1>1, <3>1, <3>2, <3>3
  <2>. QED
    BY <2>2, <2>3
<1>12. Singles'
  <2>1. SUFFICES ASSUME NEW i \in 1..(d + 1), open'[i].rule \in Single
                 PROVE  Len(open'[i].rest) <= 1 /\ (i < d + 1 => open'[i].rest = <<>>)
    BY <1>1 DEF Singles
  <2>2. CASE i = d + 1
    <3>1. r \in Single /\ open'[i].rest = w
      BY <1>1, <2>1, <2>2
    <3>2. Len(w) = 1
      BY <1>2, <3>1, SingleWords
    <3>. QED
      BY <2>2, <3>1, <3>2
  <2>3. CASE i = d
    <3>1. Len(rest) <= 1
      BY <1>0, <1>1, <2>1, <2>3 DEF Skeleton, Singles, rest
    <3>2. n = Len(rest)
      BY <1>3, <1>4, <3>1
    <3>. QED
      BY <1>4, <2>3, <3>2
  <2>4. CASE i \in 1..(d - 1)
    <3>1. i \in 1..d /\ i < d
      BY <2>4
    <3>2. Len(open[i].rest) <= 1 /\ open[i].rest = <<>>
      BY <1>0, <1>1, <2>1, <3>1 DEF Skeleton, Singles
    <3>. QED
      BY <1>1, <2>4, <3>2
  <2>. QED
    BY <2>2, <2>3, <2>4
<1>. QED
  BY <1>7, <1>9, <1>10, <1>11, <1>12 DEF Skeleton

-----------------------------------------------------------------------------
\* The transforms on the stack of expressions

InBlock == Len(open) >= 6 /\ open[6].rule = "expr_block"

\* The transforms on the stack are open, or one more is complete and goes to the rule on top.
Bound ==
  \E k \in 0..Len(listener.exprs) :
    /\ Stacked(listener.exprs, k)
    /\ \/ k <= Opened({"transform"})
       \/ /\ Done(open[Len(open)])
          /\ k = Len(listener.exprs) /\ k <= Opened({"transform"}) + 1

BodyTop(i) == \A j \in (i + 1)..Len(open) : open[j].rule \notin Body

Clean ==
  \A i \in 1..Len(open) : ClearAt(open[i]) /\ BodyTop(i) =>
    /\ AllTransforms(listener.exprs)
    /\ open[i].rule # "expr_block" => listener.exprs # <<>>

BlockDone ==
  open[Len(open)].rule = "expr_block" /\ open[Len(open)].rest = <<>> => listener.exprs # <<>>

\* A block leaves one value for its view, and nothing else is ever left outside of blocks.
Bodies ==
  Live(listener) =>
    IF InBlock
      THEN Bound /\ Clean /\ BlockDone
      ELSE Len(listener.exprs) = IF open # <<>> /\ Spent(open[Len(open)]) THEN 1 ELSE 0

\* The stack is empty at first.
LEMMA BodiesInit == Init => Bodies
<1>1. SUFFICES ASSUME Init PROVE Bodies
  OBVIOUS
<1>2. Len(open) = 1 /\ open[1].rule = "file" /\ listener.exprs = <<>>
  BY <1>1, Begun
<1>3. ~InBlock /\ ~Spent(open[Len(open)]) /\ Len(listener.exprs) = 0
  BY <1>2 DEF InBlock, Spent
<1>. QED
  BY <1>3 DEF Bodies

\* A callback that fails, or no step at all, moves no transform.
LEMMA BodiesStuck ==
  ASSUME Bodies, open' = open, listener' = listener \/ ~Live(listener')
  PROVE  Bodies'
  BY DEF Bodies, InBlock, Bound, Clean, BodyTop, BlockDone, Opened, Among

\* Entering a rule pushes a transform where there are only transforms, or above them all.
LEMMA BodiesEntered ==
  ASSUME TypeOK, RestsFit, Skeleton, Bodies, Live(listener), listener' \in Listener,
         NEW n, NEW r, NEW w, Enters(n, r, w)
  PROVE  Bodies'
<1>1. SUFFICES ASSUME Live(listener') PROVE Bodies'
  BY DEF Bodies
<1>2. PICK d \in Nat : d = Len(open)
  BY FramesTyped
<1>3. PICK e : e = listener.exprs
  OBVIOUS
<1>4. PICK x : x = listener'.exprs
  OBVIOUS
<1>. DEFINE p == open[d].rule
            rest == open[d].rest
            T == Opened({"transform"})
<1>5. /\ d > 0 /\ d \in 1..d /\ Len(open') = d + 1 /\ d + 1 \in Nat
      /\ open'[d + 1].rule = r /\ open'[d + 1].rest = w /\ open'[d + 1].word = Frame(r, w).word
      /\ \A i \in 1..d : open'[i].rule = open[i].rule /\ open'[i].word = open[i].word
  BY <1>2, EnteredFrames
<1>6. r \in Rules /\ w \in Grammar[r] /\ p \in Rules \cup {"file"} /\ MayHave(p, r)
      /\ listener \in Listener /\ listener' \in Entered(listener, r, w)
  BY <1>2, EnteredFrames
<1>7. rest # <<>>
  <2>1. n \in 1..Len(rest)
    BY <1>2, EnteredFrames
  <2>. QED
    BY <2>1
<1>8. e \in Seq(AnyExpr) /\ x \in Seq(AnyExpr) /\ Len(e) \in Nat /\ Len(x) \in Nat
  <2>1. e \in Seq(AnyExpr) /\ x \in Seq(AnyExpr)
    BY <1>3, <1>4, <1>6, ListenerTypes
  <2>. QED
    BY <2>1
<1>9. r \notin Pushers \cup {"transform", "template_statement"} => x = e
  BY <1>3, <1>4, <1>6, StillEnters
<1>10. T \in Nat /\ T' = IF r = "transform" THEN T + 1 ELSE T
  BY <1>2, OpenFinite, OpenedEntered
<1>11. r \in Body => p \in Body \/ (p = "view" /\ r = "expr_block")
  BY <1>6, BodyParents
<1>12. ~Spent(open[d]) /\ ~Done(open[d])
  BY <1>7 DEF Spent, Done
<1>13. /\ InBlock' <=> InBlock \/ (d = 5 /\ r = "expr_block")
       /\ p \in Body => InBlock
       /\ r = "expr_block" => p = "view" /\ d = 5 /\ ~InBlock
       /\ r = "view" => ~InBlock
  <2>1. InBlock' <=> d + 1 >= 6 /\ open'[6].rule = "expr_block"
    BY <1>5 DEF InBlock
  <2>2. InBlock <=> d >= 6 /\ open[6].rule = "expr_block"
    BY <1>2 DEF InBlock
  <2>3. d >= 6 => open'[6].rule = open[6].rule
    BY <1>5
  <2>4. (r = "expr_block" => p = "view") /\ (r = "view" => p = "app_decl")
    BY <1>6, BodyParents
  <2>5. /\ p = "view" => d = 5
        /\ p = "app_decl" => d = 4
        /\ p \in Body => d >= 6 /\ open[6].rule = "expr_block"
    BY <1>2, <1>5 DEF Skeleton, Levels, Stands
  <2>. HIDE DEF p
  <2>6. d = 5 => open'[6].rule = r
    BY <1>5
  <2>. QED
    BY <2>1, <2>2, <2>3, <2>4, <2>5, <2>6
<1>. HIDE DEF p, rest, T
<1>14. CASE ~InBlock /\ r # "expr_block"
  <2>1. r \notin Body /\ ~InBlock'
    BY <1>11, <1>13, <1>14
  <2>2. x = e
    <3>1. r \notin Pushers \cup {"transform", "template_statement"}
      BY <2>1 DEF Pushers, Body, Inner, Gainers, Neutral, Outer
    <3>. QED
      BY <1>9, <3>1
  <2>3. Len(e) = 0
    BY <1>2, <1>3, <1>12, <1>14 DEF Bodies
  <2>4. ~Spent(open'[d + 1])
    <3>1. SUFFICES ASSUME r = "view" PROVE w # <<>>
      BY <1>5 DEF Spent
    <3>2. Len(w) # 0
      BY <1>6, <3>1, ViewWords
    <3>. QED
      BY <3>2
  <2>. QED
    BY <1>4, <1>5, <2>1, <2>2, <2>3, <2>4 DEF Bodies
<1>15. CASE r = "expr_block"
  <2>1. x = e
    BY <1>9, <1>15 DEF Pushers
  <2>2. Len(e) = 0
    BY <1>2, <1>3, <1>12, <1>13, <1>15 DEF Bodies
  <2>3. InBlock'
    BY <1>13, <1>15
  <2>4. Stacked(x, 0)
    BY <2>1, <2>2 DEF Stacked
  <2>5. Bound'
    BY <1>4, <1>10, <1>15, <2>1, <2>2, <2>4 DEF Bound, T
  <2>6. Clean'
    <3>1. SUFFICES ASSUME NEW i \in 1..(d + 1), ClearAt(open'[i]) PROVE open'[i].rule = "expr_block"
      BY <1>4, <1>5, <2>1, <2>2, <2>4 DEF Clean, AllTransforms
    <3>2. CASE i \in 1..d
      <4>1. open[i].rule \in Body
        BY <1>5, <3>1, <3>2 DEF ClearAt, Clear, Single, Assigns, Body, Outer
      <4>2. i >= 6 /\ d = 5
        BY <1>2, <1>13, <1>15, <3>2, <4>1 DEF Skeleton, Levels
      <4>. QED
        BY <3>2, <4>2
    <3>. QED
      BY <1>5, <1>15, <3>1, <3>2
  <2>7. BlockDone'
    <3>1. Len(w) = 1
      BY <1>6, <1>15, SingleWords DEF Single
    <3>2. w # <<>>
      BY <3>1
    <3>. QED
      BY <1>5, <3>2 DEF BlockDone
  <2>. QED
    BY <2>3, <2>5, <2>6, <2>7 DEF Bodies
<1>16. CASE InBlock
  <2>1. Bound /\ Clean /\ InBlock' /\ r # "expr_block" /\ r # "view"
    BY <1>13, <1>16 DEF Bodies
  <2>2. PICK k \in 0..Len(e) : Stacked(e, k) /\ k <= T
    BY <1>2, <1>3, <1>12, <2>1 DEF Bound, T
  <2>3. BlockDone'
    BY <1>5, <2>1 DEF BlockDone
  <2>4. ASSUME r # "transform" PROVE Bound'
    <3>1. Settles(listener, listener')
      BY <1>1, <1>6, <2>4, EnterSettles
    <3>2. PICK m \in 0..k : Stacked(x, m)
      BY <1>3, <1>4, <2>2, <3>1 DEF Settles
    <3>3. m \in 0..Len(x) /\ m <= T
      BY <1>10, <2>2, <3>2 DEF Stacked
    <3>. QED
      BY <1>4, <1>10, <2>4, <3>2, <3>3 DEF Bound, T
  <2>5. ASSUME r \in Clear \/ r = "transform"
        PROVE  AllTransforms(e) /\ (p # "expr_block" => e # <<>>)
    <3>1. r \in Body /\ p \in Body
      <4>1. r \in Body
        BY <2>5 DEF Clear, Single, Assigns, Body, Outer
      <4>. QED
        BY <1>11, <2>1, <4>1
    <3>2. p \in Clear
      <4>1. r \in Clear
        BY <2>5 DEF Clear
      <4>. QED
        BY <1>6, <3>1, <4>1, ClearParents
    <3>3. ClearAt(open[d])
      BY <1>7, <3>2 DEF ClearAt, p, rest
    <3>4. BodyTop(d)
      BY <1>2 DEF BodyTop
    <3>. QED
      BY <1>2, <1>3, <1>5, <2>1, <3>3, <3>4 DEF Clean, p
  <2>6. CASE r = "transform"
    <3>1. AllTransforms(e)
      BY <2>5, <2>6
    <3>2. listener' = EnterTransform(listener)
      BY <1>6, <2>6, OuterEnters DEF Entered
    <3>3. Len(x) = Len(e) + 1 /\ Stacked(x, Len(x))
      BY <1>3, <1>4, <1>6, <3>1, <3>2, EnterTransformStacks DEF AllTransforms
    <3>4. k = Len(e)
      BY <1>8, <2>2, <3>1, AllOfThem
    <3>5. Len(x) <= T + 1 /\ Len(x) \in 0..Len(x)
      BY <1>8, <1>10, <2>2, <3>3, <3>4
    <3>6. Bound'
      BY <1>4, <1>10, <2>6, <3>3, <3>5 DEF Bound, T
    <3>7. Clean'
      <4>1. x # <<>>
        BY <1>8, <3>3
      <4>. QED
        BY <1>4, <3>3, <4>1 DEF Clean, AllTransforms
    <3>. QED
      BY <2>1, <2>3, <3>6, <3>7 DEF Bodies
  <2>7. CASE r # "transform"
    <3>1. ASSUME NEW i \in 1..(d + 1), ClearAt(open'[i]), BodyTop(i)'
          PROVE  AllTransforms(x) /\ (open'[i].rule # "expr_block" => x # <<>>)
      <4>1. \A j \in (i + 1)..(d + 1) : open'[j].rule \notin Body
        BY <1>5, <3>1 DEF BodyTop
      <4>2. CASE i = d + 1
        <5>1. r \in Clear
          BY <1>5, <3>1, <4>2 DEF ClearAt
        <5>2. r \notin Pushers \cup {"transform", "template_statement"}
          BY <2>7, <5>1 DEF Clear, Single, Assigns, Pushers
        <5>3. p # "expr_block"
          <6>1. p = "expr_block" => r = "transform"
            BY <1>6, OuterChildren
          <6>. QED
            BY <2>7, <6>1
        <5>. QED
          BY <1>9, <2>5, <5>1, <5>2, <5>3
      <4>3. CASE i \in 1..d
        <5>1. r \notin Body
          <6>1. d + 1 \in (i + 1)..(d + 1)
            BY <1>5, <4>3
          <6>. QED
            BY <1>5, <4>1, <6>1
        <5>2. x = e
          <6>1. r \notin Pushers \cup {"transform", "template_statement"}
            BY <5>1 DEF Pushers, Body, Inner, Gainers, Neutral, Outer
          <6>. QED
            BY <1>9, <6>1
        <5>3. BodyTop(i)
          <6>1. \A j \in (i + 1)..d : j \in (i + 1)..(d + 1) /\ j \in 1..d
            BY <4>3
          <6>. QED
            BY <1>2, <1>5, <4>1, <6>1 DEF BodyTop
        <5>4. ClearAt(open[i])
          <6>1. open'[i].rule = open[i].rule
            BY <1>5, <4>3
          <6>2. i < d => open'[i].rest = open[i].rest
            BY <1>2, <4>3, EnteredFrames
          <6>3. i = d => open[i].rest # <<>>
            BY <1>7 DEF rest
          <6>. QED
            BY <3>1, <4>3, <6>1, <6>2, <6>3 DEF ClearAt
        <5>. QED
          BY <1>2, <1>3, <1>5, <2>1, <4>3, <5>2, <5>3, <5>4 DEF Clean
      <4>. QED
        BY <4>2, <4>3
    <3>2. Clean'
      BY <1>4, <1>5, <3>1 DEF Clean
    <3>. QED
      BY <2>1, <2>3, <2>4, <2>7, <3>2 DEF Bodies
  <2>. QED
    BY <2>6, <2>7
<1>. QED
  BY <1>14, <1>15, <1>16

\* Exiting a rule takes the transform that is complete, or leaves it to the rule around.
LEMMA BodiesExited ==
  ASSUME TypeOK, RestsFit, Skeleton, Bodies, Live(listener), listener' \in Listener,
         open' \in Seq(Frames), Exits
  PROVE  Bodies'
<1>1. SUFFICES ASSUME Live(listener') PROVE Bodies'
  BY DEF Bodies
<1>2. PICK d \in Nat : d = Len(open)
  BY FramesTyped
<1>3. PICK e : e = listener.exprs
  OBVIOUS
<1>4. PICK x : x = listener'.exprs
  OBVIOUS
<1>. DEFINE r == open[d].rule
            w == open[d].word
            rest == open[d].rest
            p == open[d - 1].rule
            T == Opened({"transform"})
<1>5. /\ d > 0 /\ d \in 1..d /\ Len(open') = d - 1
      /\ \A i \in 1..(d - 1) : i \in 1..d /\ open'[i] = open[i]
      /\ r \in Rules \cup {"file"} /\ Len(w) \in Nat /\ rest \in Seq(Symbols)
      /\ \A k \in 1..Len(rest) : rest[k] \notin Rules
      /\ listener \in Listener /\ listener' = Exit(listener, r, w)
  BY <1>2, ExitedFrames
<1>6. e \in Seq(AnyExpr) /\ x \in Seq(AnyExpr) /\ Len(e) \in Nat /\ Len(x) \in Nat
  <2>1. e \in Seq(AnyExpr) /\ x \in Seq(AnyExpr)
    BY <1>3, <1>4, <1>5, ListenerTypes
  <2>. QED
    BY <2>1
<1>7. Len(rest) \in Nat /\ (rest = <<>> <=> Len(rest) = 0)
  BY <1>5
<1>8. T \in Nat /\ T' = IF r = "transform" THEN T - 1 ELSE T
  <2>1. Top(open).rule = r
    BY <1>2 DEF Top
  <2>. QED
    BY <1>2, <2>1, OpenFinite, OpenedExited
<1>9. r \in Single => rest = <<>>
  <2>1. SUFFICES ASSUME r \in Single, rest # <<>> PROVE FALSE
    OBVIOUS
  <2>2. 1 \in 1..Len(rest)
    BY <1>7, <2>1
  <2>3. MayHave(r, rest[1])
    BY <1>2, <1>5, <2>2 DEF RestsFit
  <2>4. rest[1] \in {"transform", "expr_assign", "expr"}
    BY <2>1, <2>3, OuterChildren DEF Single
  <2>5. {"transform", "expr_assign", "expr"} \subseteq Body /\ Body \subseteq Rules
    BY BodyDeep DEF Body, Inner, Gainers, Neutral, Outer, Assigns
  <2>. QED
    BY <1>5, <2>2, <2>4, <2>5
<1>10. d > 1 => /\ d - 1 \in 1..(d - 1) /\ d - 1 \in 1..d /\ d - 1 + 1 = d
                /\ open'[d - 1] = open[d - 1] /\ MayHave(p, r) /\ p \in Rules \cup {"file"}
                /\ p \in Single => open[d - 1].rest = <<>>
                /\ Spent(open[d - 1]) <=> r = "expr_block"
  <2>1. SUFFICES ASSUME d > 1
                 PROVE  /\ d - 1 \in 1..(d - 1) /\ d - 1 \in 1..d /\ d - 1 + 1 = d
                        /\ open'[d - 1] = open[d - 1] /\ MayHave(p, r) /\ p \in Rules \cup {"file"}
                        /\ p \in Single => open[d - 1].rest = <<>>
                        /\ Spent(open[d - 1]) <=> r = "expr_block"
    OBVIOUS
  <2>2. d - 1 \in 1..(d - 1) /\ d - 1 \in 1..d /\ d - 1 + 1 = d /\ d - 1 < d
    BY <2>1
  <2>3. MayHave(p, r)
    BY <1>2, <2>2 DEF Skeleton, Lineage
  <2>4. p \in Rules \cup {"file"}
    BY <1>2, <2>2, FramesTyped
  <2>5. p \in Single => open[d - 1].rest = <<>>
    BY <1>2, <2>2 DEF Skeleton, Singles
  <2>6. Spent(open[d - 1]) <=> r = "expr_block"
    BY <1>2, <2>2 DEF Skeleton, BlockOpen
  <2>. QED
    BY <1>5, <2>2, <2>3, <2>4, <2>5, <2>6
<1>11. /\ r \in Body => d >= 6 /\ open[6].rule = "expr_block"
       /\ r = "view" => d = 5
       /\ r = "expr_block" => d = 6
  BY <1>2, <1>5 DEF Skeleton, Levels, Stands
<1>12. InBlock <=> d >= 6 /\ open[6].rule = "expr_block"
  BY <1>2 DEF InBlock
<1>13. InBlock' <=> InBlock /\ d > 6
  <2>1. InBlock' <=> d - 1 >= 6 /\ open'[6].rule = "expr_block"
    BY <1>5 DEF InBlock
  <2>2. d > 6 => open'[6] = open[6]
    BY <1>5
  <2>3. d - 1 >= 6 <=> d > 6
    OBVIOUS
  <2>4. d > 6 => d >= 6
    OBVIOUS
  <2>. QED
    BY <1>12, <2>1, <2>2, <2>3, <2>4
<1>14. d = 1 => open' = <<>>
  BY <1>5
<1>15. open' # <<>> => d > 1
  BY <1>5, <1>14
<1>. HIDE DEF r, w, rest, p, T
<1>16. CASE ~InBlock
  <2>1. r \notin Body /\ ~InBlock'
    BY <1>11, <1>12, <1>13, <1>16
  <2>2. Len(e) = IF Spent(open[d]) THEN 1 ELSE 0
    <3>1. open # <<>>
      BY <1>2, <1>5
    <3>. QED
      BY <1>2, <1>3, <1>16, <3>1 DEF Bodies
  <2>3. ~(open' # <<>> /\ Spent(open'[Len(open')]))
    <3>1. "expr_block" \in Body
      BY DEF Body, Outer
    <3>. QED
      BY <1>5, <1>10, <1>15, <2>1, <3>1
  <2>4. Len(x) = 0
    <3>1. CASE r # "view"
      <4>1. x = e
        BY <1>3, <1>4, <1>5, <2>1, <3>1, StillExits
      <4>2. ~Spent(open[d])
        BY <3>1 DEF Spent, r
      <4>. QED
        BY <2>2, <4>1, <4>2
    <3>2. CASE r = "view"
      <4>1. listener' = ExitView(listener, w)
        BY <1>5, <3>2, OuterExits
      <4>2. Len(x) = Len(e) - (IF Has(w, "abstract_view") THEN 0 ELSE 1)
        BY <1>1, <1>3, <1>4, <1>5, <4>1, ExitViewPops
      <4>3. Has(w, "abstract_view") => ~Spent(open[d])
        BY DEF Spent, w
      <4>4. ASSUME ~Has(w, "abstract_view") PROVE rest = <<>>
        <5>1. SUFFICES ASSUME rest # <<>> PROVE FALSE
          OBVIOUS
        <5>2. Len(rest) \in 1..Len(rest)
          BY <1>7, <5>1
        <5>3. rest[Len(rest)] = "expr_block"
          BY <1>2, <1>5, <3>2, <4>4, <5>2 DEF Skeleton, BlockLast, r, w, rest
        <5>4. "expr_block" \in Body /\ Body \subseteq Rules
          BY BodyDeep DEF Body, Outer
        <5>. QED
          BY <1>5, <5>2, <5>3, <5>4
      <4>5. ~Has(w, "abstract_view") => Spent(open[d])
        BY <3>2, <4>4 DEF Spent, r, w, rest
      <4>. QED
        BY <2>2, <4>2, <4>3, <4>5
    <3>. QED
      BY <3>1, <3>2
  <2>. QED
    BY <1>4, <2>1, <2>3, <2>4 DEF Bodies
<1>17. ASSUME InBlock PROVE Bound /\ Clean /\ BlockDone
  BY <1>17 DEF Bodies
<1>18. ASSUME InBlock, r \in Clear, r \notin Single \ {"expr_block"}
       PROVE  AllTransforms(e) /\ (r # "expr_block" => e # <<>>)
  <2>1. BodyTop(d)
    BY <1>2 DEF BodyTop
  <2>2. ClearAt(open[d])
    BY <1>18 DEF ClearAt, r
  <2>. QED
    BY <1>2, <1>3, <1>5, <1>17, <1>18, <2>1, <2>2 DEF Clean, r
<1>19. ASSUME InBlock
       PROVE  \E k \in 0..Len(e) :
                Stacked(e, k) /\ (k <= T \/ (r \in Single /\ k = Len(e) /\ k <= T + 1))
  BY <1>2, <1>3, <1>17, <1>19 DEF Bound, Done, T, r
<1>20. CASE r = "expr_block"
  <2>1. d = 6 /\ InBlock /\ ~InBlock'
    BY <1>11, <1>12, <1>13, <1>20 DEF r
  <2>2. x = e
    BY <1>3, <1>4, <1>5, <1>20, StillExits
  <2>3. e # <<>>
    <3>1. rest = <<>>
      BY <1>9, <1>20 DEF Single
    <3>. QED
      BY <1>2, <1>3, <1>17, <1>20, <2>1, <3>1 DEF BlockDone, r, rest
  <2>4. AllTransforms(e)
    BY <1>18, <1>20, <2>1 DEF Clear, Single
  <2>5. T = 0
    <3>1. SUFFICES ASSUME NEW i \in 1..Len(open), open[i].rule \in {"transform"} PROVE FALSE
      BY <1>2, <1>8, OpenFinite DEF T
    <3>2. "transform" \in Body
      BY DEF Body, Outer
    <3>3. i >= 6
      BY <3>1, <3>2 DEF Skeleton, Levels
    <3>4. i = d
      BY <1>2, <2>1, <3>1, <3>3
    <3>. QED
      BY <1>20, <3>1, <3>4 DEF r
  <2>6. PICK k \in 0..Len(e) : Stacked(e, k) /\ k <= T + 1
    BY <1>8, <1>19, <2>1
  <2>7. k = Len(e)
    BY <1>6, <2>4, <2>6, AllOfThem
  <2>8. Len(x) = 1
    BY <1>6, <2>2, <2>3, <2>5, <2>6, <2>7
  <2>9. Spent(open'[d - 1]) /\ Len(open') = d - 1 /\ d > 1
    <3>1. d > 1
      BY <2>1
    <3>2. Spent(open[d - 1]) /\ open'[d - 1] = open[d - 1]
      BY <1>10, <1>20, <3>1
    <3>3. Spent(open'[d - 1])
      BY <3>2 DEF Spent
    <3>. QED
      BY <1>5, <3>1, <3>3
  <2>10. open' # <<>>
    <3>1. Len(open') # 0
      BY <2>9
    <3>. QED
      BY <3>1
  <2>. QED
    BY <1>4, <2>1, <2>8, <2>9, <2>10 DEF Bodies
<1>21. CASE InBlock /\ r # "expr_block" /\ r \notin Body
  <2>1. d > 6 /\ InBlock'
    <3>1. d # 6
      BY <1>12, <1>21 DEF r
    <3>. QED
      BY <1>12, <1>13, <1>21, <3>1
  <2>2. r # "view" /\ r \notin Single /\ r # "transform"
    BY <1>11, <1>21, <2>1 DEF Body, Outer, Single
  <2>3. x = e
    BY <1>3, <1>4, <1>5, <1>21, <2>2, StillExits
  <2>4. Bound'
    <3>1. PICK k \in 0..Len(e) : Stacked(e, k) /\ k <= T
      BY <1>19, <1>21, <2>2
    <3>. QED
      BY <1>4, <1>8, <2>2, <2>3, <3>1 DEF Bound, T
  <2>5. Clean'
    <3>1. SUFFICES ASSUME NEW i \in 1..(d - 1), ClearAt(open[i]), BodyTop(i)'
                   PROVE  AllTransforms(x) /\ (open[i].rule # "expr_block" => x # <<>>)
      BY <1>4, <1>5 DEF Clean
    <3>2. ASSUME NEW j \in (i + 1)..d PROVE open[j].rule \notin Body
      <4>1. j # d => j \in (i + 1)..(d - 1) /\ j \in 1..(d - 1)
        BY <1>2, <3>1, <3>2
      <4>. QED
        BY <1>5, <1>21, <3>1, <4>1 DEF BodyTop, r
    <3>3. BodyTop(i)
      BY <1>2, <3>2 DEF BodyTop
    <3>. QED
      BY <1>2, <1>3, <1>5, <1>17, <1>21, <2>3, <3>1, <3>3 DEF Clean
  <2>6. BlockDone'
    <3>1. p # "expr_block"
      <4>1. p = "expr_block" => r = "transform"
        BY <1>10, <2>1, OuterChildren
      <4>. QED
        BY <2>2, <4>1
    <3>. QED
      BY <1>5, <1>10, <2>1, <3>1 DEF BlockDone, p
  <2>. QED
    BY <2>1, <2>4, <2>5, <2>6 DEF Bodies
<1>22. CASE InBlock /\ r # "expr_block" /\ r \in Body
  <2>1. d > 6 /\ d > 1 /\ InBlock'
    <3>1. d # 6
      BY <1>12, <1>22 DEF r
    <3>. QED
      BY <1>12, <1>13, <1>22, <3>1
  <2>2. p \in Body
    BY <1>10, <1>22, <2>1, BodyParents
  <2>3. /\ r \in Clear => p \in Clear
        /\ r = "transform" => p \in {"expr_assign", "expr_block"}
        /\ r = "expr_assign" => p \in Assigns
        /\ p \in Clear \ Single => r \in Settled \cup (Clear \ (Single \cup {"transform"}))
        /\ p = "expr_block" => r = "transform"
    BY <1>10, <1>22, <2>1, <2>2, ClearParents
  <2>4. r # "view"
    BY <1>11, <2>1
  <2>5. PICK k \in 0..Len(e) :
          Stacked(e, k) /\ (k <= T \/ (r \in Single /\ k = Len(e) /\ k <= T + 1))
    BY <1>19, <1>22
  <2>6. ASSUME r \in Settled
        PROVE  /\ x # <<>> /\ AllTransforms(x) /\ Stacked(x, Len(x)) /\ Len(x) <= k
               /\ r \in Assigns => Len(x) = Len(e) - 1
    BY SMTT(60), <1>1, <1>3, <1>4, <1>5, <2>5, <2>6, SettledExits DEF AllTransforms
  <2>7. p \in Single => Done(open[d - 1])
    BY <1>10, <2>1 DEF Done, p
  <2>8. Bound'
    <3>1. SUFFICES \E m \in 0..Len(x) :
                     /\ Stacked(x, m)
                     /\ m <= T' \/ (Done(open[d - 1]) /\ m = Len(x) /\ m <= T' + 1)
      <4>1. Len(open') = d - 1 /\ open'[d - 1] = open[d - 1]
        BY <1>5, <1>10, <2>1
      <4>. QED
        BY <1>4, <3>1, <4>1 DEF Bound, T, Done
    <3>2. CASE r = "transform"
      <4>1. Stacked(x, Len(x)) /\ Len(x) <= k
        BY <2>6, <3>2 DEF Settled
      <4>2. Done(open[d - 1])
        BY <2>3, <2>7, <3>2 DEF Single
      <4>3. k <= T
        BY <2>5, <3>2 DEF Single, Assigns
      <4>4. Len(x) \in 0..Len(x) /\ Len(x) <= T' + 1
        BY <1>6, <1>8, <2>5, <3>2, <4>1, <4>3
      <4>. QED
        BY <4>1, <4>2, <4>4
    <3>3. CASE r # "transform" /\ k <= T
      <4>1. Settles(listener, listener')
        BY <1>1, <1>5, <2>4, ExitSettles
      <4>2. PICK m \in 0..k : Stacked(x, m)
        BY <1>3, <1>4, <2>5, <4>1 DEF Settles
      <4>3. m \in 0..Len(x) /\ m <= T'
        BY <1>8, <2>5, <3>3, <4>2 DEF Stacked
      <4>. QED
        BY <4>2, <4>3
    <3>4. CASE r \in Assigns /\ k = Len(e) /\ k <= T + 1
      <4>1. Stacked(x, Len(x)) /\ Len(x) = Len(e) - 1
        BY <2>6, <3>4 DEF Settled
      <4>2. Len(x) \in 0..Len(x) /\ Len(x) <= T'
        <5>1. r # "transform"
          BY <3>4 DEF Assigns
        <5>. QED
          BY <1>6, <1>8, <3>4, <4>1, <5>1
      <4>. QED
        BY <4>1, <4>2
    <3>5. CASE r = "expr_assign" /\ k = Len(e) /\ k <= T + 1
      <4>1. x = e
        BY <1>3, <1>4, <1>5, <3>5, StillExits
      <4>2. Done(open[d - 1])
        BY <2>3, <2>7, <3>5 DEF Single
      <4>3. T' = T
        BY <1>8, <3>5
      <4>. QED
        BY <2>5, <3>5, <4>1, <4>2, <4>3
    <3>. QED
      BY <1>22, <2>5, <3>2, <3>3, <3>4, <3>5 DEF Single
  <2>9. Clean'
    <3>1. SUFFICES ASSUME NEW i \in 1..(d - 1), ClearAt(open[i]), BodyTop(i)'
                   PROVE  AllTransforms(x) /\ (open[i].rule # "expr_block" => x # <<>>)
      BY <1>4, <1>5 DEF Clean
    <3>2. i = d - 1
      <4>1. i # d - 1 => d - 1 \in (i + 1)..(d - 1)
        BY <1>2, <3>1
      <4>2. i # d - 1 => open'[d - 1].rule \notin Body
        BY <1>5, <3>1, <4>1 DEF BodyTop
      <4>. QED
        BY <1>10, <2>1, <2>2, <4>2 DEF p
    <3>3. p \in Clear /\ (p \in Single => p = "expr_block")
      BY <1>10, <2>1, <3>1, <3>2 DEF ClearAt, p
    <3>4. r \in Settled \/ r \in {"expr_stmt", "expr_statement", "expr_statement_no_nl"}
      BY <2>3, <3>3 DEF Settled, Clear
    <3>5. CASE r \in Settled
      BY <2>6, <3>5
    <3>6. CASE r \in {"expr_stmt", "expr_statement", "expr_statement_no_nl"}
      <4>1. x = e
        BY <1>3, <1>4, <1>5, <3>6, StillExits
      <4>2. r \in Clear /\ r \notin Single
        BY <3>6 DEF Clear, Single, Assigns
      <4>. QED
        BY <1>18, <1>22, <3>6, <4>1, <4>2
    <3>. QED
      BY <3>4, <3>5, <3>6
  <2>10. BlockDone'
    <3>1. p = "expr_block" => x # <<>>
      BY <2>3, <2>6 DEF Settled
    <3>. QED
      BY <1>4, <1>5, <1>10, <2>1, <3>1 DEF BlockDone, p
  <2>. QED
    BY <2>1, <2>8, <2>9, <2>10 DEF Bodies
<1>. QED
  BY <1>16, <1>20, <1>21, <1>22

\* The inductive invariant of the stack of expressions, on top of IInv.
EInv == Heights /\ Skeleton /\ Bodies

\* The invariant of the expressions holds at first and in every step of IInv.
LEMMA InitExprs == Init => EInv
  BY HeightsInit, SkeletonInit, BodiesInit DEF EInv

LEMMA NextKeepsExprs ==
  ASSUME IInv, IInv', EInv, [Next]_vars
  PROVE  EInv'
<1>1. /\ TypeOK /\ RestsFit /\ Heights /\ Skeleton /\ Bodies
      /\ listener' \in Listener /\ open' \in Seq(Frames)
  BY DEF IInv, Shape, EInv, TypeOK
<1>2. ASSUME open' = open, listener' = listener \/ ~Live(listener')
      PROVE  EInv'
  BY <1>1, <1>2, HeightsStuck, SkeletonStuck, BodiesStuck DEF EInv
<1>3. CASE EnterRule
  <2>1. Live(listener)
    BY <1>3 DEF EnterRule
  <2>2. PICK n, r, w : Enters(n, r, w)
    BY <1>1, <1>3, EnterStep
  <2>3. Heights'
    BY <1>1, <2>1, <2>2, HeightsEntered
  <2>4. Skeleton'
    BY <1>1, <2>2, SkeletonEntered
  <2>5. Bodies'
    BY <1>1, <2>1, <2>2, BodiesEntered
  <2>. QED
    BY <2>3, <2>4, <2>5 DEF EInv
<1>4. CASE ExitRule /\ Live(listener')
  <2>1. Live(listener)
    BY <1>4 DEF ExitRule
  <2>2. Exits
    BY <1>1, <1>4, ExitStep
  <2>3. Heights'
    BY <1>1, <2>1, <2>2, HeightsExited
  <2>4. Skeleton'
    BY <1>1, <2>2, SkeletonExited
  <2>5. Bodies'
    BY <1>1, <2>1, <2>2, BodiesExited
  <2>. QED
    BY <2>3, <2>4, <2>5 DEF EInv
<1>5. CASE ExitRule /\ ~Live(listener')
  BY <1>1, <1>2, <1>5, ExitStep
<1>6. CASE UNCHANGED vars
  BY <1>2, <1>6 DEF vars
<1>. QED
  BY <1>3, <1>4, <1>5, <1>6 DEF Next

\* What the heights and the transforms say of an expression and of what is outside of views.
LEMMA ExprsFollow == IInv /\ EInv => ExprsLeaveOneValue
<1>1. SUFFICES ASSUME IInv, EInv, Live(listener) PROVE ExprsLeaveOneValue
  BY DEF ExprsLeaveOneValue
<1>2. TypeOK /\ Heights /\ Skeleton /\ Bodies
  BY <1>1 DEF IInv, EInv
<1>3. (open # <<>> /\ Top(open).rule = "expr" /\ Top(open).rest = <<>>)
        => Len(listener.exprs) = Top(open).base + 1
  BY <1>1, <1>2, ExprLeavesOne
<1>4. ASSUME Opened({"view"}) = 0 PROVE listener.exprs = <<>>
  <2>1. PICK d \in Nat : d = Len(open)
    BY <1>2, FramesTyped
  <2>2. \A i \in 1..d : open[i].rule # "view"
    BY <1>4, <2>1, OpenFinite
  <2>3. ~InBlock
    <3>1. SUFFICES ASSUME InBlock PROVE FALSE
      OBVIOUS
    <3>2. 5 \in 1..(d - 1) /\ 5 \in 1..d /\ open[6].rule = "expr_block"
      BY <2>1, <3>1 DEF InBlock
    <3>3. MayHave(open[5].rule, open[6].rule)
      BY <1>2, <2>1, <3>2 DEF Skeleton, Lineage
    <3>4. open[5].rule \in Rules \cup {"file"}
      BY <1>2, <2>1, <3>2, FramesTyped
    <3>. QED
      BY <2>2, <3>2, <3>3, <3>4, BodyParents
  <2>4. open # <<>> => ~Spent(open[Len(open)])
    <3>1. open # <<>> => d \in 1..d
      BY <1>2, <2>1, FramesTyped
    <3>. QED
      BY <2>1, <2>2, <3>1 DEF Spent
  <2>5. Len(listener.exprs) = 0
    BY <1>1, <1>2, <2>3, <2>4 DEF Bodies
  <2>6. listener.exprs \in Seq(AnyExpr)
    BY <1>2, FramesTyped, ListenerTypes
  <2>. QED
    BY <2>5, <2>6
<1>. QED
  BY <1>3, <1>4 DEF ExprsLeaveOneValue

\* The invariant of the expressions always holds.
LEMMA ExprsInvariance == Spec => []EInv
<1>1. IInv /\ IInv' /\ EInv /\ [Next]_vars => EInv'
  BY NextKeepsExprs
<1>. QED
  BY Invariance, InitExprs, <1>1, PTL DEF Spec

(***************************************************************************)
(* An expression leaves exactly one value on expr_stack, where it found it *)
(* when it was entered, whatever file is parsed and however its operators, *)
(* functions and transforms stand in each other, and outside of views      *)
(* nothing is left over (listener_impl.go, PushExpr, popExpr, ExitView).   *)
(***************************************************************************)
THEOREM ExprsLeaveOne == Spec => []ExprsLeaveOneValue
  BY Invariance, ExprsInvariance, ExprsFollow, PTL

-----------------------------------------------------------------------------
\* How far the words of the open rules are walked

\* The steps there are: a rule is entered, one is exited, or the walk stands still.
LEMMA Steps ==
  ASSUME TypeOK, [Next]_vars
  PROVE  \/ Live(listener) /\ \E n, r, w : Enters(n, r, w)
         \/ Live(listener) /\ Exits
         \/ open' = open /\ (listener' = listener \/ ~Live(listener'))
<1>1. CASE EnterRule
  BY <1>1, EnterStep DEF EnterRule
<1>2. CASE ExitRule
  BY <1>2, ExitStep DEF ExitRule
<1>3. CASE UNCHANGED vars
  BY <1>3 DEF vars
<1>. QED
  BY <1>1, <1>2, <1>3 DEF Next

\* The word w of the i-th open rule is walked up to its m-th symbol, which is open now.
WalkedTo(i, w, m) ==
  /\ m \in 0..Len(w) /\ Len(open[i].rest) = Len(w) - m
  /\ \A k \in 1..Len(open[i].rest) : open[i].rest[k] = w[m + k]
  /\ open[i].rule \in LooksBack => open[i].word = w
  /\ i < Len(open) => m > 0 /\ open[i + 1].rule = w[m]

\* What is left of a rule is the end of a word of it, and what is open in it comes just before.
Walked ==
  \A i \in 1..Len(open) : open[i].rule \in Rules =>
    \E w \in Grammar[open[i].rule] : \E m \in 0..Len(w) : WalkedTo(i, w, m)

LEMMA WalkedEntered ==
  ASSUME TypeOK, RestsFit, Walked, NEW n, NEW r, NEW w, Enters(n, r, w)
  PROVE  Walked'
<1>0. PICK d \in Nat : d = Len(open)
  BY FramesTyped
<1>. DEFINE rest == open[d].rest
<1>1. /\ d > 0 /\ d \in 1..d /\ Len(open') = d + 1
      /\ \A i \in 1..d : open'[i].rule = open[i].rule /\ open'[i].word = open[i].word
      /\ \A i \in 1..(d - 1) : open'[i].rest = open[i].rest
      /\ n \in 1..Len(rest) /\ r = rest[n] /\ rest \in Seq(Symbols)
      /\ open'[d].rest = SubSeq(rest, n + 1, Len(rest))
  <2>1. /\ d \in Nat \ {0} /\ d \in 1..d /\ Len(open') = d + 1
        /\ \A i \in 1..d : open'[i].rule = open[i].rule /\ open'[i].word = open[i].word
    BY <1>0, EnteredFrames
  <2>2. \A i \in 1..(d - 1) : open'[i].rest = open[i].rest
    BY <1>0, EnteredFrames
  <2>3. /\ n \in 1..Len(rest) /\ r = rest[n] /\ rest \in Seq(Symbols)
        /\ open'[d].rest = SubSeq(rest, n + 1, Len(rest))
    BY <1>0, EnteredFrames
  <2>. QED
    BY <2>1, <2>2, <2>3
<1>2. /\ r \in Rules /\ w \in Grammar[r] /\ w \in Seq(Symbols)
      /\ open'[d + 1].rule = r /\ open'[d + 1].rest = w /\ open'[d + 1].word = Frame(r, w).word
  BY <1>0, EnteredFrames
<1>3. SUFFICES ASSUME NEW i \in 1..(d + 1), open'[i].rule \in Rules
               PROVE  \E v \in Grammar[open'[i].rule] : \E m \in 0..Len(v) : WalkedTo(i, v, m)'
  BY <1>1 DEF Walked
<1>4. CASE i < d
  <2>1. i \in 1..d /\ i \in 1..(d - 1) /\ i + 1 \in 1..d
    BY <1>1, <1>4
  <2>2. PICK v \in Grammar[open[i].rule] : \E m \in 0..Len(v) : WalkedTo(i, v, m)
    BY <1>0, <1>1, <1>3, <2>1 DEF Walked
  <2>3. PICK m \in 0..Len(v) : WalkedTo(i, v, m)
    BY <2>2
  <2>4. WalkedTo(i, v, m)'
    BY <1>0, <1>1, <1>4, <2>1, <2>3 DEF WalkedTo
  <2>. QED
    BY <1>1, <2>1, <2>2, <2>3, <2>4
<1>5. CASE i = d
  <2>1. PICK v \in Grammar[open[d].rule] : \E m \in 0..Len(v) : WalkedTo(d, v, m)
    BY <1>0, <1>1, <1>3, <1>5 DEF Walked
  <2>2. PICK m \in 0..Len(v) : WalkedTo(d, v, m)
    BY <2>1
  <2>3. v \in Seq(Symbols)
    BY <1>1, <1>3, <1>5, <2>1, WordsTyped
  <2>4. /\ Len(v) \in Nat /\ m \in Nat /\ n \in Nat /\ Len(rest) = Len(v) - m
        /\ \A k \in 1..Len(rest) : rest[k] = v[m + k]
        /\ open[d].rule \in LooksBack => open[d].word = v
    BY <1>1, <2>2, <2>3 DEF WalkedTo
  <2>. HIDE DEF rest
  <2>5. /\ Len(open'[d].rest) = Len(rest) - n
        /\ \A k \in 1..(Len(rest) - n) : n + k \in 1..Len(rest) /\ open'[d].rest[k] = rest[n + k]
    BY <1>1, RestOfWord
  <2>6. m + n \in 0..Len(v) /\ Len(open'[d].rest) = Len(v) - (m + n) /\ m + n > 0
    BY <1>1, <2>4, <2>5
  <2>7. ASSUME NEW k \in 1..Len(open'[d].rest) PROVE open'[d].rest[k] = v[m + n + k]
    <3>1. k \in 1..(Len(rest) - n) /\ n + k \in 1..Len(rest) /\ m + (n + k) = m + n + k
      BY <2>4, <2>5, <2>7
    <3>. QED
      BY <2>4, <2>5, <3>1
  <2>8. r = v[m + n]
    BY <1>1, <2>4
  <2>9. WalkedTo(d, v, m + n)'
    BY <1>1, <1>2, <2>4, <2>6, <2>7, <2>8 DEF WalkedTo
  <2>. QED
    BY <1>1, <1>5, <2>1, <2>6, <2>9
<1>6. CASE i = d + 1
  <2>1. Len(w) \in Nat
    BY <1>2
  <2>2. r \in LooksBack => open'[d + 1].word = w
    BY <1>2 DEF Frame
  <2>3. 0 \in 0..Len(w) /\ \A k \in 1..Len(w) : 0 + k = k
    BY <2>1
  <2>4. WalkedTo(d + 1, w, 0)'
    BY <1>1, <1>2, <2>1, <2>2, <2>3 DEF WalkedTo
  <2>. QED
    BY <1>2, <1>6, <2>3, <2>4
<1>. QED
  BY <1>1, <1>3, <1>4, <1>5, <1>6

LEMMA WalkedExited ==
  ASSUME TypeOK, Walked, Exits
  PROVE  Walked'
<1>0. PICK d \in Nat : d = Len(open)
  BY FramesTyped
<1>1. d > 0 /\ Len(open') = d - 1 /\ \A i \in 1..(d - 1) : i \in 1..d /\ open'[i] = open[i]
  BY <1>0, ExitedFrames
<1>2. SUFFICES ASSUME NEW i \in 1..(d - 1), open'[i].rule \in Rules
               PROVE  \E v \in Grammar[open'[i].rule] : \E m \in 0..Len(v) : WalkedTo(i, v, m)'
  BY <1>1 DEF Walked
<1>3. PICK v \in Grammar[open[i].rule] : \E m \in 0..Len(v) : WalkedTo(i, v, m)
  BY <1>0, <1>1, <1>2 DEF Walked
<1>4. PICK m \in 0..Len(v) : WalkedTo(i, v, m)
  BY <1>3
<1>5. i \in 1..d /\ (i < d - 1 => i < d /\ i + 1 \in 1..(d - 1))
  BY <1>1
<1>6. WalkedTo(i, v, m)'
  BY <1>0, <1>1, <1>4, <1>5 DEF WalkedTo
<1>. QED
  BY <1>1, <1>3, <1>4, <1>6

LEMMA WalkedAlways == Spec => []Walked
<1>1. Init => Walked
  <2>1. SUFFICES ASSUME Init PROVE Walked
    OBVIOUS
  <2>2. Len(open) = 1 /\ \A i \in 1..1 : open[i].rule = "file"
    BY <2>1, Begun
  <2>. QED
    BY <2>2, FileIsNoRule DEF Walked, Symbols
<1>2. ASSUME IInv, Walked, [Next]_vars PROVE Walked'
  <2>1. TypeOK /\ RestsFit
    BY <1>2 DEF IInv, Shape
  <2>2. CASE open' = open
    BY <1>2, <2>2 DEF Walked, WalkedTo
  <2>. QED
    BY <1>2, <2>1, <2>2, Steps, WalkedEntered, WalkedExited
<1>. QED
  BY Invariance, <1>1, <1>2, PTL DEF Spec

-----------------------------------------------------------------------------
\* Which rules are open in which

\* Inside of a rule of A only rules of K are open.
Holds(A, K) == \A i, j \in 1..Len(open) : i < j /\ open[i].rule \in A => open[j].rule \in K

LEMMA HoldsStep ==
  ASSUME NEW A, NEW K, Closed(A \cup K, K), "file" \notin A \cup K
  PROVE  /\ Init => Holds(A, K)
         /\ IInv /\ Holds(A, K) /\ [Next]_vars => Holds(A, K)'
<1>1. Init => Holds(A, K)
  <2>1. SUFFICES ASSUME Init PROVE Holds(A, K)
    OBVIOUS
  <2>2. Len(open) = 1
    BY <2>1, Begun
  <2>. QED
    BY <2>2 DEF Holds
<1>2. ASSUME IInv, Holds(A, K), [Next]_vars PROVE Holds(A, K)'
  <2>1. TypeOK /\ RestsFit
    BY <1>2 DEF IInv, Shape
  <2>2. CASE open' = open
    BY <1>2, <2>2 DEF Holds
  <2>3. ASSUME NEW n, NEW r, NEW w, Enters(n, r, w) PROVE Holds(A, K)'
    <3>0. PICK d \in Nat : d = Len(open)
      BY <2>1, FramesTyped
    <3>1. /\ d \in 1..d /\ Len(open') = d + 1 /\ r \in Rules
          /\ \A i \in 1..d : open'[i].rule = open[i].rule
          /\ open'[d + 1].rule = r /\ open[d].rule \in Rules \cup {"file"}
          /\ MayHave(open[d].rule, r)
      BY <2>1, <2>3, <3>0, EnteredFrames
    <3>2. SUFFICES ASSUME NEW i \in 1..(d + 1), NEW j \in 1..(d + 1), i < j, open'[i].rule \in A
                   PROVE  open'[j].rule \in K
      BY <3>1 DEF Holds
    <3>3. CASE j <= d
      BY <1>2, <3>0, <3>1, <3>2, <3>3 DEF Holds
    <3>4. CASE j = d + 1
      <4>1. i \in 1..d /\ open[i].rule \in A
        BY <3>1, <3>2, <3>4
      <4>2. open[d].rule \in A \cup K
        BY <1>2, <3>0, <3>1, <4>1 DEF Holds
      <4>3. open[d].rule \in Rules
        BY <3>1, <4>2
      <4>. QED
        BY <3>1, <3>4, <4>2, <4>3, KidsIn DEF Closed
    <3>. QED
      BY <3>1, <3>3, <3>4
  <2>4. CASE Exits
    BY <1>2, <2>1, <2>4, ExitedFrames DEF Holds
  <2>. QED
    BY <1>2, <2>1, <2>2, <2>3, <2>4, Steps
<1>. QED
  BY <1>1, <1>2

\* A rule of A is open only inside of one of B.
Under(A, B) ==
  \A i \in 1..Len(open) : open[i].rule \in A => \E j \in 1..(i - 1) : open[j].rule \in B

LEMMA UnderStep ==
  ASSUME NEW A, NEW B, \A r \in Rules : r \in A \cup B \/ Alphabet[r] \cap A = {},
         {"file", "sysl_file"} \cap A = {}
  PROVE  /\ Init => Under(A, B)
         /\ IInv /\ Under(A, B) /\ [Next]_vars => Under(A, B)'
<1>1. Init => Under(A, B)
  <2>1. SUFFICES ASSUME Init PROVE Under(A, B)
    OBVIOUS
  <2>2. Len(open) = 1 /\ \A i \in 1..1 : open[i].rule = "file"
    BY <2>1, Begun
  <2>. QED
    BY <2>2 DEF Under
<1>2. ASSUME IInv, Under(A, B), [Next]_vars PROVE Under(A, B)'
  <2>1. TypeOK /\ RestsFit
    BY <1>2 DEF IInv, Shape
  <2>2. CASE open' = open
    BY <1>2, <2>2 DEF Under
  <2>3. ASSUME NEW n, NEW r, NEW w, Enters(n, r, w) PROVE Under(A, B)'
    <3>0. PICK d \in Nat : d = Len(open)
      BY <2>1, FramesTyped
    <3>1. /\ d \in 1..d /\ Len(open') = d + 1 /\ r \in Rules
          /\ \A i \in 1..d : open'[i].rule = open[i].rule
          /\ open'[d + 1].rule = r /\ open[d].rule \in Rules \cup {"file"}
          /\ MayHave(open[d].rule, r)
      BY <2>1, <2>3, <3>0, EnteredFrames
    <3>2. SUFFICES ASSUME NEW i \in 1..(d + 1), open'[i].rule \in A
                   PROVE  \E j \in 1..(i - 1) : open'[j].rule \in B
      BY <3>1 DEF Under
    <3>3. CASE i <= d
      <4>1. i \in 1..d /\ open[i].rule \in A
        BY <3>1, <3>2, <3>3
      <4>2. PICK j \in 1..(i - 1) : open[j].rule \in B
        BY <1>2, <3>0, <4>1 DEF Under
      <4>. QED
        BY <3>1, <4>1, <4>2
    <3>4. CASE i = d + 1
      <4>1. open[d].rule \in A \cup B
        BY <3>1, <3>2, <3>4, KidsIn DEF MayHave
      <4>2. CASE open[d].rule \in B
        BY <3>1, <3>4, <4>2
      <4>3. CASE open[d].rule \in A
        <5>1. PICK j \in 1..(d - 1) : open[j].rule \in B
          BY <1>2, <3>0, <3>1, <4>3 DEF Under
        <5>. QED
          BY <3>1, <3>4, <5>1
      <4>. QED
        BY <4>1, <4>2, <4>3
    <3>. QED
      BY <3>1, <3>3, <3>4
  <2>4. CASE Exits
    <3>0. PICK d \in Nat : d = Len(open)
      BY <2>1, FramesTyped
    <3>1. Len(open') = d - 1 /\ \A i \in 1..(d - 1) : open'[i] = open[i]
      BY <2>1, <2>4, <3>0, ExitedFrames
    <3>2. SUFFICES ASSUME NEW i \in 1..(d - 1), open'[i].rule \in A
                   PROVE  \E j \in 1..(i - 1) : open'[j].rule \in B
      BY <3>1 DEF Under
    <3>3. i \in 1..d /\ open[i].rule \in A
      BY <3>1, <3>2
    <3>4. PICK j \in 1..(i - 1) : open[j].rule \in B
      BY <1>2, <3>0, <3>3 DEF Under
    <3>. QED
      BY <3>1, <3>4
  <2>. QED
    BY <1>2, <2>1, <2>2, <2>3, <2>4, Steps
<1>. QED
  BY <1>1, <1>2

-----------------------------------------------------------------------------
\* The field that is being declared

FieldsFound ==
  Live(listener) =>
    \A i \in 1..Len(open) :
      /\ Fielded(open[i]) => OnField(listener)
      /\ Named(open[i]) => listener.field.top # 0
      /\ open[i].rule = "view" => listener.typemap # 0

FieldTrees ==
  /\ Holds(FieldRules, Rules \ Declarers)
  /\ Holds(PlainRules, Rules \ TupleRules)
  /\ Under(Viewed, {"view"})

LEMMA FieldTreesAlways == Spec => []FieldTrees
<1>1. Closed(FieldRules \cup (Rules \ Declarers), Rules \ Declarers)
  <2>1. \A r \in Rules : r \in Declarers \ FieldRules \/ Alphabet[r] \cap Declarers = {}
    BY SMTT(60) DEF Declarers, FieldRules, Typed, Alphabet, Rules, Grammar
  <2>. QED
    BY <2>1 DEF Closed
<1>2. Closed(PlainRules \cup (Rules \ TupleRules), Rules \ TupleRules)
  <2>1. \A r \in Rules : r \in TupleRules \ PlainRules \/ Alphabet[r] \cap TupleRules = {}
    BY SMTT(60) DEF TupleRules, Declarers, PlainRules, Typed, Alphabet, Rules, Grammar
  <2>. QED
    BY <2>1 DEF Closed
<1>3. \A r \in Rules : r \in Viewed \cup {"view"} \/ Alphabet[r] \cap Viewed = {}
  BY SMTT(60) DEF Viewed, Body, Inner, Gainers, Neutral, Outer, Assigns, Alphabet, Rules, Grammar
<1>4. "file" \notin FieldRules \cup PlainRules \cup Viewed \cup Rules /\ "sysl_file" \notin Viewed
  BY FileIsNoRule DEF FieldRules, PlainRules, Viewed, Typed, Body, Inner, Gainers, Neutral, Outer,
     Assigns, Symbols
<1>5. /\ Init => Holds(FieldRules, Rules \ Declarers)
      /\ IInv /\ Holds(FieldRules, Rules \ Declarers) /\ [Next]_vars
           => Holds(FieldRules, Rules \ Declarers)'
  BY <1>1, <1>4, HoldsStep
<1>6. /\ Init => Holds(PlainRules, Rules \ TupleRules)
      /\ IInv /\ Holds(PlainRules, Rules \ TupleRules) /\ [Next]_vars
           => Holds(PlainRules, Rules \ TupleRules)'
  BY <1>2, <1>4, HoldsStep
<1>7. /\ Init => Under(Viewed, {"view"})
      /\ IInv /\ Under(Viewed, {"view"}) /\ [Next]_vars => Under(Viewed, {"view"})'
  BY <1>3, <1>4, UnderStep
<1>8. Init => FieldTrees
  BY <1>5, <1>6, <1>7 DEF FieldTrees
<1>9. IInv /\ FieldTrees /\ [Next]_vars => FieldTrees'
  BY <1>5, <1>6, <1>7 DEF FieldTrees
<1>. QED
  BY Invariance, <1>8, <1>9, PTL DEF Spec

\* The child that is open inside of a rule is a symbol of the word that is walked.
LEMMA OpenChild ==
  ASSUME TypeOK, Walked, NEW i \in 1..Len(open), i < Len(open), open[i].rule \in Rules
  PROVE  \E w \in Grammar[open[i].rule] :
           /\ \E m \in 1..Len(w) : open[i + 1].rule = w[m]
           /\ open[i].rule \in LooksBack => open[i].word = w
<1>1. PICK w \in Grammar[open[i].rule] : \E m \in 0..Len(w) : WalkedTo(i, w, m)
  BY DEF Walked
<1>2. PICK m \in 0..Len(w) : WalkedTo(i, w, m)
  BY <1>1
<1>3. m > 0 /\ open[i + 1].rule = w[m] /\ (open[i].rule \in LooksBack => open[i].word = w)
  BY <1>2 DEF WalkedTo
<1>4. m \in 1..Len(w)
  BY <1>2, <1>3
<1>. QED
  BY <1>1, <1>3, <1>4

\* So is the next one to be entered.
LEMMA NextChild ==
  ASSUME TypeOK, RestsFit, Walked, NEW n, NEW r, NEW w, Enters(n, r, w), Top(open).rule \in Rules
  PROVE  \E v \in Grammar[Top(open).rule] :
           /\ \E m \in 1..Len(v) : r = v[m]
           /\ Top(open).rule \in LooksBack => Top(open).word = v
<1>0. PICK d \in Nat : d = Len(open)
  BY FramesTyped
<1>1. d \in 1..d /\ n \in 1..Len(open[d].rest) /\ r = open[d].rest[n] /\ open[d].rest \in Seq(Symbols)
      /\ Top(open) = open[d]
  BY <1>0, EnteredFrames DEF Top
<1>2. PICK v \in Grammar[open[d].rule] : \E m \in 0..Len(v) : WalkedTo(d, v, m)
  BY <1>0, <1>1 DEF Walked
<1>3. PICK m \in 0..Len(v) : WalkedTo(d, v, m)
  BY <1>2
<1>4. /\ Len(open[d].rest) = Len(v) - m /\ r = v[m + n]
      /\ open[d].rule \in LooksBack => open[d].word = v
  BY <1>1, <1>3 DEF WalkedTo
<1>5. v \in Seq(Symbols)
  BY <1>1, <1>2, WordsTyped
<1>6. m + n \in 1..Len(v)
  BY <1>1, <1>4, <1>5
<1>. QED
  BY <1>1, <1>2, <1>4, <1>6

\* No tuple in place is inside of a rule that works on a type.
LEMMA NoTuple ==
  ASSUME TypeOK, Walked, FieldTrees, NEW i \in 1..Len(open), NEW j \in 1..Len(open), i < j,
         Fielded(open[i])
  PROVE  open[j].rule \notin TupleRules
<1>0. PICK d \in Nat : d = Len(open)
  BY FramesTyped
<1>1. ASSUME NEW k \in 1..d, k < j, open[k].rule \in PlainRules PROVE open[j].rule \notin TupleRules
  BY <1>0, <1>1 DEF FieldTrees, Holds
<1>2. CASE open[i].rule \in PlainRules
  BY <1>0, <1>1, <1>2
<1>3. CASE open[i].rule \in {"field", "param"}
  <2>1. i < d /\ i + 1 \in 1..d /\ (j = i + 1 \/ i + 1 < j) /\ open[i].rule \in Rules
    BY <1>0, <1>3, FieldKids
  <2>2. PICK w \in Grammar[open[i].rule] :
          /\ \E m \in 1..Len(w) : open[i + 1].rule = w[m]
          /\ open[i].word = w
    BY <1>0, <1>3, <2>1, OpenChild, FieldKids
  <2>3. open[i + 1].rule \in PlainRules \ TupleRules
    <3>1. CASE open[i].rule = "field"
      <4>1. Has(w, "field_type") /\ Has(w, open[i + 1].rule)
        BY <2>2, <3>1 DEF Fielded, Has, Typed
      <4>2. open[i + 1].rule # "inplace_tuple"
        BY <2>2, <3>1, <4>1, FieldWords
      <4>3. open[i + 1].rule \in Alphabet["field"]
        BY <2>1, <2>2, <3>1, KidsIn, FileIsNoRule DEF MayHave, Symbols
      <4>. QED
        BY <4>2, <4>3, FieldKids DEF PlainRules, TupleRules, Declarers, Typed
    <3>2. CASE open[i].rule = "param"
      <4>1. Has(w, "reference") /\ Len(w) = 1
        BY <2>2, <3>2, WordsOfOne DEF Fielded, Typed
      <4>2. open[i + 1].rule = "reference"
        BY <2>2, <4>1 DEF Has
      <4>. QED
        BY <4>2 DEF PlainRules, TupleRules, Declarers, Typed
    <3>. QED
      BY <1>3, <3>1, <3>2
  <2>. QED
    BY <1>0, <1>1, <2>1, <2>3
<1>. QED
  BY <1>2, <1>3 DEF Fielded, PlainRules

\* The rule that such a one is entered from has a field.
LEMMA FieldedParent ==
  ASSUME TypeOK, RestsFit, Walked, NEW n, NEW r, NEW w, Enters(n, r, w),
         r \in {"types", "set_type", "sequence_type", "collection_type", "field_type",
                "view_type_spec", "reference"}
  PROVE  Fielded(Top(open))
<1>0. PICK d \in Nat : d = Len(open)
  BY FramesTyped
<1>1. Top(open) = open[d] /\ open[d].rule \in Rules \cup {"file"} /\ MayHave(open[d].rule, r) /\ r \in Rules
  BY <1>0, EnteredFrames DEF Top
<1>2. open[d].rule \in Rules
  BY <1>1 DEF MayHave
<1>3. r \in Alphabet[open[d].rule]
  BY <1>1, <1>2, KidsIn
<1>4. PICK v \in Grammar[open[d].rule] :
        /\ \E m \in 1..Len(v) : r = v[m]
        /\ open[d].rule \in LooksBack => open[d].word = v
  BY <1>1, <1>2, NextChild
<1>5. CASE r \in {"types", "set_type", "sequence_type", "collection_type"}
  BY <1>1, <1>2, <1>3, <1>5, TypedParents DEF Fielded
<1>6. CASE r = "field_type"
  <2>1. open[d].rule = "field"
    BY <1>2, <1>3, <1>6, TypedParents
  <2>. QED
    BY <1>1, <1>4, <1>6, <2>1, FieldKids DEF Fielded, Has
<1>7. CASE r = "view_type_spec"
  <2>1. open[d].rule \in Typed \cup {"transform_return_type"}
    BY <1>2, <1>3, <1>7, TypedParents
  <2>2. CASE open[d].rule = "transform_return_type"
    <3>1. Len(v) = 1 /\ open[d].word = v
      BY <1>4, <2>2, WordsOfOne DEF LooksBack
    <3>0. v[1] = "view_type_spec" /\ \A k \in 1..Len(v) : v[k] = v[1]
      <4>1. PICK m \in 1..Len(v) : r = v[m]
        BY <1>4
      <4>2. \A k \in 1..Len(v) : k = 1
        BY <3>1
      <4>. QED
        BY <1>7, <4>1, <4>2
    <3>2. ~Has(v, "set_of")
      BY <3>0 DEF Has
    <3>. QED
      BY <1>1, <2>2, <3>1, <3>2 DEF Fielded
  <2>. QED
    BY <1>1, <2>1, <2>2 DEF Fielded
<1>8. CASE r = "reference"
  <2>1. open[d].rule \in Typed \cup {"param", "http_path_var_with_type"}
    BY <1>2, <1>3, <1>8, TypedParents
  <2>2. CASE open[d].rule \in {"param", "http_path_var_with_type"}
    BY <1>1, <1>4, <1>8, <2>2 DEF Fielded, Has, LooksBack
  <2>. QED
    BY <1>1, <2>1, <2>2 DEF Fielded
<1>. QED
  BY <1>5, <1>6, <1>7, <1>8

\* A frame that stays asks for no more than before, but for a parameter whose type comes.
LEMMA NamedStays ==
  ASSUME TypeOK, RestsFit, Walked, NEW n, NEW r, NEW w, Enters(n, r, w), NEW i \in 1..Len(open)
  PROVE  /\ Fielded(open'[i]) <=> Fielded(open[i])
         /\ Named(open'[i]) => Named(open[i]) \/ Fielded(open[i]) \/ r = "field"
         /\ open'[i].rule = open[i].rule
<1>0. PICK d \in Nat : d = Len(open)
  BY FramesTyped
<1>1. /\ \A j \in 1..d : open'[j].rule = open[j].rule /\ open'[j].word = open[j].word
      /\ \A j \in 1..(d - 1) : open'[j].rest = open[j].rest
      /\ d \in 1..d /\ open[d].rule \in Rules \cup {"file"} /\ MayHave(open[d].rule, r)
  BY <1>0, EnteredFrames
<1>2. Fielded(open'[i]) <=> Fielded(open[i])
  BY <1>0, <1>1 DEF Fielded
<1>3. Named(open'[i]) => Named(open[i]) \/ Fielded(open[i]) \/ r = "field"
  <2>1. CASE i \in 1..(d - 1)
    BY <1>0, <1>1, <2>1 DEF Named
  <2>2. CASE i = d /\ open[d].rule = "param"
    <3>1. r \in {"reference", "field"}
      BY <1>1, <2>2, KidsIn, FieldKids
    <3>. QED
      BY <1>0, <2>2, <3>1, FieldedParent DEF Top
  <2>3. CASE i = d /\ open[d].rule # "param"
    BY <1>1, <2>3 DEF Named
  <2>. QED
    BY <1>0, <2>1, <2>2, <2>3
<1>. QED
  BY <1>0, <1>1, <1>2, <1>3

LEMMA FoundEntered ==
  ASSUME IInv, Walked, FieldTrees, FieldsFound, Live(listener),
         NEW n, NEW r, NEW w, Enters(n, r, w)
  PROVE  FieldsFound'
<1>1. TypeOK /\ RestsFit /\ listener \in Listener
  BY DEF IInv, Shape, TypeOK
<1>0. PICK d \in Nat : d = Len(open)
  BY <1>1, FramesTyped
<1>2. /\ d \in 1..d /\ Len(open') = d + 1 /\ r \in Rules /\ w \in Grammar[r]
      /\ open'[d + 1].rule = r /\ open'[d + 1].rest = w /\ open'[d + 1].word = Frame(r, w).word
      /\ open[d].rule \in Rules \cup {"file"} /\ MayHave(open[d].rule, r)
  BY <1>0, <1>1, EnteredFrames
<1>3. listener' \in Entered(listener, r, w)
  BY DEF Enters
<1>4. \A i \in 1..d : /\ Fielded(open'[i]) <=> Fielded(open[i])
                      /\ Named(open'[i]) => Named(open[i]) \/ Fielded(open[i]) \/ r = "field"
                      /\ open'[i].rule = open[i].rule
  BY <1>0, <1>1, NamedStays
<1>5. SUFFICES ASSUME Live(listener'), NEW i \in 1..(d + 1)
               PROVE  /\ Fielded(open'[i]) => OnField(listener')
                      /\ Named(open'[i]) => listener'.field.top # 0
                      /\ open'[i].rule = "view" => listener'.typemap # 0
  BY <1>2 DEF FieldsFound, OnField, Fielded, Named, Live
<1>6. \A j \in 1..d : /\ Fielded(open[j]) => OnField(listener)
                      /\ Named(open[j]) => listener.field.top # 0
                      /\ open[j].rule = "view" => listener.typemap # 0
  BY <1>0 DEF FieldsFound
<1>7. CASE Adders(r, w)
  <2>1. r \notin {"name_with_attribs", "subscribe"}
    BY <1>7 DEF Adders
  <2>2. listener' = Enter(listener, r, w)
    BY <1>3, <2>1 DEF Entered
  <2>3. OnField(listener') /\ listener'.typemap # 0
    BY <1>1, <1>5, <1>7, <2>2, AddersAdd
  <2>. QED
    BY <2>3 DEF OnField
<1>8. CASE r \in {"alias", "view", "params", "app_decl", "table", "union"}
  <2>1. open[d].rule \in Declarers \ FieldRules
    <3>1. r \in Declarers /\ r # "sysl_file"
      BY <1>8 DEF Declarers
    <3>2. open[d].rule \in Rules
      BY <1>2, <3>1 DEF MayHave
    <3>. QED
      BY <1>2, <3>1, <3>2, KidsIn, DeclarersOutside
  <2>2. \A j \in 1..d : open[j].rule \notin FieldRules
    BY <1>0, <2>1 DEF FieldTrees, Holds
  <2>3. \A f : Fielded(f) \/ Named(f) \/ f.rule = "view" => f.rule \in FieldRules
    BY DEF Fielded, Named, FieldRules
  <2>4. listener' = Enter(listener, r, w)
    BY <1>3, <1>8 DEF Entered
  <2>5. CASE i \in 1..d
    BY <1>4, <2>2, <2>3, <2>5
  <2>6. CASE i = d + 1
    <3>1. CASE r = "alias"
      <4>1. OnField(listener')
        BY <1>1, <1>5, <2>4, <3>1, NewTypesField DEF Enter
      <4>. QED
        BY <1>2, <2>6, <3>1, <4>1 DEF OnField
    <3>2. CASE r = "view"
      <4>1. listener'.typemap # 0
        BY <1>1, <2>4, <3>2, NewTypesField DEF Enter
      <4>. QED
        BY <1>2, <2>6, <3>2, <4>1 DEF Fielded, Named, Typed
    <3>3. CASE r \notin {"alias", "view"}
      BY <1>2, <1>8, <2>6, <3>3 DEF Fielded, Named, Typed
    <3>. QED
      BY <3>1, <3>2, <3>3
  <2>. QED
    BY <1>2, <2>5, <2>6
<1>9. CASE r = "inplace_tuple"
  <2>1. listener'.field = listener.field
    <3>1. "field" \notin EnterTouches(r)
      BY <1>9 DEF EnterTouches
    <3>. QED
      BY <1>1, <1>3, <3>1, EnteredTouches, Untouched
  <2>2. open[d].rule = "field"
    <3>1. open[d].rule \in Rules
      BY <1>2, <1>9 DEF MayHave
    <3>. QED
      BY <1>2, <1>9, <3>1, KidsIn, DeclarersOutside
  <2>3. ~Fielded(open[d])
    <3>1. Top(open) = open[d]
      BY <1>0 DEF Top
    <3>2. Top(open).rule \in Rules
      BY <2>2, <3>1, FieldKids
    <3>3. PICK v \in Grammar[Top(open).rule] :
            /\ \E m \in 1..Len(v) : r = v[m]
            /\ Top(open).rule \in LooksBack => Top(open).word = v
      BY <1>1, <3>2, NextChild
    <3>4. Has(open[d].word, "inplace_tuple") /\ open[d].word \in Grammar["field"]
      BY <1>9, <2>2, <3>1, <3>3, FieldKids DEF Has
    <3>5. ~Has(open[d].word, "field_type")
      BY <3>4, FieldWords
    <3>. QED
      BY <2>2, <3>5 DEF Fielded, Typed
  <2>4. ASSUME NEW j \in 1..d PROVE ~Fielded(open[j]) /\ open[j].rule # "view"
    <3>1. CASE j = d
      BY <2>2, <2>3, <3>1
    <3>2. CASE j < d
      <4>1. open[d].rule \in TupleRules
        BY <2>2 DEF TupleRules
      <4>2. ~Fielded(open[j])
        BY <1>0, <1>1, <1>2, <3>2, <4>1, NoTuple
      <4>3. open[j].rule \notin PlainRules
        BY <1>0, <1>2, <3>2, <4>1 DEF FieldTrees, Holds
      <4>. QED
        BY <4>2, <4>3 DEF PlainRules
    <3>. QED
      BY <3>1, <3>2
  <2>5. CASE i \in 1..d
    BY <1>4, <1>6, <1>9, <2>1, <2>4, <2>5
  <2>6. CASE i = d + 1
    BY <1>2, <1>9, <2>6 DEF Fielded, Named, Typed
  <2>. QED
    BY <1>2, <2>5, <2>6
<1>10. CASE ~Adders(r, w)
            /\ r \notin {"alias", "view", "params", "app_decl", "table", "union", "inplace_tuple"}
  <2>1. SameField(listener, listener')
    BY <1>1, <1>3, <1>10, EnterKeepsField
  <2>2. CASE i \in 1..d
    <3>1. r # "field"
      BY <1>10 DEF Adders
    <3>2. OnField(listener) => OnField(listener') /\ listener.field.top # 0
      BY <2>1 DEF SameField, OnField
    <3>. QED
      BY <1>4, <1>6, <2>1, <2>2, <3>1, <3>2 DEF SameField
  <2>3. CASE i = d + 1
    <3>1. r # "field" /\ r # "view"
      BY <1>10 DEF Adders
    <3>2. Fielded(open'[i]) => OnField(listener')
      <4>1. CASE r \in {"types", "set_type", "sequence_type", "collection_type", "field_type",
                        "view_type_spec", "reference"}
        <5>1. Fielded(open[d])
          BY <1>0, <1>1, <4>1, FieldedParent DEF Top
        <5>. QED
          BY <1>2, <1>6, <2>1, <5>1 DEF SameField, OnField
      <4>2. CASE r \in {"param", "http_path_var_with_type", "transform_return_type"}
        <5>1. open'[i].word = w
          BY <1>2, <2>3, <4>2 DEF Frame, LooksBack
        <5>. QED
          BY <1>2, <1>10, <2>3, <4>2, <5>1 DEF Fielded, Adders, Typed
      <4>3. CASE r \notin {"types", "set_type", "sequence_type", "collection_type", "field_type",
                        "view_type_spec", "reference", "param", "http_path_var_with_type",
                        "transform_return_type"}
        BY <1>2, <1>10, <2>3, <4>3 DEF Fielded, Adders, Typed
      <4>. QED
        BY <4>1, <4>2, <4>3
    <3>3. ~Named(open'[i])
      <4>1. CASE r = "param"
        <5>1. \E k \in 1..Len(w) : w[k] \in {"field", "reference"}
          BY <1>2, <4>1 DEF Grammar, param, One
        <5>. QED
          BY <1>2, <2>3, <4>1, <5>1 DEF Named
      <4>2. CASE r # "param"
        BY <1>2, <2>3, <3>1, <4>2 DEF Named
      <4>. QED
        BY <4>1, <4>2
    <3>. QED
      BY <1>2, <2>3, <3>1, <3>2, <3>3
  <2>. QED
    BY <1>2, <2>2, <2>3
<1>. QED
  BY <1>7, <1>8, <1>9, <1>10

LEMMA FoundExited ==
  ASSUME IInv, Walked, FieldTrees, FieldsFound, Live(listener), Exits
  PROVE  FieldsFound'
<1>1. TypeOK /\ RestsFit
  BY DEF IInv, Shape
<1>0. PICK d \in Nat : d = Len(open)
  BY <1>1, FramesTyped
<1>2. /\ d \in 1..d /\ Len(open') = d - 1 /\ \A i \in 1..(d - 1) : open'[i] = open[i]
      /\ listener \in Listener /\ listener' = Exit(listener, open[d].rule, open[d].word)
  BY <1>0, <1>1, ExitedFrames
<1>3. SUFFICES ASSUME NEW i \in 1..(d - 1)
               PROVE  /\ Fielded(open[i]) => OnField(listener')
                      /\ Named(open[i]) => listener'.field.top # 0
                      /\ open[i].rule = "view" => listener'.typemap # 0
  BY <1>2 DEF FieldsFound, OnField, Fielded, Named, Live
<1>4. /\ Fielded(open[i]) => OnField(listener)
      /\ Named(open[i]) => listener.field.top # 0
      /\ open[i].rule = "view" => listener.typemap # 0
  BY <1>0, <1>2 DEF FieldsFound
<1>5. i \in 1..d /\ i < d
  BY <1>2
<1>6. CASE open[d].rule \in {"alias", "view", "params", "table", "union"}
  <2>1. open[d].rule \in Declarers
    BY <1>6 DEF Declarers
  <2>2. open[i].rule \notin FieldRules
    BY <1>0, <1>2, <1>5, <2>1 DEF FieldTrees, Holds
  <2>. QED
    BY <2>2 DEF Fielded, Named, FieldRules
<1>7. CASE open[d].rule = "inplace_tuple"
  <2>1. listener'.field = listener.field
    <3>1. "field" \notin ExitTouches(open[d].rule)
      BY <1>7 DEF ExitTouches, Inner, Gainers, Neutral
    <3>. QED
      BY <1>2, <3>1, ExitedTouches, Untouched
  <2>2. open[d].rule \in TupleRules
    BY <1>7 DEF TupleRules
  <2>3. ~Fielded(open[i])
    BY <1>0, <1>1, <1>2, <1>5, <2>2, NoTuple
  <2>4. open[i].rule \notin PlainRules
    BY <1>0, <1>2, <1>5, <2>2 DEF FieldTrees, Holds
  <2>. QED
    BY <1>4, <2>1, <2>3, <2>4 DEF PlainRules
<1>8. CASE open[d].rule \notin {"alias", "view", "params", "table", "union", "inplace_tuple"}
  <2>1. SameField(listener, listener')
    BY <1>2, <1>8, ExitKeepsField
  <2>. QED
    BY <1>4, <2>1 DEF SameField, OnField
<1>. QED
  BY <1>6, <1>7, <1>8

\* Whatever is being declared, a callback that works on a field finds it: the
\* last field name and the type under it are those of the rules that are open.
LEMMA FoundAlways == Spec => []FieldsFound
<1>1. Init => FieldsFound
  <2>1. SUFFICES ASSUME Init PROVE FieldsFound
    OBVIOUS
  <2>2. Len(open) = 1 /\ \A i \in 1..1 : open[i].rule = "file"
    BY <2>1, Begun
  <2>. QED
    BY <2>2 DEF FieldsFound, Fielded, Named, Typed
<1>2. ASSUME IInv, Walked, FieldTrees, FieldsFound, [Next]_vars PROVE FieldsFound'
  <2>1. TypeOK
    BY <1>2 DEF IInv
  <2>2. CASE open' = open /\ (listener' = listener \/ ~Live(listener'))
    BY <1>2, <2>2 DEF FieldsFound, OnField, Live
  <2>. QED
    BY <1>2, <2>1, <2>2, Steps, FoundEntered, FoundExited
<1>. QED
  BY Invariance, WalkedAlways, FieldTreesAlways, <1>1, <1>2, PTL DEF Spec

-----------------------------------------------------------------------------
\* The application that types go to

AppsFound ==
  Live(listener) =>
    \A i \in 1..Len(open) :
      /\ open[i].rule = "application"
           => listener.app # 0 \/ \E k \in 1..Len(open[i].rest) : open[i].rest[k] = "name_with_attribs"
      /\ open[i].rule = "app_decl" /\ HasAny(open[i].word, {"table", "alias"}) => HasTypes(listener)
      /\ open[i].rule \in {"table", "alias"} => HasTypes(listener)

\* Where applications and the rules that may fail by design are.
AppTrees ==
  /\ Holds(AppRules, Rules \ Tops)
  /\ Under({"field", "inplace_tuple", "table_stmts", "table_def", "param"}, {"table", "param_list"})
  /\ Under({"inplace_table", "table_stmts", "table_def"}, {"table"})
  /\ Under({"field", "inplace_tuple", "param"}, {"table_stmts", "param_list"})
  /\ Under({"param"}, {"param_list"})
  /\ Under({"http_path_var_with_type", "http_path_suffix"}, {"http_path"})
  /\ Under({"model_name"}, {"facade"})
  /\ Under({"template_expression"}, {"template_statement"})

LEMMA AppTreesAlways == Spec => []AppTrees
<1>1. /\ Init => Holds(AppRules, Rules \ Tops)
      /\ IInv /\ Holds(AppRules, Rules \ Tops) /\ [Next]_vars => Holds(AppRules, Rules \ Tops)'
  <2>1. Closed(AppRules \cup (Rules \ Tops), Rules \ Tops)
    BY AppParents DEF Closed
  <2>2. "file" \notin AppRules \cup (Rules \ Tops)
    BY FileIsNoRule DEF AppRules, Symbols
  <2>. QED
    BY <2>1, <2>2, HoldsStep
<1>2. /\ Init => Under({"field", "inplace_tuple", "table_stmts", "table_def", "param"}, {"table", "param_list"})
      /\ IInv /\ Under({"field", "inplace_tuple", "table_stmts", "table_def", "param"}, {"table", "param_list"}) /\ [Next]_vars
           => Under({"field", "inplace_tuple", "table_stmts", "table_def", "param"}, {"table", "param_list"})'
  <2>. DEFINE A == {"field", "inplace_tuple", "table_stmts", "table_def", "param"}
              B == {"table", "param_list"}
  <2>1. \A r \in Rules : r \in A \cup B \/ Alphabet[r] \cap A = {}
    BY SMTT(60) DEF Alphabet, Rules, Grammar
  <2>2. {"file", "sysl_file"} \cap A = {}
    OBVIOUS
  <2>. HIDE DEF A, B
  <2>3. (Init => Under(A, B)) /\ (IInv /\ Under(A, B) /\ [Next]_vars => Under(A, B)')
    BY <2>1, <2>2, UnderStep
  <2>. QED
    BY <2>3 DEF A, B
<1>3. /\ Init => Under({"inplace_table", "table_stmts", "table_def"}, {"table"})
      /\ IInv /\ Under({"inplace_table", "table_stmts", "table_def"}, {"table"}) /\ [Next]_vars
           => Under({"inplace_table", "table_stmts", "table_def"}, {"table"})'
  <2>. DEFINE A == {"inplace_table", "table_stmts", "table_def"}
              B == {"table"}
  <2>1. \A r \in Rules : r \in A \cup B \/ Alphabet[r] \cap A = {}
    BY SMTT(60) DEF Alphabet, Rules, Grammar
  <2>2. {"file", "sysl_file"} \cap A = {}
    OBVIOUS
  <2>. HIDE DEF A, B
  <2>3. (Init => Under(A, B)) /\ (IInv /\ Under(A, B) /\ [Next]_vars => Under(A, B)')
    BY <2>1, <2>2, UnderStep
  <2>. QED
    BY <2>3 DEF A, B
<1>4. /\ Init => Under({"field", "inplace_tuple", "param"}, {"table_stmts", "param_list"})
      /\ IInv /\ Under({"field", "inplace_tuple", "param"}, {"table_stmts", "param_list"}) /\ [Next]_vars
           => Under({"field", "inplace_tuple", "param"}, {"table_stmts", "param_list"})'
  <2>. DEFINE A == {"field", "inplace_tuple", "param"}
              B == {"table_stmts", "param_list"}
  <2>1. \A r \in Rules : r \in A \cup B \/ Alphabet[r] \cap A = {}
    BY SMTT(60) DEF Alphabet, Rules, Grammar
  <2>2. {"file", "sysl_file"} \cap A = {}
    OBVIOUS
  <2>. HIDE DEF A, B
  <2>3. (Init => Under(A, B)) /\ (IInv /\ Under(A, B) /\ [Next]_vars => Under(A, B)')
    BY <2>1, <2>2, UnderStep
  <2>. QED
    BY <2>3 DEF A, B
<1>5. /\ Init => Under({"param"}, {"param_list"})
      /\ IInv /\ Under({"param"}, {"param_list"}) /\ [Next]_vars
           => Under({"param"}, {"param_list"})'
  <2>. DEFINE A == {"param"}
              B == {"param_list"}
  <2>1. \A r \in Rules : r \in A \cup B \/ Alphabet[r] \cap A = {}
    BY SMTT(60) DEF Alphabet, Rules, Grammar
  <2>2. {"file", "sysl_file"} \cap A = {}
    OBVIOUS
  <2>. HIDE DEF A, B
  <2>3. (Init => Under(A, B)) /\ (IInv /\ Under(A, B) /\ [Next]_vars => Under(A, B)')
    BY <2>1, <2>2, UnderStep
  <2>. QED
    BY <2>3 DEF A, B
<1>6. /\ Init => Under({"http_path_var_with_type", "http_path_suffix"}, {"http_path"})
      /\ IInv /\ Under({"http_path_var_with_type", "http_path_suffix"}, {"http_path"}) /\ [Next]_vars
           => Under({"http_path_var_with_type", "http_path_suffix"}, {"http_path"})'
  <2>. DEFINE A == {"http_path_var_with_type", "http_path_suffix"}
              B == {"http_path"}
  <2>1. \A r \in Rules : r \in A \cup B \/ Alphabet[r] \cap A = {}
    BY SMTT(60) DEF Alphabet, Rules, Grammar
  <2>2. {"file", "sysl_file"} \cap A = {}
    OBVIOUS
  <2>. HIDE DEF A, B
  <2>3. (Init => Under(A, B)) /\ (IInv /\ Under(A, B) /\ [Next]_vars => Under(A, B)')
    BY <2>1, <2>2, UnderStep
  <2>. QED
    BY <2>3 DEF A, B
<1>7. /\ Init => Under({"model_name"}, {"facade"})
      /\ IInv /\ Under({"model_name"}, {"facade"}) /\ [Next]_vars
           => Under({"model_name"}, {"facade"})'
  <2>. DEFINE A == {"model_name"}
              B == {"facade"}
  <2>1. \A r \in Rules : r \in A \cup B \/ Alphabet[r] \cap A = {}
    BY SMTT(60) DEF Alphabet, Rules, Grammar
  <2>2. {"file", "sysl_file"} \cap A = {}
    OBVIOUS
  <2>. HIDE DEF A, B
  <2>3. (Init => Under(A, B)) /\ (IInv /\ Under(A, B) /\ [Next]_vars => Under(A, B)')
    BY <2>1, <2>2, UnderStep
  <2>. QED
    BY <2>3 DEF A, B
<1>8. /\ Init => Under({"template_expression"}, {"template_statement"})
      /\ IInv /\ Under({"template_expression"}, {"template_statement"}) /\ [Next]_vars
           => Under({"template_expression"}, {"template_statement"})'
  <2>. DEFINE A == {"template_expression"}
              B == {"template_statement"}
  <2>1. \A r \in Rules : r \in A \cup B \/ Alphabet[r] \cap A = {}
    BY SMTT(60) DEF Alphabet, Rules, Grammar
  <2>2. {"file", "sysl_file"} \cap A = {}
    OBVIOUS
  <2>. HIDE DEF A, B
  <2>3. (Init => Under(A, B)) /\ (IInv /\ Under(A, B) /\ [Next]_vars => Under(A, B)')
    BY <2>1, <2>2, UnderStep
  <2>. QED
    BY <2>3 DEF A, B
<1>9. Init => AppTrees
  BY <1>1, <1>2, <1>3, <1>4, <1>5, <1>6, <1>7, <1>8 DEF AppTrees
<1>10. IInv /\ AppTrees /\ [Next]_vars => AppTrees'
  BY <1>1, <1>2, <1>3, <1>4, <1>5, <1>6, <1>7, <1>8 DEF AppTrees
<1>. QED
  BY Invariance, <1>9, <1>10, PTL DEF Spec

LEMMA AppsEntered ==
  ASSUME IInv, Walked, AppTrees, AppsFound, Live(listener),
         NEW n, NEW r, NEW w, Enters(n, r, w)
  PROVE  AppsFound'
<1>1. TypeOK /\ RestsFit /\ listener \in Listener
  BY DEF IInv, Shape, TypeOK
<1>0. PICK d \in Nat : d = Len(open)
  BY <1>1, FramesTyped
<1>2. /\ d \in 1..d /\ Len(open') = d + 1 /\ r \in Rules /\ w \in Grammar[r]
      /\ open'[d + 1].rule = r /\ open'[d + 1].rest = w /\ open'[d + 1].word = Frame(r, w).word
      /\ open[d].rule \in Rules \cup {"file"} /\ MayHave(open[d].rule, r)
      /\ n \in 1..Len(open[d].rest) /\ r = open[d].rest[n] /\ open[d].rest \in Seq(Symbols)
      /\ open'[d].rest = SubSeq(open[d].rest, n + 1, Len(open[d].rest))
      /\ \A i \in 1..d : open'[i].rule = open[i].rule /\ open'[i].word = open[i].word
      /\ \A i \in 1..(d - 1) : open'[i].rest = open[i].rest
  BY <1>0, <1>1, EnteredFrames
<1>3. /\ listener' \in Entered(listener, r, w)
      /\ \A m \in 1..(n - 1) : open[d].rest[m] \notin Rules
  BY <1>0 DEF Enters, NextIs, Top
<1>4. SUFFICES ASSUME Live(listener'), NEW i \in 1..(d + 1)
               PROVE  /\ open'[i].rule = "application"
                          => \/ listener'.app # 0
                             \/ \E k \in 1..Len(open'[i].rest) : open'[i].rest[k] = "name_with_attribs"
                      /\ open'[i].rule = "app_decl" /\ HasAny(open'[i].word, {"table", "alias"})
                           => HasTypes(listener')
                      /\ open'[i].rule \in {"table", "alias"} => HasTypes(listener')
  BY <1>2 DEF AppsFound, HasTypes
<1>5. \A j \in 1..d :
        /\ open[j].rule = "application"
             => \/ listener.app # 0
                \/ \E k \in 1..Len(open[j].rest) : open[j].rest[k] = "name_with_attribs"
        /\ open[j].rule = "app_decl" /\ HasAny(open[j].word, {"table", "alias"}) => HasTypes(listener)
        /\ open[j].rule \in {"table", "alias"} => HasTypes(listener)
  BY <1>0 DEF AppsFound
<1>6. open[d].rule \in Rules => r \in Alphabet[open[d].rule]
  BY <1>2, KidsIn
<1>7. r \in {"name_with_attribs", "app_decl"} =>
        open[d].rule = "application" /\ \A j \in 1..d : open[j].rule \notin AppRules
  <2>1. SUFFICES ASSUME r \in {"name_with_attribs", "app_decl"}
                 PROVE  open[d].rule = "application" /\ \A j \in 1..d : open[j].rule \notin AppRules
    OBVIOUS
  <2>2. open[d].rule = "application"
    BY <1>2, <1>6, <2>1, AppParents DEF MayHave
  <2>. QED
    BY <1>0, <2>2 DEF AppTrees, Holds, AppRules, Tops
<1>8. CASE r = "name_with_attribs"
  <2>1. listener'.app # 0
    BY <1>1, <1>3, <1>8, AppsDeclared DEF Entered
  <2>2. \A j \in 1..d : open'[j].rule \notin AppRules
    BY <1>2, <1>7, <1>8
  <2>. QED
    BY <1>2, <1>8, <2>1, <2>2 DEF AppRules
<1>9. CASE r = "app_decl"
  <2>1. listener' = EnterApp_decl(listener, w)
    BY <1>3, <1>9 DEF Entered, Enter
  <2>2. listener.app # 0
    <3>1. open[d].rule = "application"
      BY <1>7, <1>9
    <3>2. SUFFICES ASSUME NEW k \in 1..Len(open[d].rest), open[d].rest[k] = "name_with_attribs" PROVE FALSE
      BY <1>2, <1>5, <3>1
    <3>3. "application" \in Rules /\ "name_with_attribs" \in Rules
      BY DEF Rules, Grammar
    <3>4. PICK v \in Grammar[open[d].rule] : \E m \in 0..Len(v) : WalkedTo(d, v, m)
      BY <1>0, <1>2, <3>1, <3>3 DEF Walked
    <3>5. PICK m \in 0..Len(v) : WalkedTo(d, v, m)
      BY <3>4
    <3>6. v = <<"name_with_attribs", "app_decl">>
      BY <3>1, <3>4 DEF Grammar, application
    <3>7. /\ Len(open[d].rest) = 2 - m /\ m \in 0..2
          /\ \A l \in 1..Len(open[d].rest) : open[d].rest[l] = v[m + l]
      BY <3>5, <3>6 DEF WalkedTo
    <3>8. m + k = 1 /\ m + n = 2
      <4>1. m + k \in 1..2 /\ m + n \in 1..2
        BY <1>2, <3>2, <3>7
      <4>2. v[m + k] = "name_with_attribs" /\ v[m + n] = "app_decl"
        BY <1>2, <1>9, <3>2, <3>7
      <4>3. v[1] = "name_with_attribs" /\ v[2] = "app_decl"
        BY <3>6
      <4>. QED
        BY <4>1, <4>2, <4>3
    <3>9. k \in 1..(n - 1)
      BY <1>2, <3>2, <3>7, <3>8
    <3>. QED
      BY <1>3, <3>2, <3>3, <3>9
  <2>3. listener'.app # 0 /\ (HasAny(w, {"table", "alias"}) => HasTypes(listener'))
    BY <1>1, <2>1, <2>2, AppsDeclared
  <2>4. \A j \in 1..d : open'[j].rule \notin AppRules
    BY <1>2, <1>7, <1>9
  <2>5. open'[d + 1].word = w
    BY <1>2, <1>9 DEF Frame, LooksBack
  <2>. QED
    BY <1>2, <1>9, <2>3, <2>4, <2>5 DEF AppRules
<1>10. CASE r \notin {"name_with_attribs", "app_decl"}
  <2>1. listener'.app = listener.app /\ (HasTypes(listener) => HasTypes(listener'))
    BY <1>1, <1>3, <1>10, AppsKept
  <2>2. CASE i \in 1..(d - 1)
    BY <1>2, <1>5, <2>1, <2>2
  <2>3. CASE i = d
    <3>1. SUFFICES ASSUME open[d].rule = "application",
                          NEW k \in 1..Len(open[d].rest), open[d].rest[k] = "name_with_attribs",
                          listener.app = 0
                   PROVE  \E l \in 1..Len(open'[d].rest) : open'[d].rest[l] = "name_with_attribs"
      BY <1>2, <1>5, <2>1, <2>3
    <3>2. "name_with_attribs" \in Rules
      BY DEF Rules, Grammar
    <3>3. k > n
      <4>1. k \notin 1..(n - 1) /\ k # n
        BY <1>2, <1>3, <1>10, <3>1, <3>2
      <4>2. k \in Nat /\ n \in Nat /\ k >= 1
        BY <1>2, <3>1
      <4>. QED
        BY <4>1, <4>2
    <3>4. /\ Len(open'[d].rest) = Len(open[d].rest) - n
          /\ \A l \in 1..(Len(open[d].rest) - n) : n + l \in 1..Len(open[d].rest)
                                               /\ open'[d].rest[l] = open[d].rest[n + l]
      BY <1>2, RestOfWord
    <3>5. k - n \in 1..(Len(open[d].rest) - n) /\ n + (k - n) = k
      BY <1>2, <3>1, <3>3
    <3>. QED
      BY <3>1, <3>4, <3>5
  <2>4. CASE i = d + 1
    <3>1. r = "application" => \E k \in 1..Len(w) : w[k] = "name_with_attribs"
      <4>1. SUFFICES ASSUME r = "application" PROVE \E k \in 1..Len(w) : w[k] = "name_with_attribs"
        OBVIOUS
      <4>2. w = <<"name_with_attribs", "app_decl">>
        BY <1>2, <4>1 DEF Grammar, application
      <4>. QED
        BY <4>2
    <3>2. r \in {"table", "alias"} => HasTypes(listener)
      <4>1. SUFFICES ASSUME r \in {"table", "alias"} PROVE HasTypes(listener)
        OBVIOUS
      <4>2. open[d].rule \in {"app_decl", "inplace_table"} /\ open[d].rule \in Rules
        BY <1>2, <1>6, <4>1, AppParents DEF MayHave
      <4>3. CASE open[d].rule = "app_decl"
        <5>1. Top(open) = open[d]
          BY <1>0 DEF Top
        <5>2. PICK v \in Grammar[Top(open).rule] :
                /\ \E m \in 1..Len(v) : r = v[m]
                /\ Top(open).rule \in LooksBack => Top(open).word = v
          BY <1>1, <4>2, <5>1, NextChild
        <5>3. HasAny(open[d].word, {"table", "alias"})
          BY <4>1, <4>3, <5>1, <5>2 DEF HasAny, Has, LooksBack
        <5>. QED
          BY <1>2, <1>5, <4>3, <5>3
      <4>4. CASE open[d].rule = "inplace_table"
        <5>1. PICK j \in 1..(d - 1) : open[j].rule \in {"table"}
          BY <1>0, <1>2, <4>4 DEF AppTrees, Under
        <5>. QED
          BY <1>2, <1>5, <5>1
      <4>. QED
        BY <4>2, <4>3, <4>4
    <3>. QED
      BY <1>2, <1>10, <2>1, <2>4, <3>1, <3>2
  <2>. QED
    BY <1>2, <2>2, <2>3, <2>4
<1>. QED
  BY <1>8, <1>9, <1>10

LEMMA AppsExited ==
  ASSUME IInv, AppsFound, Live(listener), Exits
  PROVE  AppsFound'
<1>1. TypeOK
  BY DEF IInv
<1>0. PICK d \in Nat : d = Len(open)
  BY <1>1, FramesTyped
<1>2. /\ d \in 1..d /\ Len(open') = d - 1 /\ \A i \in 1..(d - 1) : open'[i] = open[i] /\ i \in 1..d
      /\ listener \in Listener /\ listener' = Exit(listener, open[d].rule, open[d].word)
  BY <1>0, <1>1, ExitedFrames
<1>3. listener'.app = listener.app /\ listener'.apps = listener.apps
  <2>1. {"app", "apps"} \cap ExitTouches(open[d].rule) = {}
    BY DEF ExitTouches
  <2>2. Touches(listener, listener', ExitTouches(open[d].rule))
    BY <1>2, ExitedTouches
  <2>. QED
    BY <1>2, <2>1, <2>2 DEF Touches, Listener
<1>. QED
  BY <1>0, <1>2, <1>3 DEF AppsFound, HasTypes

\* A table or an alias is declared in an application that has a map of types.
LEMMA AppsAlways == Spec => []AppsFound
<1>1. Init => AppsFound
  <2>1. SUFFICES ASSUME Init PROVE AppsFound
    OBVIOUS
  <2>2. Len(open) = 1 /\ \A i \in 1..1 : open[i].rule = "file"
    BY <2>1, Begun
  <2>. QED
    BY <2>2 DEF AppsFound
<1>2. ASSUME IInv, Walked, AppTrees, AppsFound, [Next]_vars PROVE AppsFound'
  <2>1. TypeOK
    BY <1>2 DEF IInv
  <2>2. CASE open' = open /\ (listener' = listener \/ ~Live(listener'))
    BY <1>2, <2>2 DEF AppsFound, HasTypes, Live
  <2>. QED
    BY <1>2, <2>1, <2>2, Steps, AppsEntered, AppsExited
<1>. QED
  BY Invariance, WalkedAlways, AppTreesAlways, <1>1, <1>2, PTL DEF Spec

-----------------------------------------------------------------------------
\* The scopes that callbacks look for

\* The scope of the i-th open rule, or the one it is in.
Entry(i) == listener.scope[Cardinality(Scoped(i))]

ScopesFound ==
  Live(listener) =>
    /\ \A j \in 1..Len(listener.scope) : SortedEntry(listener.scope[j])
    /\ \A i \in 1..Len(open) :
         /\ HasScope(open[i]) /\ open[i].rule \in Firm => Entry(i).by = open[i].rule
         /\ Attributed(open[i]) => Cardinality(Scoped(i)) > 0 /\ Entry(i).attrs
         /\ open[i].rule = "annotation" => Cardinality(Scoped(i)) > 0 /\ Entry(i).kind \in Annotated

LEMMA FirmTree ==
  /\ Init => Holds(Firm, Firms)
  /\ IInv /\ Holds(Firm, Firms) /\ [Next]_vars => Holds(Firm, Firms)'
<1>1. \A r \in (Firm \cup Firms) \cap Rules : Alphabet[r] \cap Rules \subseteq Firms
  <2>1. \A r \in Firm \cap Rules : Alphabet[r] \cap Rules \subseteq Firms
    <3>1. "ALT" \notin Rules /\ "UNTIL" \notin Rules /\ "FOR_EACH" \notin Rules /\ "FOR" \notin Rules
          /\ "LOOP" \notin Rules /\ "WHILE" \notin Rules /\ "WHATEVER" \notin Rules
      BY DEF Rules, Grammar
    <3>. QED
      BY SMTT(60), <3>1 DEF Alphabet, Firm, Firms, Blocked
  <2>2. \A r \in Firms \cap Rules : Alphabet[r] \cap Rules \subseteq Firms
    <3>1. "ALT" \notin Rules /\ "UNTIL" \notin Rules /\ "FOR_EACH" \notin Rules /\ "FOR" \notin Rules
          /\ "LOOP" \notin Rules /\ "WHILE" \notin Rules /\ "WHATEVER" \notin Rules
          /\ "QSTRING" \notin Rules /\ "NativeDataTypes" \notin Rules
      BY DEF Rules, Grammar
    <3>. QED
      BY SMTT(60), <3>1 DEF Alphabet, Firms, Blocked
  <2>. QED
    BY <2>1, <2>2
<1>2. "file" \notin Firm \cup Firms
  BY DEF Firm, Firms, Blocked
<1>. QED
  BY <1>1, <1>2, HoldsStep DEF Closed

\* The scopes of the outer rules come first.
LEMMA Ranked ==
  ASSUME IInv, Live(listener), NEW i \in 0..Len(open)
  PROVE  /\ Cardinality(Scoped(i)) \in 0..Len(listener.scope)
         /\ Len(listener.scope) = Cardinality(Scoped(Len(open)))
         /\ i > 0 /\ HasScope(open[i]) => Cardinality(Scoped(i)) > 0
         /\ \A j \in 1..i : HasScope(open[j]) => Cardinality(Scoped(i)) > 0
<1>1. Len(listener.scope) = Cardinality(Scoped(Len(open)))
  BY DEF IInv, ScopesInPlace
<1>2. Len(open) \in Nat /\ i \in Nat
  BY FramesTyped DEF IInv
<1>3. /\ IsFiniteSet(Scoped(Len(open))) /\ Cardinality(Scoped(Len(open))) \in Nat
      /\ IsFiniteSet(Scoped(i)) /\ Cardinality(Scoped(i)) \in Nat
  BY <1>2, ScopesInOrder
<1>4. Scoped(i) \subseteq Scoped(Len(open))
  BY <1>2 DEF Scoped
<1>5. Cardinality(Scoped(i)) <= Cardinality(Scoped(Len(open)))
  BY <1>3, <1>4, FS_Subset
<1>6. ASSUME NEW j \in 1..i, HasScope(open[j]) PROVE Cardinality(Scoped(i)) > 0
  <2>1. j \in Scoped(i)
    BY <1>6 DEF Scoped
  <2>2. Cardinality(Scoped(i)) # 0
    BY <1>3, <2>1, FS_EmptySet
  <2>. QED
    BY <1>3, <2>2
<1>. QED
  BY <1>1, <1>2, <1>3, <1>5, <1>6

LEMMA FoundScopesEntered ==
  ASSUME IInv, AppTrees, ScopesFound, Live(listener), NEW n, NEW r, NEW w, Enters(n, r, w)
  PROVE  ScopesFound'
<1>1. TypeOK /\ RestsFit /\ listener \in Listener
  BY DEF IInv, Shape, TypeOK
<1>0. PICK d \in Nat : d = Len(open)
  BY <1>1, FramesTyped
<1>. DEFINE s == listener
            t == listener'
            c == Cardinality(Scoped(d))
<1>2. /\ d \in 1..d /\ Len(open') = d + 1 /\ r \in Rules /\ w \in Grammar[r]
      /\ open'[d + 1].rule = r /\ open'[d + 1].rest = w /\ open'[d + 1].word = Frame(r, w).word
      /\ open[d].rest \in Seq(Symbols) /\ n \in 1..Len(open[d].rest)
      /\ open'[d].rest = SubSeq(open[d].rest, n + 1, Len(open[d].rest))
      /\ \A i \in 1..d : open'[i].rule = open[i].rule /\ open'[i].word = open[i].word
      /\ \A i \in 1..(d - 1) : open'[i].rest = open[i].rest
      /\ t \in Entered(s, r, w)
  BY <1>0, <1>1, EnteredFrames
<1>3. SUFFICES ASSUME Live(t) PROVE ScopesFound'
  BY DEF ScopesFound
<1>4. /\ Older(s.scope, t.scope)
      /\ Scopes(r, w) => NewEntry(t.scope[Len(s.scope) + 1], r, w)
      /\ r = "table_stmts" /\ Has(w, "annotation") /\ s.scope # <<>> => t.scope[Len(s.scope)].attrs
      /\ r = "annotation" => TopKind(s) \in Annotated /\ t.scope = s.scope
  <2>1. r = "simple_endpoint" => ~(Has(w, "WHATEVER") /\ Has(w, "statements"))
    BY <1>2, NoBodyNoStatement
  <2>. QED
    BY <1>1, <1>2, <1>3, <2>1, EnterScopes
<1>5. t \in Listener /\ Entering(s, t, r, w)
  BY <1>1, <1>3, EnteredEffect
<1>6. /\ \A i \in 0..d : Scoped(i)' = Scoped(i)
      /\ Scoped(d + 1)' = IF Scopes(r, w) THEN Scoped(d) \cup {d + 1} ELSE Scoped(d)
  BY <1>0, <1>1, ScopedEntered
<1>7. /\ Len(s.scope) = c /\ c \in Nat /\ s.scope \in Seq(ScopeEntry) /\ t.scope \in Seq(ScopeEntry)
      /\ \A i \in 1..d : Cardinality(Scoped(i)) \in 0..c
  <2>1. s.scope \in Seq(ScopeEntry) /\ t.scope \in Seq(ScopeEntry)
    BY <1>1, <1>5, ListenerTypes
  <2>2. Len(s.scope) = c /\ \A i \in 1..d : Cardinality(Scoped(i)) \in 0..Len(s.scope)
    BY <1>0, Ranked
  <2>. QED
    BY <2>1, <2>2
<1>8. IF Scopes(r, w) THEN /\ Len(t.scope) = c + 1 /\ t.scope[c + 1].by = r
                           /\ Cardinality(Scoped(d + 1)') = c + 1
                      ELSE Len(t.scope) = c /\ Cardinality(Scoped(d + 1)') = c
  <2>1. CASE Scopes(r, w)
    <3>1. IsFiniteSet(Scoped(d)) /\ d + 1 \notin Scoped(d)
      BY <1>0, ScopesInOrder
    <3>2. Cardinality(Scoped(d + 1)') = c + 1
      BY <1>6, <2>1, <3>1, FS_AddElement
    <3>. QED
      BY <1>5, <1>7, <2>1, <3>2 DEF Entering, PushedScope
  <2>2. CASE ~Scopes(r, w)
    BY <1>5, <1>6, <1>7, <2>2 DEF Entering, SameScope
  <2>. QED
    BY <2>1, <2>2
<1>9. \A j \in 1..c : SortedEntry(s.scope[j])
  BY <1>7 DEF ScopesFound
<1>. HIDE DEF s, t, c
<1>10. ASSUME NEW j \in 1..Len(t.scope) PROVE SortedEntry(t.scope[j])
  <2>1. CASE j \in 1..c
    BY <1>4, <1>7, <1>9, <2>1 DEF Older, SortedEntry
  <2>2. CASE j \notin 1..c
    <3>1. Scopes(r, w) /\ j = c + 1
      BY <1>7, <1>8, <2>2
    <3>2. r # "set_type"
      BY <3>1, ScopedForDomain DEF Scopes, Scoping
    <3>. QED
      BY <1>4, <1>7, <1>8, <3>1, <3>2 DEF NewEntry, SortedEntry
  <2>. QED
    BY <2>1, <2>2
<1>11. ASSUME NEW i \in 1..d, Cardinality(Scoped(i)) > 0
       PROVE  /\ t.scope[Cardinality(Scoped(i)')].by = s.scope[Cardinality(Scoped(i))].by
              /\ t.scope[Cardinality(Scoped(i)')].kind = s.scope[Cardinality(Scoped(i))].kind
              /\ s.scope[Cardinality(Scoped(i))].attrs => t.scope[Cardinality(Scoped(i)')].attrs
  <2>1. Scoped(i)' = Scoped(i)
    BY <1>6
  <2>2. Cardinality(Scoped(i)) \in 1..Len(s.scope)
    BY <1>7, <1>11
  <2>. QED
    BY <1>4, <2>1, <2>2 DEF Older
<1>12. ASSUME NEW i \in 1..d
       PROVE  /\ HasScope(open'[i]) /\ open'[i].rule \in Firm => t.scope[Cardinality(Scoped(i)')].by = open'[i].rule
              /\ Attributed(open'[i]) => Cardinality(Scoped(i)') > 0 /\ t.scope[Cardinality(Scoped(i)')].attrs
              /\ open'[i].rule = "annotation"
                   => Cardinality(Scoped(i)') > 0 /\ t.scope[Cardinality(Scoped(i)')].kind \in Annotated
  <2>1. /\ HasScope(open[i]) /\ open[i].rule \in Firm => s.scope[Cardinality(Scoped(i))].by = open[i].rule
        /\ Attributed(open[i]) => Cardinality(Scoped(i)) > 0 /\ s.scope[Cardinality(Scoped(i))].attrs
        /\ open[i].rule = "annotation"
                   => Cardinality(Scoped(i)) > 0 /\ s.scope[Cardinality(Scoped(i))].kind \in Annotated
    BY <1>0 DEF ScopesFound, Entry, s
  <2>2. HasScope(open[i]) => Cardinality(Scoped(i)) > 0
    BY <1>0, Ranked
  <2>3. HasScope(open'[i]) <=> HasScope(open[i])
    BY <1>2 DEF HasScope
  <2>4. Attributed(open'[i]) => Attributed(open[i])
    <3>1. CASE i < d
      BY <1>2, <3>1 DEF Attributed
    <3>2. CASE i = d
      <4>1. Has(open'[d].rest, "annotation") => Has(open[d].rest, "annotation")
        BY <1>2, RestOfWord DEF Has
      <4>. QED
        BY <1>2, <3>2, <4>1 DEF Attributed
    <3>. QED
      BY <3>1, <3>2
  <2>5. Scoped(i)' = Scoped(i) /\ open'[i].rule = open[i].rule
    BY <1>2, <1>6
  <2>. QED
    BY <1>11, <2>1, <2>2, <2>3, <2>4, <2>5
<1>13. /\ HasScope(open'[d + 1]) /\ r \in Firm => t.scope[Cardinality(Scoped(d + 1)')].by = r
       /\ Attributed(open'[d + 1])
             => Cardinality(Scoped(d + 1)') > 0 /\ t.scope[Cardinality(Scoped(d + 1)')].attrs
       /\ r = "annotation"
             => Cardinality(Scoped(d + 1)') > 0 /\ t.scope[Cardinality(Scoped(d + 1)')].kind \in Annotated
  <2>1. HasScope(open'[d + 1]) => Scopes(r, w)
    BY <1>2 DEF HasScope, Scopes, Frame, Has
  <2>2. CASE r = "union" /\ Attributed(open'[d + 1])
    <3>1. Scopes(r, w)
      BY <2>2 DEF Scopes, Scoping
    <3>2. Has(w, "annotation")
      BY <1>2, <2>2 DEF Attributed, Frame, LooksBack
    <3>. QED
      BY <1>4, <1>7, <1>8, <2>1, <2>2, <3>1, <3>2 DEF NewEntry
  <2>3. CASE r = "table_stmts" /\ Attributed(open'[d + 1])
    <3>1. ~Scopes(r, w)
      BY <2>3, ScopedForDomain DEF Scopes, Scoping
    <3>2. Has(w, "annotation")
      BY <1>2, <2>3 DEF Attributed
    <3>3. open[d].rule = "table_def" /\ open[d].rule \in Rules
      <4>1. MayHave(open[d].rule, r) /\ open[d].rule \in Rules \cup {"file"}
        BY <1>0, <1>1, EnteredFrames
      <4>2. open[d].rule \in Rules /\ r \in Alphabet[open[d].rule]
        BY <2>3, <4>1, KidsIn DEF MayHave
      <4>3. \A q \in Rules : "table_stmts" \in Alphabet[q] => q = "table_def"
        BY SMTT(60) DEF Alphabet, Rules, Grammar
      <4>. QED
        BY <2>3, <4>2, <4>3
    <3>4. PICK j \in 1..(d - 1) : open[j].rule = "table"
      BY <1>0, <1>2, <3>3 DEF AppTrees, Under
    <3>5. c > 0
      <4>1. HasScope(open[j]) /\ j \in 1..d /\ d \in 0..Len(open)
        BY <1>0, <3>4 DEF HasScope, Scoping
      <4>. QED
        BY <1>0, <4>1, Ranked DEF c
    <3>. QED
      BY <1>4, <1>7, <1>8, <2>1, <2>3, <3>1, <3>2, <3>5
  <2>4. CASE r = "annotation"
    <3>1. ~Scopes(r, w)
      BY <2>4, ScopedForDomain DEF Scopes, Scoping
    <3>2. s.scope # <<>> /\ Top(s.scope).kind \in Annotated
      <4>1. "" \notin Annotated
        BY DEF Annotated
      <4>. QED
        BY <1>4, <2>4, <4>1 DEF TopKind
    <3>3. ~Attributed(open'[d + 1])
      BY <1>2, <2>4 DEF Attributed
    <3>. QED
      BY <1>4, <1>7, <1>8, <2>1, <2>4, <3>1, <3>2, <3>3 DEF Top, Firm, Blocked
  <2>5. CASE r # "annotation" /\ ~Attributed(open'[d + 1])
    BY <1>8, <2>1, <2>5
  <2>6. Attributed(open'[d + 1]) => r \in {"union", "table_stmts"}
    BY <1>2 DEF Attributed
  <2>. QED
    BY <2>2, <2>3, <2>4, <2>5, <2>6
<1>14. \A i \in 1..(d + 1) :
         /\ HasScope(open'[i]) /\ open'[i].rule \in Firm => t.scope[Cardinality(Scoped(i)')].by = open'[i].rule
         /\ Attributed(open'[i]) => Cardinality(Scoped(i)') > 0 /\ t.scope[Cardinality(Scoped(i)')].attrs
         /\ open'[i].rule = "annotation"
              => Cardinality(Scoped(i)') > 0 /\ t.scope[Cardinality(Scoped(i)')].kind \in Annotated
  BY <1>2, <1>12, <1>13
<1>. QED
  BY <1>2, <1>10, <1>14 DEF ScopesFound, Entry, t

LEMMA FoundScopesExited ==
  ASSUME IInv, Holds(Firm, Firms), ScopesFound, Live(listener), Exits, ScopesInPlace'
  PROVE  ScopesFound'
<1>1. TypeOK /\ RestsFit /\ listener \in Listener
  BY DEF IInv, Shape, TypeOK
<1>0. PICK d \in Nat : d = Len(open)
  BY <1>1, FramesTyped
<1>. DEFINE s == listener
            t == listener'
            r == open[d].rule
<1>2. /\ d \in 1..d /\ Len(open') = d - 1 /\ \A i \in 1..(d - 1) : open'[i] = open[i] /\ i \in 1..d
      /\ t = Exit(s, r, open[d].word)
  BY <1>0, <1>1, ExitedFrames
<1>3. SUFFICES ASSUME Live(t) PROVE ScopesFound'
  BY DEF ScopesFound
<1>4. \A i \in 0..(d - 1) : Scoped(i)' = Scoped(i)
  BY <1>2 DEF Scoped
<1>5. s.scope \in Seq(ScopeEntry) /\ \A j \in 1..Len(s.scope) : SortedEntry(s.scope[j])
  BY <1>1, ListenerTypes DEF ScopesFound
<1>6. /\ r \notin Sets => t.scope \in {s.scope, Pop(s.scope)}
      /\ r \in Sets =>
                  \/ t.scope = s.scope
                  \/ \E e \in ScopeEntry :
                       /\ s.scope # <<>> /\ t.scope = Append(Pop(s.scope), e)
                       /\ e.kind = "Type" /\ e.by = "set_type" /\ e.attrs
  BY <1>1, <1>2, <1>3, ExitScopes
<1>7. Len(t.scope) = Cardinality(Scoped(d - 1))
  BY <1>2, <1>3, <1>4 DEF ScopesInPlace
<1>8. \A i \in 1..(d - 1) : /\ Cardinality(Scoped(i)) \in 0..Cardinality(Scoped(d - 1))
                            /\ HasScope(open[i]) => Cardinality(Scoped(i)) > 0
  <2>1. SUFFICES ASSUME NEW i \in 1..(d - 1)
                 PROVE  /\ Cardinality(Scoped(i)) \in 0..Cardinality(Scoped(d - 1))
                        /\ HasScope(open[i]) => Cardinality(Scoped(i)) > 0
    OBVIOUS
  <2>2. /\ IsFiniteSet(Scoped(d - 1)) /\ Cardinality(Scoped(d - 1)) \in Nat
        /\ IsFiniteSet(Scoped(i)) /\ Cardinality(Scoped(i)) \in Nat
    BY <1>2, ScopesInOrder
  <2>3. Scoped(i) \subseteq Scoped(d - 1)
    BY <1>2 DEF Scoped
  <2>4. Cardinality(Scoped(i)) <= Cardinality(Scoped(d - 1))
    BY <2>2, <2>3, FS_Subset
  <2>5. i \in 0..Len(open) /\ i > 0
    BY <1>0
  <2>. QED
    BY <2>2, <2>4, <2>5, Ranked
<1>. HIDE DEF s, t, r
\* An entry stays or becomes that of an element type.
<1>9. \A j \in 1..Len(t.scope) :
        \/ j \in 1..Len(s.scope) /\ t.scope[j] = s.scope[j]
        \/ r \in Sets /\ t.scope[j].kind = "Type" /\ t.scope[j].by = "set_type" /\ t.scope[j].attrs
  <2>1. s.scope # <<>> => /\ Len(Pop(s.scope)) = Len(s.scope) - 1 /\ Pop(s.scope) \in Seq(ScopeEntry)
                          /\ \A j \in 1..(Len(s.scope) - 1) : Pop(s.scope)[j] = s.scope[j]
    <3>. DEFINE m == Len(s.scope) - 1
    <3>1. SUFFICES ASSUME s.scope # <<>>
                   PROVE  /\ Len(Pop(s.scope)) = m /\ Pop(s.scope) \in Seq(ScopeEntry)
                          /\ \A j \in 1..m : Pop(s.scope)[j] = s.scope[j]
      OBVIOUS
    <3>2. m \in 0..Len(s.scope) /\ m \in Nat /\ Pop(s.scope) = SubSeq(s.scope, 1, m)
      BY <1>5, <3>1 DEF Pop
    <3>. HIDE DEF m
    <3>. QED
      BY <1>5, <3>2
  <2>2. s.scope = <<>> => Pop(s.scope) = <<>>
    <3>1. SUFFICES ASSUME s.scope = <<>> PROVE Pop(s.scope) = <<>>
      OBVIOUS
    <3>2. Pop(s.scope) = SubSeq(s.scope, 1, -1) /\ Len(s.scope) = 0
      BY <3>1 DEF Pop
    <3>. QED
      BY <3>1, <3>2
  <2>3. CASE t.scope \in {s.scope, Pop(s.scope)}
    <3>1. CASE s.scope = <<>>
      BY <2>2, <2>3, <3>1
    <3>2. CASE s.scope # <<>>
      <4>1. Len(s.scope) \in Nat /\ Len(s.scope) > 0
        BY <1>5, <3>2
      <4>. QED
        BY <2>1, <2>3, <3>2, <4>1
    <3>. QED
      BY <3>1, <3>2
  <2>4. ASSUME r \in Sets, NEW e \in ScopeEntry, s.scope # <<>>, t.scope = Append(Pop(s.scope), e),
               e.kind = "Type" /\ e.by = "set_type" /\ e.attrs
        PROVE  \A j \in 1..Len(t.scope) :
                 \/ j \in 1..Len(s.scope) /\ t.scope[j] = s.scope[j]
                 \/ r \in Sets /\ t.scope[j].kind = "Type" /\ t.scope[j].by = "set_type" /\ t.scope[j].attrs
    <3>. DEFINE p == Pop(s.scope)
    <3>1. /\ p \in Seq(ScopeEntry) /\ Len(p) = Len(s.scope) - 1 /\ t.scope = Append(p, e)
          /\ \A j \in 1..(Len(s.scope) - 1) : p[j] = s.scope[j]
          /\ Len(s.scope) \in Nat
      BY <1>5, <2>1, <2>4
    <3>. HIDE DEF p
    <3>2. /\ Len(t.scope) = Len(p) + 1 /\ t.scope[Len(p) + 1] = e
          /\ \A j \in 1..Len(p) : t.scope[j] = p[j]
      BY <3>1
    <3>. QED
      BY <2>4, <3>1, <3>2
  <2>. QED
    BY <1>6, <2>3, <2>4
<1>10. \A j \in 1..Len(t.scope) : SortedEntry(t.scope[j])
  <2>1. \A e : e.kind = "Type" /\ e.by = "set_type" /\ e.attrs => SortedEntry(e)
    BY DEF SortedEntry, KindsBy
  <2>. QED
    BY <1>5, <1>9, <2>1
<1>11. ASSUME NEW i \in 1..(d - 1)
       PROVE  /\ HasScope(open'[i]) /\ open'[i].rule \in Firm => t.scope[Cardinality(Scoped(i)')].by = open'[i].rule
              /\ Attributed(open'[i]) => Cardinality(Scoped(i)') > 0 /\ t.scope[Cardinality(Scoped(i)')].attrs
              /\ open'[i].rule = "annotation"
                   => Cardinality(Scoped(i)') > 0 /\ t.scope[Cardinality(Scoped(i)')].kind \in Annotated
  <2>1. Scoped(i)' = Scoped(i) /\ open'[i] = open[i] /\ i \in 1..d
    BY <1>2, <1>4
  <2>2. /\ HasScope(open[i]) /\ open[i].rule \in Firm => s.scope[Cardinality(Scoped(i))].by = open[i].rule
        /\ Attributed(open[i]) => Cardinality(Scoped(i)) > 0 /\ s.scope[Cardinality(Scoped(i))].attrs
        /\ open[i].rule = "annotation"
                   => Cardinality(Scoped(i)) > 0 /\ s.scope[Cardinality(Scoped(i))].kind \in Annotated
    BY <1>0, <2>1 DEF ScopesFound, Entry, s
  <2>3. Cardinality(Scoped(i)) > 0 => Cardinality(Scoped(i)) \in 1..Len(t.scope)
    BY <1>7, <1>8
  <2>4. HasScope(open[i]) => Cardinality(Scoped(i)) > 0
    BY <1>8
  <2>5. open[i].rule \in Firm => r \notin Sets
    <3>1. open[i].rule \in Firm => r \in Firms
      BY <1>0, <1>2 DEF Holds, r
    <3>2. Firms \cap Sets = {}
      BY DEF Firms, Sets, Blocked
    <3>. QED
      BY <3>1, <3>2
  <2>6. "Type" \in Annotated
    BY DEF Annotated
  <2>. QED
    BY <1>9, <2>1, <2>2, <2>3, <2>4, <2>5, <2>6
<1>. QED
  BY <1>2, <1>10, <1>11 DEF ScopesFound, Entry, t

ScopeTrees == Holds(Firm, Firms)

\* What a callback wants of a scope, the scope has: those of statements are of the
\* right kind, and those that annotations go to have attributes.
LEMMA ScopesAlways == Spec => [](ScopesFound /\ ScopeTrees)
<1>1. Init => ScopesFound /\ ScopeTrees
  <2>1. SUFFICES ASSUME Init PROVE ScopesFound
    BY FirmTree DEF ScopeTrees
  <2>2. Len(open) = 1 /\ \A i \in 1..1 : open[i].rule = "file"
    BY <2>1, Begun
  <2>3. listener.scope = <<>>
    BY <2>1 DEF Init, NewTreeShapeListener
  <2>. QED
    BY <2>2, <2>3 DEF ScopesFound, Attributed, Firm, Blocked
<1>2. ASSUME IInv, ScopesInPlace', AppTrees, ScopesFound, ScopeTrees, [Next]_vars PROVE ScopesFound'
  <2>1. TypeOK
    BY <1>2 DEF IInv
  <2>2. CASE open' = open /\ (listener' = listener \/ ~Live(listener'))
    <3>1. \A i : Scoped(i)' = Scoped(i)
      BY <2>2 DEF Scoped
    <3>. QED
      BY <1>2, <2>2, <3>1 DEF ScopesFound, Entry, Live
  <2>. QED
    BY <1>2, <2>1, <2>2, Steps, FoundScopesEntered, FoundScopesExited DEF ScopeTrees
<1>3. IInv /\ ScopeTrees /\ [Next]_vars => ScopeTrees'
  BY FirmTree DEF ScopeTrees
<1>4. IInv => ScopesInPlace
  BY DEF IInv
<1>. QED
  BY Invariance, AppTreesAlways, <1>1, <1>2, <1>3, <1>4, PTL DEF Spec

(***************************************************************************)
(* stmt_scope has one entry for each open rule that pushes one, in their   *)
(* order, for any tree and of any depth, and the entry is that rule's own  *)
(* wherever statements are: in a block, a collector, a subscription or a   *)
(* union.  Only in the rules of Displaced it may be the element of a set   *)
(* or a sequence with attributes, which replaces whatever is on top when   *)
(* that closes (listener_impl.go, pushScope, popScope and                  *)
(* exitSetOrSequence_type).                                                *)
(***************************************************************************)
THEOREM ScopesAreTheOpenOnes == Spec => []ScopesMirrorRules
<1>1. ASSUME IInv, ScopesFound PROVE ScopesMirrorRules
  <2>1. ASSUME NEW i \in 1..Len(open), HasScope(open[i])
        PROVE  open[i].rule \in Firm \cup Displaced
    BY <2>1, ScopedForDomain DEF HasScope, Scoping, Firm, Blocked, Displaced
  <2>2. SUFFICES ASSUME Live(listener) PROVE ScopesMirrorRules
    BY DEF ScopesMirrorRules
  <2>3. /\ Len(listener.scope) = Cardinality(Scoped(Len(open)))
        /\ \A i \in Scoped(Len(open)) :
             listener.scope[Cardinality(Scoped(i))].by \in {open[i].rule, "set_type"}
    BY <1>1, <2>2 DEF IInv, ScopesInPlace
  <2>4. \A i \in Scoped(Len(open)) : i \in 1..Len(open) /\ HasScope(open[i])
    BY DEF Scoped
  <2>5. \A i \in 1..Len(open) :
          HasScope(open[i]) /\ open[i].rule \in Firm
            => listener.scope[Cardinality(Scoped(i))].by = open[i].rule
    BY <1>1, <2>2 DEF ScopesFound, Entry
  <2>. QED
    BY <2>1, <2>3, <2>4, <2>5 DEF ScopesMirrorRules
<1>. QED
  BY Invariance, ScopesAlways, <1>1, PTL

-----------------------------------------------------------------------------
\* The calls, the statements of collectors and the doc strings

CallTrees ==
  /\ Holds(Calls, Naming0)
  /\ Holds({"collector_stmts"}, Collected \cup Naming0 \cup Attributes)
  /\ Under({"call_arg", "call_args", "target", "target_endpoint", "subscriber"}, Calls)
  /\ Under({"annotation_value", "multi_line_docstring"}, {"annotation"})

CallsFound ==
  Live(listener) =>
    /\ \A i \in 1..Len(open) :
         /\ open[i].rule \in Calls => Says(listener, {"call"})
         /\ open[i].rule = "collector_stmts" /\ ~HasAny(open[i].rest, Collected) => Says(listener, Statements)
    /\ listener.pendingDocString =>
         /\ open # <<>> /\ open[Len(open)].rule = "text_stmt" /\ Has(open[Len(open)].rest, "doc_string")
         /\ Documented(listener)

LEMMA CallTreesStep ==
  /\ Init => CallTrees
  /\ IInv /\ CallTrees /\ [Next]_vars => CallTrees'
<1>0. "NativeDataTypes" \notin Rules
  BY DEF Rules, Grammar
<1>1. /\ Init => Holds(Calls, Naming0)
      /\ IInv /\ Holds(Calls, Naming0) /\ [Next]_vars => Holds(Calls, Naming0)'
  <2>1. \A r \in (Calls \cup Naming0) \cap Rules : Alphabet[r] \cap Rules \subseteq Naming0
    BY SMTT(60) DEF Alphabet, Calls, Naming0
  <2>2. "file" \notin Calls \cup Naming0
    BY DEF Calls, Naming0
  <2>. QED
    BY <2>1, <2>2, HoldsStep DEF Closed
<1>2. /\ Init => Holds({"collector_stmts"}, Collected \cup Naming0 \cup Attributes)
      /\ IInv /\ Holds({"collector_stmts"}, Collected \cup Naming0 \cup Attributes) /\ [Next]_vars
           => Holds({"collector_stmts"}, Collected \cup Naming0 \cup Attributes)'
  <2>. DEFINE A == {"collector_stmts"}
              K == Collected \cup Naming0 \cup Attributes
  <2>1. \A r \in (A \cup K) \cap Rules : Alphabet[r] \cap Rules \subseteq K
    BY SMTT(60), <1>0 DEF Alphabet, Collected, Naming0, Attributes
  <2>2. "file" \notin A \cup K
    BY DEF Collected, Naming0, Attributes
  <2>. HIDE DEF A, K
  <2>3. (Init => Holds(A, K)) /\ (IInv /\ Holds(A, K) /\ [Next]_vars => Holds(A, K)')
    BY <2>1, <2>2, HoldsStep DEF Closed
  <2>. QED
    BY <2>3 DEF A, K
<1>3. /\ Init => Under({"call_arg", "call_args", "target", "target_endpoint", "subscriber"}, Calls)
      /\ IInv /\ Under({"call_arg", "call_args", "target", "target_endpoint", "subscriber"}, Calls) /\ [Next]_vars
           => Under({"call_arg", "call_args", "target", "target_endpoint", "subscriber"}, Calls)'
  <2>. DEFINE A == {"call_arg", "call_args", "target", "target_endpoint", "subscriber"}
  <2>1. \A r \in Rules : r \in A \cup Calls \/ Alphabet[r] \cap A = {}
    BY SMTT(60) DEF Alphabet, Calls, Rules, Grammar
  <2>2. {"file", "sysl_file"} \cap A = {}
    OBVIOUS
  <2>. HIDE DEF A
  <2>3. (Init => Under(A, Calls)) /\ (IInv /\ Under(A, Calls) /\ [Next]_vars => Under(A, Calls)')
    BY <2>1, <2>2, UnderStep
  <2>. QED
    BY <2>3 DEF A
<1>4. /\ Init => Under({"annotation_value", "multi_line_docstring"}, {"annotation"})
      /\ IInv /\ Under({"annotation_value", "multi_line_docstring"}, {"annotation"}) /\ [Next]_vars
           => Under({"annotation_value", "multi_line_docstring"}, {"annotation"})'
  <2>. DEFINE A == {"annotation_value", "multi_line_docstring"}
              B == {"annotation"}
  <2>1. \A r \in Rules : r \in A \cup B \/ Alphabet[r] \cap A = {}
    BY SMTT(60) DEF Alphabet, Rules, Grammar
  <2>2. {"file", "sysl_file"} \cap A = {}
    OBVIOUS
  <2>. HIDE DEF A, B
  <2>3. (Init => Under(A, B)) /\ (IInv /\ Under(A, B) /\ [Next]_vars => Under(A, B)')
    BY <2>1, <2>2, UnderStep
  <2>. QED
    BY <2>3 DEF A, B
<1>. QED
  BY <1>1, <1>2, <1>3, <1>4 DEF CallTrees

LEMMA CallsEntered ==
  ASSUME IInv, Walked, CallTrees, CallTrees', CallsFound, Live(listener),
         NEW n, NEW r, NEW w, Enters(n, r, w)
  PROVE  CallsFound'
<1>1. TypeOK /\ RestsFit /\ listener \in Listener
  BY DEF IInv, Shape, TypeOK
<1>0. PICK d \in Nat : d = Len(open)
  BY <1>1, FramesTyped
<1>. DEFINE s == listener
            t == listener'
            rest == open[d].rest
<1>2. /\ d \in 1..d /\ Len(open') = d + 1 /\ r \in Rules /\ w \in Grammar[r]
      /\ open'[d + 1].rule = r /\ open'[d + 1].rest = w
      /\ rest \in Seq(Symbols) /\ n \in 1..Len(rest) /\ r = rest[n]
      /\ open'[d].rest = SubSeq(rest, n + 1, Len(rest))
      /\ open[d].rule \in Rules \cup {"file"} /\ MayHave(open[d].rule, r)
      /\ \A i \in 1..d : open'[i].rule = open[i].rule
      /\ \A i \in 1..(d - 1) : open'[i].rest = open[i].rest
      /\ t \in Entered(s, r, w)
  BY <1>0, <1>1, EnteredFrames
<1>3. \A m \in 1..(n - 1) : rest[m] \notin Rules
  BY <1>0 DEF Enters, NextIs, Top
<1>4. SUFFICES ASSUME Live(t) PROVE CallsFound'
  BY DEF CallsFound
<1>5. open[d].rule \in Rules => r \in Alphabet[open[d].rule]
  BY <1>2, KidsIn
<1>6. /\ \A i \in 1..d :
           /\ open[i].rule \in Calls => Says(s, {"call"})
           /\ open[i].rule = "collector_stmts" /\ ~HasAny(open[i].rest, Collected) => Says(s, Statements)
      /\ s.pendingDocString =>
           open[d].rule = "text_stmt" /\ Has(rest, "doc_string") /\ Documented(s)
  BY <1>0 DEF CallsFound
<1>7. Collected \subseteq Rules /\ "doc_string" \in Rules
  BY DEF Collected, Rules, Grammar
<1>. HIDE DEF s, t, rest
<1>8. r \in {"call_stmt", "collector_call_stmt", "collector_http_stmt",
             "collector_pubsub_call", "collector_action_stmt"} =>
        Says(t, Statements) /\ (r \in Calls => Says(t, {"call"}))
  BY <1>1, <1>2, <1>4, StatementScopes DEF Says, Calls, s
<1>9. ASSUME NEW i \in 1..(d + 1), open'[i].rule \in Calls PROVE Says(t, {"call"})
  <2>1. CASE i = d + 1
    BY <1>2, <1>8, <1>9, <2>1 DEF Calls
  <2>2. CASE i \in 1..d
    <3>1. r \in Naming0
      BY <1>2, <1>9, <2>2 DEF CallTrees, Holds
    <3>2. t.scope = s.scope
      BY <1>1, <1>2, <1>4, <3>1, NamesAreQuiet DEF s
    <3>. QED
      BY <1>2, <1>6, <1>9, <2>2, <3>2, SaysStill
  <2>. QED
    BY <2>1, <2>2
<1>10. ASSUME NEW i \in 1..(d + 1), open'[i].rule = "collector_stmts", ~HasAny(open'[i].rest, Collected)
       PROVE  Says(t, Statements)
  <2>1. CASE i = d + 1
    BY <1>2, <1>10, <2>1, CollectorWords
  <2>2. CASE i \in 1..d /\ r \in Collected
    BY <1>8, <2>2 DEF Collected
  <2>3. CASE i \in 1..d /\ r \notin Collected
    <3>1. r \in Naming0 \cup Attributes
      BY <1>2, <1>10, <2>3 DEF CallTrees, Holds
    <3>2. t.scope = s.scope
      BY <1>1, <1>2, <1>4, <3>1, NamesAreQuiet DEF s
    <3>3. ~HasAny(open[i].rest, Collected)
      <4>1. CASE i < d
        BY <1>2, <1>10, <4>1
      <4>2. CASE i = d
        <5>1. SUFFICES ASSUME NEW k \in 1..Len(rest), rest[k] \in Collected PROVE FALSE
          BY <4>2 DEF HasAny, Has, rest
        <5>2. k # n /\ k \notin 1..(n - 1)
          BY <1>2, <1>3, <1>7, <2>3, <5>1
        <5>3. k > n /\ k - n \in 1..(Len(rest) - n) /\ n + (k - n) = k
          BY <1>2, <5>2
        <5>4. Len(open'[d].rest) = Len(rest) - n /\ open'[d].rest[k - n] = rest[n + (k - n)]
          BY <1>2, <5>3, RestOfWord
        <5>. QED
          BY <1>10, <4>2, <5>1, <5>3, <5>4 DEF HasAny, Has
      <4>. QED
        BY <2>3, <4>1, <4>2
    <3>. QED
      BY <1>2, <1>6, <1>10, <2>3, <3>2, <3>3, SaysStill
  <2>. QED
    BY <2>1, <2>2, <2>3
<1>11. ASSUME t.pendingDocString
       PROVE  r = "text_stmt" /\ Has(w, "doc_string") /\ Documented(t)
  <2>1. CASE r = "text_stmt"
    BY <1>1, <1>2, <1>4, <1>11, <2>1, TextScopes DEF s
  <2>2. CASE r = "doc_string"
    BY <1>1, <1>2, <1>4, <1>11, <2>2, LookingScopes DEF s
  <2>3. CASE r \notin {"text_stmt", "doc_string"}
    <3>1. "pendingDocString" \notin EnterTouches(r)
      BY <2>3 DEF EnterTouches
    <3>2. s.pendingDocString
      <4>1. Touches(s, t, EnterTouches(r))
        BY <1>1, <1>2, EnteredTouches DEF s
      <4>2. "pendingDocString" \in DOMAIN s
        BY <1>1 DEF Listener, s
      <4>3. t.pendingDocString = s.pendingDocString
        BY <3>1, <4>1, <4>2 DEF Touches
      <4>. QED
        BY <1>11, <4>3
    <3>3. open[d].rule = "text_stmt" /\ Has(rest, "doc_string") /\ open[d].rule \in Rules
      <4>1. "text_stmt" # "file"
        OBVIOUS
      <4>. QED
        BY <1>2, <1>6, <3>2, <4>1
    <3>4. PICK v \in Grammar["text_stmt"] : \E m \in 0..Len(v) : WalkedTo(d, v, m)
      BY <1>0, <1>2, <3>3 DEF Walked
    <3>5. PICK m \in 0..Len(v) : WalkedTo(d, v, m)
      BY <3>4
    <3>6. /\ Len(rest) = Len(v) - m
          /\ \A k \in 1..Len(rest) : rest[k] = v[m + k] /\ m + k \in 1..Len(v)
      <4>1. v \in Seq(Symbols)
        BY <1>2, <3>3, WordsTyped
      <4>2. Len(v) \in Nat
        BY <4>1
      <4>. QED
        BY <3>5, <4>2 DEF WalkedTo, rest
    <3>7. v = <<"doc_string">>
      BY <3>3, <3>6, DocWords DEF Has
    <3>. QED
      BY <1>2, <2>3, <3>6, <3>7
  <2>. QED
    BY <2>1, <2>2, <2>3
<1>. QED
  BY <1>2, <1>9, <1>10, <1>11 DEF CallsFound, t

LEMMA CallsExited ==
  ASSUME IInv, CallTrees, CallsFound, Live(listener), Exits
  PROVE  CallsFound'
<1>1. TypeOK /\ RestsFit /\ listener \in Listener
  BY DEF IInv, Shape, TypeOK
<1>0. PICK d \in Nat : d = Len(open)
  BY <1>1, FramesTyped
<1>. DEFINE s == listener
            t == listener'
            r == open[d].rule
            rest == open[d].rest
<1>2. /\ d \in 1..d /\ Len(open') = d - 1 /\ \A i \in 1..(d - 1) : open'[i] = open[i] /\ i \in 1..d
      /\ t = Exit(s, r, open[d].word)
  BY <1>0, <1>1, ExitedFrames
<1>3. \A m \in 1..Len(rest) : rest[m] \notin Rules
  BY <1>0, <1>1, ExitedFrames
<1>4. SUFFICES ASSUME Live(t) PROVE CallsFound'
  BY DEF CallsFound
<1>5. /\ \A i \in 1..d :
           /\ open[i].rule \in Calls => Says(s, {"call"})
           /\ open[i].rule = "collector_stmts" /\ ~HasAny(open[i].rest, Collected) => Says(s, Statements)
      /\ s.pendingDocString =>
           open[d].rule = "text_stmt" /\ Has(rest, "doc_string") /\ Documented(s)
  BY <1>0 DEF CallsFound
<1>6. "doc_string" \in Rules
  BY DEF Rules, Grammar
<1>7. ~s.pendingDocString
  BY <1>3, <1>5, <1>6 DEF Has
<1>. HIDE DEF s, t, rest, r
<1>8. ~t.pendingDocString
  <2>1. "pendingDocString" \notin ExitTouches(r)
    BY DEF ExitTouches
  <2>2. Touches(s, t, ExitTouches(r)) /\ "pendingDocString" \in DOMAIN s
    BY <1>1, <1>2, ExitedTouches DEF Listener, s
  <2>. QED
    BY <1>7, <2>1, <2>2 DEF Touches
<1>9. r \in Collected \cup Naming0 \cup Attributes => t.scope = s.scope
  <2>1. r \in Collected \cup Naming0 \cup Attributes => r \notin Closers \cup Sets
    BY DEF Collected, Naming0, Attributes, Closers, Blocked, Sets
  <2>. QED
    BY <1>1, <1>2, <2>1, ExitScopes DEF s
<1>10. ASSUME NEW i \in 1..(d - 1)
       PROVE  /\ open'[i].rule \in Calls => Says(t, {"call"})
              /\ open'[i].rule = "collector_stmts" /\ ~HasAny(open'[i].rest, Collected) => Says(t, Statements)
  <2>1. open'[i] = open[i] /\ i \in 1..d /\ i < d
    BY <1>2
  <2>2. open[i].rule \in Calls => r \in Naming0
    BY <1>0, <1>2, <2>1 DEF CallTrees, Holds, r
  <2>3. open[i].rule = "collector_stmts" => r \in Collected \cup Naming0 \cup Attributes
    BY <1>0, <1>2, <2>1 DEF CallTrees, Holds, r
  <2>. QED
    BY <1>5, <1>9, <2>1, <2>2, <2>3, SaysStill
<1>. QED
  BY <1>2, <1>8, <1>10 DEF CallsFound, t

\* Whoever reaches for the call, the collector's statement or the doc string that it
\* belongs to finds it as the last statement of its block.
LEMMA CallsAlways == Spec => [](CallsFound /\ CallTrees)
<1>1. Init => CallsFound
  <2>1. SUFFICES ASSUME Init PROVE CallsFound
    OBVIOUS
  <2>2. Len(open) = 1 /\ \A i \in 1..1 : open[i].rule = "file"
    BY <2>1, Begun
  <2>3. ~listener.pendingDocString
    BY <2>1 DEF Init, NewTreeShapeListener
  <2>. QED
    BY <2>2, <2>3 DEF CallsFound, Calls
<1>2. ASSUME IInv, Walked, CallTrees, CallTrees', CallsFound, [Next]_vars PROVE CallsFound'
  <2>1. TypeOK
    BY <1>2 DEF IInv
  <2>2. CASE open' = open /\ (listener' = listener \/ ~Live(listener'))
    BY <1>2, <2>2 DEF CallsFound, Live, Says, TopKind, Documented
  <2>. QED
    BY <1>2, <2>1, <2>2, Steps, CallsEntered, CallsExited
<1>. QED
  BY Invariance, WalkedAlways, <1>1, <1>2, CallTreesStep, PTL DEF Spec

-----------------------------------------------------------------------------
\* Outside of expressions a rule is entered

\* A failure that is known, when a rule is open or just entered that it is known of.
Excused(p, r) ==
  /\ p \in DOMAIN KnownPanics
  /\ r \in KnownPanics[p] \/ \E i \in 1..Len(open) : open[i].rule \in KnownPanics[p]

Fine(t, r) == Live(t) \/ Excused(t.panic, r)

LEMMA DiesFine ==
  ASSUME NEW t, NEW P, NEW r, Dies(t, P), \A p \in P : Excused(p, r)
  PROVE  Fine(t, r)
  BY DEF Dies, Fine, Live

LEMMA LiveFine == \A t, r : Live(t) => Fine(t, r)
  BY DEF Fine

\* What is open around a rule that was just entered.
LEMMA AroundEntered ==
  ASSUME TypeOK, RestsFit, NEW n, NEW r, NEW w, Enters(n, r, w), NEW A, NEW B, Under(A, B)', r \in A
  PROVE  \E i \in 1..Len(open) : open[i].rule \in B
<1>0. PICK d \in Nat : d = Len(open)
  BY FramesTyped
<1>1. /\ Len(open') = d + 1 /\ open'[d + 1].rule = r
      /\ \A i \in 1..d : open'[i].rule = open[i].rule
  BY <1>0, EnteredFrames
<1>2. PICK j \in 1..(d + 1 - 1) : open'[j].rule \in B
  <2>1. d + 1 \in 1..(d + 1)
    OBVIOUS
  <2>. QED
    BY <1>1, <2>1 DEF Under
<1>. QED
  BY <1>0, <1>1, <1>2

LEMMA FieldLookupsFine ==
  ASSUME IInv, Walked, FieldsFound, Live(listener), NEW n, NEW r, NEW w, Enters(n, r, w),
         r \in {"reference", "types", "field_type", "user_defined_type"}
  PROVE  Fine(listener', r)
<1>1. TypeOK /\ RestsFit /\ listener \in Listener
  BY DEF IInv, Shape, TypeOK
<1>0. PICK d \in Nat : d = Len(open)
  BY <1>1, FramesTyped
<1>2. /\ d \in 1..d /\ r \in Rules /\ open[d].rule \in Rules \cup {"file"} /\ MayHave(open[d].rule, r)
      /\ listener' = Enter(listener, r, w)
  <2>1. /\ d \in 1..d /\ r \in Rules /\ open[d].rule \in Rules \cup {"file"} /\ MayHave(open[d].rule, r)
        /\ listener' \in Entered(listener, r, w)
    BY <1>0, <1>1, EnteredFrames
  <2>2. r \notin {"name_with_attribs", "subscribe"}
    OBVIOUS
  <2>. QED
    BY <2>1, <2>2 DEF Entered
<1>3. CASE r \in {"reference", "types", "field_type"}
  <2>1. Fielded(open[d])
    BY <1>0, <1>1, <1>3, FieldedParent DEF Top
  <2>2. OnField(listener)
    BY <1>0, <1>2, <2>1 DEF FieldsFound
  <2>. QED
    BY <1>1, <1>2, <1>3, <2>2, FieldIsThere DEF Enter, Fine
<1>4. CASE r = "user_defined_type"
  <2>1. open[d].rule \in Rules /\ r \in Alphabet[open[d].rule]
    BY <1>2, <1>4, KidsIn DEF MayHave
  <2>2. \A q \in Rules : "user_defined_type" \in Alphabet[q] => q \in {"types", "union"}
    BY SMTT(60) DEF Alphabet, Rules, Grammar
  <2>3. open[d].rule \in {"types", "union"}
    BY <1>4, <2>1, <2>2
  <2>4. CASE open[d].rule = "types"
    <3>1. OnField(listener)
      BY <1>0, <1>2, <2>4 DEF FieldsFound, Fielded, Typed
    <3>. QED
      BY <1>1, <1>2, <1>4, <3>1, FieldIsThere DEF Enter, Fine
  <2>5. CASE open[d].rule = "union"
    <3>. DEFINE P == {"EnterUser_defined_type"}
    <3>1. Dies(EnterUser_defined_type(listener), P)
      BY <1>1, AliveDies, LookupsDie DEF EnterUser_defined_type
    <3>2. \A p \in P : Excused(p, r)
      BY <1>0, <1>2, <2>5 DEF Excused, KnownPanics
    <3>. HIDE DEF P
    <3>. QED
      BY <1>2, <1>4, <3>1, <3>2, DiesFine DEF Enter
  <2>. QED
    BY <2>3, <2>4, <2>5
<1>. QED
  BY <1>3, <1>4

LEMMA FieldAddersFine ==
  ASSUME IInv, FieldTrees', FieldsFound, AppTrees', Live(listener), NEW n, NEW r, NEW w, Enters(n, r, w),
         r \in {"field", "http_path_var_with_type", "param", "view_param", "view_return_type",
                "transform_return_type"}
  PROVE  Fine(listener', r)
<1>1. TypeOK /\ RestsFit /\ listener \in Listener
  BY DEF IInv, Shape, TypeOK
<1>2. listener' = Enter(listener, r, w)
  BY <1>1, EnteredFrames DEF Entered
<1>3. \A P : Dies(listener, P)
  BY <1>1, AliveDies
<1>4. CASE r = "field"
  <2>1. Dies(listener', {"EnterField"})
    BY <1>2, <1>3, <1>4, LookupsDie DEF Enter, EnterField
  <2>2. \E i \in 1..Len(open) : open[i].rule \in {"table_stmts", "param_list"}
    BY <1>1, <1>4, AroundEntered DEF AppTrees
  <2>3. Excused("EnterField", r)
    BY <2>2 DEF Excused, KnownPanics
  <2>. QED
    BY <2>1, <2>3, DiesFine
<1>5. CASE r = "param"
  <2>1. Dies(listener', {"EnterParam"})
    BY <1>2, <1>3, <1>5, LookupsDie DEF Enter, EnterParam
  <2>2. \E i \in 1..Len(open) : open[i].rule \in {"param_list"}
    BY <1>1, <1>5, AroundEntered DEF AppTrees
  <2>3. Excused("EnterParam", r)
    BY <2>2 DEF Excused, KnownPanics
  <2>. QED
    BY <2>1, <2>3, DiesFine
<1>6. CASE r = "http_path_var_with_type"
  <2>1. Dies(listener', {"EnterHttp_path_var_with_type"})
    <3>. DEFINE c == "EnterHttp_path_var_with_type"
                a == IF Has(w, "reference") THEN AddField(listener, c) ELSE listener
                x == Append(a.rest_urlparams, Len(listener.rest_urlparams_len))
    <3>1. listener' = [a EXCEPT !.rest_urlparams = x]
      BY <1>2, <1>6 DEF Enter, EnterHttp_path_var_with_type
    <3>2. Dies(a, {c})
      BY <1>3, LookupsDie
    <3>. HIDE DEF a, x
    <3>. QED
      BY <3>1, <3>2, HelpersDie
  <2>2. \E i \in 1..Len(open) : open[i].rule \in {"http_path"}
    BY <1>1, <1>6, AroundEntered DEF AppTrees
  <2>3. Excused("EnterHttp_path_var_with_type", r)
    BY <2>2 DEF Excused, KnownPanics
  <2>. QED
    BY <2>1, <2>3, DiesFine
<1>7. CASE r \in {"view_param", "view_return_type", "transform_return_type"}
  <2>1. PICK i \in 1..Len(open) : open[i].rule \in {"view"}
    <3>1. r \in Viewed
      BY <1>7 DEF Viewed
    <3>. QED
      BY <1>1, <3>1, AroundEntered DEF FieldTrees
  <2>2. listener.typemap # 0
    BY <2>1 DEF FieldsFound
  <2>3. Live(Enter(listener, r, w))
    <3>1. CASE r = "transform_return_type"
      <4>. DEFINE f == [NoFields EXCEPT !.top = listener.typemap, !.all = listener.field.all \cup {listener.typemap}]
      <4>1. Enter(listener, r, w) \in {listener, [listener EXCEPT !.field = f]}
        BY <2>2, <3>1 DEF Enter, EnterTransform_return_type, AddField
      <4>2. Dies([listener EXCEPT !.field = f], {})
        BY <1>3, HelpersDie
      <4>. QED
        BY <4>1, <4>2, Lives
    <3>2. CASE r # "transform_return_type"
      BY <1>1, <1>7, <2>2, <3>2, NameIsThere DEF Enter
    <3>. QED
      BY <3>1, <3>2
  <2>. QED
    BY <1>2, <2>3 DEF Fine
<1>. QED
  BY <1>4, <1>5, <1>6, <1>7

LEMMA TypesFine ==
  ASSUME IInv, Walked, AppTrees', AppTrees, AppsFound, Live(listener), NEW n, NEW r, NEW w, Enters(n, r, w),
         r \in {"inplace_tuple", "table", "alias", "union", "model_name", "subscribe"}
  PROVE  Fine(listener', r)
<1>1. TypeOK /\ RestsFit /\ listener \in Listener
  BY DEF IInv, Shape, TypeOK
<1>0. PICK d \in Nat : d = Len(open)
  BY <1>1, FramesTyped
<1>2. /\ d \in 1..d /\ r \in Rules /\ open[d].rule \in Rules \cup {"file"} /\ MayHave(open[d].rule, r)
      /\ listener' \in Entered(listener, r, w)
      /\ r # "subscribe" => listener' = Enter(listener, r, w)
  BY <1>0, <1>1, EnteredFrames DEF Entered
<1>3. \A P : Dies(listener, P)
  BY <1>1, AliveDies
<1>4. \A k : Dies(PushType(listener, k), {})
  <2>1. SUFFICES ASSUME NEW k PROVE Dies(PushType(listener, k), {})
    OBVIOUS
  <2>. DEFINE m == NewMap(listener)
              x == Append(listener.types, [kind |-> k, map |-> m, noted |-> FALSE])
              a == [listener EXCEPT !.types = x]
  <2>1a. PushType(listener, k) = [a EXCEPT !.typemap = m]
    BY DEF PushType
  <2>. HIDE DEF x, m
  <2>2. Dies(a, {})
    BY <1>3, HelpersDie
  <2>. HIDE DEF a
  <2>3. Dies([a EXCEPT !.typemap = m], {})
    BY <2>2, HelpersDie
  <2>. QED
    BY <2>1a, <2>3
<1>5. \A i \in 1..d : open[i].rule \in {"table", "alias"} => HasTypes(listener)
  BY <1>0 DEF AppsFound
<1>6. HasTypes(listener) <=> listener.app # 0 /\ currentApp(listener).types
  BY DEF HasTypes, currentApp
<1>7. CASE r = "inplace_tuple"
  <2>1. PICK i \in 1..Len(open) : open[i].rule \in {"table_stmts", "param_list"}
    BY <1>1, <1>7, AroundEntered DEF AppTrees
  <2>2. CASE open[i].rule = "param_list"
    <3>1. Dies(listener', {"EnterInplace_tuple"})
      <4>1. Dies(PushType(listener, "tuple"), {"EnterInplace_tuple"})
        BY <1>4 DEF Dies
      <4>. QED
        BY <1>2, <1>3, <1>7, <4>1, HelpersDie DEF Enter, EnterInplace_tuple
    <3>2. Excused("EnterInplace_tuple", r)
      BY <2>2 DEF Excused, KnownPanics
    <3>. QED
      BY <3>1, <3>2, DiesFine
  <2>3. CASE open[i].rule = "table_stmts"
    <3>1. PICK j \in 1..(i - 1) : open[j].rule = "table"
      BY <2>3 DEF AppTrees, Under
    <3>2. currentApp(listener).types
      BY <1>0, <1>5, <1>6, <3>1
    <3>. QED
      BY <1>2, <1>4, <1>7, <3>2, Lives DEF Enter, EnterInplace_tuple, Fine
  <2>. QED
    BY <2>1, <2>2, <2>3
<1>8. CASE r \in {"table", "alias"}
  <2>1. HasTypes(listener)
    <3>1. open[d].rule \in Rules /\ r \in Alphabet[open[d].rule]
      BY <1>2, <1>8, KidsIn DEF MayHave
    <3>2. open[d].rule \in {"app_decl", "inplace_table"}
      BY <1>8, <3>1, AppParents
    <3>3. CASE open[d].rule = "app_decl"
      <4>1. PICK v \in Grammar[open[d].rule] : (\E m \in 1..Len(v) : r = v[m]) /\ open[d].word = v
        BY <1>0, <1>1, <3>1, <3>3, NextChild DEF Top, LooksBack
      <4>2. HasAny(open[d].word, {"table", "alias"})
        BY <1>8, <4>1 DEF HasAny, Has
      <4>. QED
        BY <1>0, <1>2, <3>3, <4>2 DEF AppsFound
    <3>4. CASE open[d].rule = "inplace_table"
      <4>1. PICK j \in 1..(d - 1) : open[j].rule = "table"
        BY <1>0, <1>2, <3>4 DEF AppTrees, Under
      <4>. QED
        BY <1>5, <4>1
    <3>. QED
      BY <3>2, <3>3, <3>4
  <2>2. CASE r = "table"
    <3>1. \A k : Live(pushScope(PushType(listener, k), "Type", FALSE, "table"))
      <4>1. \A k : Dies(pushScope(PushType(listener, k), "Type", FALSE, "table"), {})
        BY <1>4, HelpersDie
      <4>. QED
        BY <4>1, Lives
    <3>. QED
      BY <1>2, <1>6, <2>1, <2>2, <3>1 DEF Enter, EnterTable, Fine
  <2>3. CASE r = "alias"
    <3>. DEFINE y == [listener EXCEPT !.field = NoFields]
                c == PushType(y, "empty")
                a == AddField(c, "EnterAlias")
                b == [a EXCEPT !.field.attrs = HasAny(w, {"attribs_or_modifiers", "annotation"})]
    <3>1. y \in Listener
      BY <1>1, NoFieldsTyped, FieldStays DEF Stays
    <3>2. Dies(y, {}) /\ NewMap(y) # 0 /\ "typemap" \in DOMAIN y /\ "types" \in DOMAIN y
      BY <1>3, <3>1, HelpersDie, NewMapExists DEF Listener
    <3>3. Dies(c, {}) /\ c.typemap # 0
      <4>. DEFINE m == NewMap(y)
                  x == Append(y.types, [kind |-> "empty", map |-> m, noted |-> FALSE])
                  z == [y EXCEPT !.types = x]
      <4>1. c = [z EXCEPT !.typemap = m]
        BY DEF PushType
      <4>2. m # 0
        BY <3>2
      <4>. HIDE DEF x, m, y
      <4>3. Dies(z, {}) /\ "typemap" \in DOMAIN z
        BY <3>2, HelpersDie
      <4>. HIDE DEF z
      <4>4. Dies([z EXCEPT !.typemap = m], {}) /\ [z EXCEPT !.typemap = m].typemap = m
        BY <4>3, HelpersDie
      <4>. HIDE DEF c
      <4>. QED
        BY <4>1, <4>2, <4>4
    <3>. HIDE DEF c
    <3>4. Dies(a, {})
      <4>. DEFINE f == [NoFields EXCEPT !.top = c.typemap, !.all = c.field.all \cup {c.typemap}]
      <4>1. a = [c EXCEPT !.field = f]
        BY <3>3 DEF AddField
      <4>. HIDE DEF f
      <4>2. Dies([c EXCEPT !.field = f], {})
        BY <3>3, HelpersDie
      <4>. QED
        BY <4>1, <4>2
    <3>. HIDE DEF a
    <3>5. Dies(b, {})
      BY <3>4, HelpersDie
    <3>. HIDE DEF b
    <3>6. Dies(pushScope(b, "Type", TRUE, "alias"), {})
      BY <3>5, HelpersDie
    <3>7. EnterAlias(listener, w) \in {b, pushScope(b, "Type", TRUE, "alias")}
      BY <1>6, <2>1 DEF EnterAlias, b, a, c
    <3>. QED
      BY <1>2, <2>3, <3>5, <3>6, <3>7, Lives DEF Enter, Fine
  <2>. QED
    BY <1>8, <2>2, <2>3
<1>9. CASE r = "union"
  <2>1. Dies(PushType(listener, "oneof"), {"EnterUnion"})
    BY <1>4 DEF Dies
  <2>2. Dies(listener', {"EnterUnion"})
    <3>1. listener' = EnterUnion(listener, w)
      BY <1>2, <1>9 DEF Enter
    <3>. DEFINE a == PushType(listener, "oneof")
    <3>. HIDE DEF a
    <3>2. \A b : Dies(pushScope(a, "Type", b, "union"), {"EnterUnion"})
      BY <2>1, HelpersDie DEF a
    <3>3. Dies(Panic(listener, "EnterUnion"), {"EnterUnion"})
      BY <1>3, HelpersDie
    <3>. QED
      BY <3>1, <3>2, <3>3 DEF EnterUnion, a
  <2>3. Excused("EnterUnion", r)
    BY <1>9 DEF Excused, KnownPanics
  <2>. QED
    BY <2>2, <2>3, DiesFine
<1>10. CASE r = "model_name"
  <2>. DEFINE y == [listener.apps EXCEPT ![listener.app].wrapped = "named"]
  <2>1. Dies([listener EXCEPT !.apps = y], {"EnterModel_name"})
    BY <1>3, HelpersDie
  <2>2. Dies(listener', {"EnterModel_name"})
    <3>1. listener' = EnterModel_name(listener)
      BY <1>2, <1>10 DEF Enter
    <3>2. Dies(Panic(listener, "EnterModel_name"), {"EnterModel_name"})
      BY <1>3, HelpersDie
    <3>. QED
      BY <2>1, <3>1, <3>2 DEF EnterModel_name
  <2>3. \E i \in 1..Len(open) : open[i].rule \in {"facade"}
    BY <1>1, <1>10, AroundEntered DEF AppTrees
  <2>4. Excused("EnterModel_name", r)
    BY <2>3 DEF Excused, KnownPanics
  <2>. QED
    BY <2>2, <2>4, DiesFine
<1>11. CASE r = "subscribe"
  <2>. DEFINE P == {"EnterSubscribe"}
              a == [listener EXCEPT !.endpoint = "plain"]
              b == IF Has(w, "statements")
                     THEN pushScope(a, "Endpoint", Has(w, "attribs_or_modifiers"), "subscribe") ELSE a
              x == Append(b.apps, [NewApp EXCEPT !.endpoints = TRUE])
  <2>1. listener' \in {b, Panic(b, "EnterSubscribe"), [b EXCEPT !.apps = x]}
    BY <1>2, <1>11 DEF Entered, EnterSubscribe
  <2>2. Dies(a, P)
    BY <1>3, HelpersDie
  <2>. HIDE DEF a, x
  <2>3. Dies(b, P)
    BY <2>2, HelpersDie
  <2>. HIDE DEF b
  <2>4. Dies(Panic(b, "EnterSubscribe"), P) /\ Dies([b EXCEPT !.apps = x], P)
    BY <2>3, HelpersDie
  <2>5. Excused("EnterSubscribe", r)
    BY <1>11 DEF Excused, KnownPanics
  <2>. QED
    BY <2>1, <2>3, <2>4, <2>5, DiesFine
<1>. QED
  BY <1>7, <1>8, <1>9, <1>10, <1>11

\* Every open rule may stand where it does; the outermost is that of the file.
Parented ==
  /\ \A i \in 1..Len(open) : i = 1 => open[i].rule = "file"
  /\ \A i \in 1..(Len(open) - 1) : MayHave(open[i].rule, open[i + 1].rule)

LEMMA ParentedAlways == Spec => []Parented
<1>1. Init => Parented
  <2>1. SUFFICES ASSUME Init PROVE Parented
    OBVIOUS
  <2>2. Len(open) = 1 /\ open[1].rule = "file"
    BY <2>1, Begun
  <2>3. \A i \in 1..(Len(open) - 1) : FALSE
    BY <2>2
  <2>. QED
    BY <2>2, <2>3 DEF Parented
<1>2. ASSUME IInv, Parented, [Next]_vars PROVE Parented'
  <2>1. TypeOK /\ RestsFit
    BY <1>2 DEF IInv, Shape
  <2>0. PICK d \in Nat : d = Len(open)
    BY <2>1, FramesTyped
  <2>2. CASE open' = open
    BY <1>2, <2>2 DEF Parented
  <2>3. ASSUME NEW n, NEW r, NEW w, Enters(n, r, w) PROVE Parented'
    <3>1. /\ d \in 1..d /\ Len(open') = d + 1 /\ open'[d + 1].rule = r /\ MayHave(open[d].rule, r)
          /\ \A i \in 1..d : open'[i].rule = open[i].rule
      BY <2>0, <2>1, <2>3, EnteredFrames
    <3>2. \A i \in 1..d : i = d \/ (i \in 1..(d - 1) /\ i + 1 \in 1..d)
      BY <2>0
    <3>3. \A i \in 1..(d + 1) : i = 1 => open'[i].rule = "file"
      <4>1. 1 \in 1..d
        BY <3>1
      <4>. QED
        BY <1>2, <2>0, <3>1, <4>1 DEF Parented
    <3>4. d + 1 - 1 = d
      OBVIOUS
    <3>5. \A i \in 1..d : MayHave(open'[i].rule, open'[i + 1].rule)
      BY <1>2, <2>0, <3>1, <3>2 DEF Parented
    <3>. QED
      BY <3>1, <3>3, <3>4, <3>5 DEF Parented
  <2>4. CASE Exits
    <3>1. Len(open') = d - 1 /\ \A i \in 1..(d - 1) : open'[i] = open[i]
      BY <2>0, <2>1, <2>4, ExitedFrames
    <3>2. \A i \in 1..(d - 1 - 1) : i \in 1..(d - 1) /\ i + 1 \in 1..(d - 1)
      BY <2>0
    <3>3. \A i \in 1..(d - 1) : i \in 1..d
      OBVIOUS
    <3>. QED
      BY <1>2, <2>0, <3>1, <3>2, <3>3 DEF Parented
  <2>. QED
    BY <1>2, <2>1, <2>2, <2>3, <2>4, Steps
<1>. QED
  BY Invariance, <1>1, <1>2, PTL DEF Spec

\* The rule around an open one.
LEMMA ParentOf ==
  ASSUME TypeOK, Walked, Parented, NEW i \in 1..(Len(open) - 1), open[i + 1].rule # "sysl_file"
  PROVE  /\ open[i].rule \in Rules /\ open[i + 1].rule \in Alphabet[open[i].rule]
         /\ open[i].rule \in LooksBack => Has(open[i].word, open[i + 1].rule)
<1>0. PICK d \in Nat : d = Len(open)
  BY FramesTyped
<1>1. open[i].rule \in Rules \cup {"file"} /\ MayHave(open[i].rule, open[i + 1].rule) /\ i \in 1..Len(open) /\ i < Len(open)
  BY <1>0, FramesTyped DEF Parented
<1>2. open[i].rule \in Rules
  BY <1>1 DEF MayHave
<1>3. open[i].rule \in LooksBack => Has(open[i].word, open[i + 1].rule)
  BY <1>1, <1>2, OpenChild DEF Has
<1>. QED
  BY <1>1, <1>2, <1>3, KidsIn

\* The rule that one is entered from.
LEMMA ParentEntered ==
  ASSUME TypeOK, RestsFit, Walked, NEW n, NEW r, NEW w, Enters(n, r, w), r # "sysl_file"
  PROVE  /\ open[Len(open)].rule \in Rules /\ r \in Alphabet[open[Len(open)].rule]
         /\ open[Len(open)].rule \in LooksBack => Has(open[Len(open)].word, r)
         /\ Has(open[Len(open)].rest, r)
         /\ Len(open) \in Nat \ {0} /\ Len(open) \in 1..Len(open)
<1>0. PICK d \in Nat : d = Len(open)
  BY FramesTyped
<1>1. /\ open[d].rule \in Rules \cup {"file"} /\ MayHave(open[d].rule, r) /\ d \in 1..d /\ d \in Nat \ {0}
      /\ n \in 1..Len(open[d].rest) /\ r = open[d].rest[n]
  BY <1>0, EnteredFrames
<1>2. open[d].rule \in Rules
  BY <1>1 DEF MayHave
<1>3. open[d].rule \in LooksBack => Has(open[d].word, r)
  BY <1>0, <1>1, <1>2, NextChild DEF Has, Top
<1>. QED
  BY <1>0, <1>1, <1>2, <1>3, KidsIn DEF Has

\* Rules without a scope do not change which is the innermost.
LEMMA InnermostScope ==
  ASSUME IInv, Live(listener), NEW i \in 1..Len(open), HasScope(open[i]),
         \A j \in (i + 1)..Len(open) : ~HasScope(open[j])
  PROVE  /\ listener.scope # <<>> /\ Top(listener.scope) = Entry(i)
         /\ TopKind(listener) = Entry(i).kind
         /\ Entry(i).by \in {open[i].rule, "set_type"}
         /\ Cardinality(Scoped(i)) \in 1..Len(listener.scope)
<1>0. PICK d \in Nat : d = Len(open)
  BY FramesTyped DEF IInv
<1>1. Scoped(d) = Scoped(i)
  BY <1>0 DEF Scoped
<1>2. Len(listener.scope) = Cardinality(Scoped(i)) /\ Cardinality(Scoped(i)) > 0
      /\ Cardinality(Scoped(i)) \in 0..Len(listener.scope)
  BY <1>0, <1>1, Ranked
<1>3. i \in Scoped(Len(open))
  BY <1>0 DEF Scoped
<1>4. Entry(i).by \in {open[i].rule, "set_type"}
  BY <1>3 DEF IInv, ScopesInPlace, Entry
<1>5. listener.scope # <<>>
  BY <1>2
<1>. QED
  BY <1>2, <1>4, <1>5 DEF Entry, Top, TopKind

\* The innermost statements are those of a block, or one of these endpoints is open.
LEMMA BlocksAround ==
  ASSUME IInv, Walked, Parented, ScopesFound, Live(listener), NEW k \in 1..Len(open),
         open[k].rule = "statements", \A j \in (k + 1)..Len(open) : open[j].rule = "if_else"
  PROVE  \/ TopKind(listener) \in Blocks
         \/ \E i \in 1..Len(open) : open[i].rule \in {"simple_endpoint", "method_def", "event"}
<1>1. TypeOK /\ RestsFit /\ listener \in Listener
  BY DEF IInv, Shape, TypeOK
<1>0. PICK d \in Nat : d = Len(open)
  BY <1>1, FramesTyped
<1>4. k \in 1..d /\ open[k].rule = "statements" /\ \A j \in (k + 1)..d : open[j].rule = "if_else"
  BY <1>0
<1>5. k - 1 \in 1..(d - 1) /\ (k - 1) + 1 = k
  <2>1. k # 1
    BY <1>0, <1>4 DEF Parented
  <2>. QED
    BY <1>4, <2>1
<1>. DEFINE i == k - 1
<1>6. i \in 1..d /\ \A j \in (i + 1)..d : open[j].rule \in {"statements", "if_else"}
  BY <1>4, <1>5
<1>7. open[i].rule \in Hosts \ {"one_of_stmt"} /\ HasScope(open[i])
  <2>1. /\ open[i].rule \in Rules /\ "statements" \in Alphabet[open[i].rule]
        /\ open[i].rule \in LooksBack => Has(open[i].word, "statements")
    BY <1>0, <1>1, <1>4, <1>5, ParentOf
  <2>2. open[i].rule \in Hosts \ {"one_of_stmt"}
    BY <2>1, StatementParents
  <2>3. CASE open[i].rule \in Blocked \cup {"method_def"}
    BY <2>2, <2>3 DEF HasScope, Scoping, Blocked
  <2>4. CASE open[i].rule \in {"simple_endpoint", "event", "subscribe"}
    BY <2>1, <2>2, <2>4 DEF HasScope, ScopedFor, LooksBack
  <2>. QED
    BY <2>2, <2>3, <2>4 DEF Hosts
<1>8. \A j \in (i + 1)..Len(open) : ~HasScope(open[j])
  BY <1>0, <1>6 DEF HasScope, Scoping, ScopedFor
<1>. HIDE DEF i
<1>9. TopKind(listener) = Entry(i).kind /\ Cardinality(Scoped(i)) \in 1..Len(listener.scope)
  BY <1>0, <1>6, <1>7, <1>8, InnermostScope
<1>10. CASE open[i].rule \in Blocked \cup {"subscribe"}
  <2>1. Entry(i).by = open[i].rule
    BY <1>0, <1>6, <1>7, <1>10 DEF ScopesFound, Firm
  <2>2. SortedEntry(Entry(i))
    BY <1>9 DEF ScopesFound, Entry
  <2>3. KindsBy(open[i].rule) \subseteq Blocks
    BY <1>7, <1>10 DEF KindsBy, Blocks, Blocked
  <2>. QED
    BY <1>9, <2>1, <2>2, <2>3 DEF SortedEntry
<1>11. CASE open[i].rule \in {"method_def", "simple_endpoint", "event"}
  BY <1>0, <1>6, <1>11
<1>. QED
  BY <1>7, <1>10, <1>11 DEF Hosts

\* A statement goes into a block, or one of these endpoints is open.
LEMMA StatementsHaveBlocks ==
  ASSUME IInv, Walked, Parented, ScopesFound, Live(listener), NEW n, NEW r, NEW w, Enters(n, r, w),
         r \in InStatements \cup {"if_stmt", "else_stmt"}
  PROVE  \/ TopKind(listener) \in Blocks
         \/ \E i \in 1..Len(open) : open[i].rule \in {"simple_endpoint", "method_def", "event"}
<1>1. TypeOK /\ RestsFit /\ listener \in Listener
  BY DEF IInv, Shape, TypeOK
<1>0. PICK d \in Nat : d = Len(open)
  BY <1>1, FramesTyped
<1>2. d \in 1..d /\ open[d].rule \in Rules /\ r \in Alphabet[open[d].rule]
  <2>1. r # "sysl_file"
    BY DEF InStatements
  <2>. QED
    BY <1>0, <1>1, <2>1, ParentEntered
<1>3. open[d].rule \in {"statements", "if_else"}
  BY <1>2, StatementParents
<1>4. PICK k \in 1..d : open[k].rule = "statements" /\ \A j \in (k + 1)..d : open[j].rule = "if_else"
  <2>1. CASE open[d].rule = "statements"
    BY <1>2, <2>1
  <2>2. CASE open[d].rule = "if_else"
    <3>1. d # 1
      BY <1>0, <1>2, <2>2 DEF Parented
    <3>2. d - 1 \in 1..(d - 1) /\ (d - 1) + 1 = d
      BY <1>2, <3>1
    <3>3. open[d - 1].rule \in Rules /\ open[d].rule \in Alphabet[open[d - 1].rule]
      BY <1>0, <1>1, <2>2, <3>2, ParentOf
    <3>4. open[d - 1].rule = "statements"
      BY <2>2, <3>3, StatementParents DEF InStatements
    <3>5. \A j \in ((d - 1) + 1)..d : j = d
      BY <3>2
    <3>. QED
      BY <2>2, <3>2, <3>4, <3>5
  <2>. QED
    BY <1>3, <2>1, <2>2
<1>. QED
  BY <1>0, <1>4, BlocksAround

\* A statement fails only where it is known to.
LEMMA StatementsFine ==
  ASSUME IInv, Walked, Parented, ScopesFound, Live(listener), NEW n, NEW r, NEW w, Enters(n, r, w),
         r \in (InStatements \cup {"if_stmt", "else_stmt"}) \ {"if_else"}
  PROVE  Fine(listener', r)
<1>1. TypeOK /\ RestsFit /\ listener \in Listener
  BY DEF IInv, Shape, TypeOK
<1>2. listener' = Enter(listener, r, w)
  <2>1. listener' \in Entered(listener, r, w)
    BY <1>1, EnteredFrames
  <2>2. r \notin {"name_with_attribs", "subscribe"}
    BY DEF InStatements
  <2>. QED
    BY <2>1, <2>2 DEF Entered
<1>. DEFINE P == {c \in {"addToCurrentScope", "EnterText_stmt"} : Excused(c, r)}
<1>3. TopKind(listener) \notin Blocks => "addToCurrentScope" \in P
  <2>1. SUFFICES ASSUME TopKind(listener) \notin Blocks PROVE Excused("addToCurrentScope", r)
    OBVIOUS
  <2>2. \E i \in 1..Len(open) : open[i].rule \in {"simple_endpoint", "method_def", "event"}
    BY <2>1, StatementsHaveBlocks
  <2>. QED
    BY <2>2 DEF Excused, KnownPanics
<1>4. listener.endpoint = "rest" => "EnterText_stmt" \in P
  <2>1. SUFFICES ASSUME listener.endpoint = "rest" PROVE Excused("EnterText_stmt", r)
    OBVIOUS
  <2>2. Opened({"method_def"}) > 0
    BY <2>1, PathsFollow DEF PathsMirrorRules
  <2>3. Among({"method_def"}) # {}
    BY <2>2, FS_EmptySet DEF Opened
  <2>4. \E i \in 1..Len(open) : open[i].rule \in {"method_def"}
    BY <2>3 DEF Among
  <2>. QED
    BY <2>4 DEF Excused, KnownPanics
<1>5. \A p \in P : Excused(p, r)
  OBVIOUS
<1>. HIDE DEF P
<1>6. /\ \A x : Dies(addToCurrentScope(listener, x), P)
      /\ \A k, q : Dies(EnterBlock(listener, k, q), P)
  BY <1>1, <1>3, AddedDies
<1>7. Dies(EnterText_stmt(listener, w), P)
  BY <1>1, <1>3, <1>4, TextDies
<1>8. r \in {"ret_stmt", "call_stmt", "for_stmt", "one_of_stmt", "group_stmt", "text_stmt", "if_stmt", "else_stmt"}
  BY DEF InStatements
<1>9. Dies(Enter(listener, r, w), P)
  BY <1>6, <1>7, <1>8
  DEF Enter, EnterRet_stmt, EnterCall_stmt, EnterFor_stmt, EnterOne_of_stmt, EnterGroup_stmt,
      EnterIf_stmt, EnterElse_stmt
<1>. QED
  BY <1>2, <1>5, <1>9, DiesFine

\* The innermost scope is that of a rule that nothing takes the place of.
LEMMA FirmTop ==
  ASSUME IInv, ScopesFound, Live(listener), NEW i \in 1..Len(open), HasScope(open[i]),
         open[i].rule \in Firm, \A j \in (i + 1)..Len(open) : ~HasScope(open[j])
  PROVE  TopKind(listener) \in KindsBy(open[i].rule)
<1>1. /\ TopKind(listener) = Entry(i).kind
      /\ Cardinality(Scoped(i)) \in 1..Len(listener.scope)
  BY InnermostScope
<1>2. Entry(i).by = open[i].rule
  BY DEF ScopesFound
<1>3. SortedEntry(Entry(i))
  BY <1>1 DEF ScopesFound, Entry
<1>. QED
  BY <1>1, <1>2, <1>3 DEF SortedEntry

LEMMA CasesFine ==
  ASSUME IInv, Walked, ScopesFound, Live(listener), NEW n, NEW r, NEW w, Enters(n, r, w),
         r = "one_of_cases"
  PROVE  Fine(listener', r)
<1>1. TypeOK /\ RestsFit /\ listener \in Listener
  BY DEF IInv, Shape, TypeOK
<1>0. PICK d \in Nat : d = Len(open)
  BY <1>1, FramesTyped
<1>2. listener' = EnterOne_of_cases(listener)
  <2>1. listener' \in Entered(listener, r, w)
    BY <1>1, EnteredFrames
  <2>2. listener' = Enter(listener, r, w)
    BY <2>1 DEF Entered
  <2>. QED
    BY <2>2 DEF Enter
<1>3. d \in 1..d /\ open[d].rule = "one_of_stmt"
  BY <1>0, <1>1, ParentEntered, StatementParents
<1>4. HasScope(open[d]) /\ \A j \in (d + 1)..d : FALSE
  BY <1>3 DEF HasScope, Scoping
<1>5. TopKind(listener) \in KindsBy(open[d].rule)
  BY <1>0, <1>3, <1>4, FirmTop DEF Firm, Blocked
<1>6. TopKind(listener) = "Alt"
  BY <1>3, <1>5 DEF KindsBy
<1>7. Dies(listener, {})
  BY <1>1, AliveDies
<1>8. Dies(pushScope(listener, "Choice", FALSE, "one_of_cases"), {})
  BY <1>7, HelpersDie
<1>. QED
  BY <1>2, <1>6, <1>8, Lives DEF EnterOne_of_cases, Fine

LEMMA CollectedFine ==
  ASSUME IInv, Walked, Parented, ScopesFound, Live(listener), NEW n, NEW r, NEW w, Enters(n, r, w),
         r \in Collected
  PROVE  Fine(listener', r)
<1>1. TypeOK /\ RestsFit /\ listener \in Listener
  BY DEF IInv, Shape, TypeOK
<1>0. PICK d \in Nat : d = Len(open)
  BY <1>1, FramesTyped
<1>2. listener' = Enter(listener, r, w)
  <2>1. listener' \in Entered(listener, r, w)
    BY <1>1, EnteredFrames
  <2>2. r \notin {"name_with_attribs", "subscribe"}
    BY DEF Collected
  <2>. QED
    BY <2>1, <2>2 DEF Entered
<1>3. d \in 1..d /\ open[d].rule = "collector_stmts"
  <2>1. r # "sysl_file"
    BY DEF Collected
  <2>. QED
    BY <1>0, <1>1, <2>1, ParentEntered, StatementParents
<1>4. d - 1 \in 1..(d - 1) /\ (d - 1) + 1 = d
  <2>1. d # 1
    BY <1>0, <1>3 DEF Parented
  <2>. QED
    BY <1>3, <2>1
<1>5. /\ open[d - 1].rule \in Rules /\ open[d].rule \in Alphabet[open[d - 1].rule]
      /\ open[d - 1].rule \in LooksBack => Has(open[d - 1].word, open[d].rule)
  BY <1>0, <1>1, <1>3, <1>4, ParentOf
<1>6. open[d - 1].rule = "collector"
  BY <1>3, <1>5, StatementParents
<1>7. HasScope(open[d - 1])
  BY <1>3, <1>5, <1>6 DEF HasScope, ScopedFor, LooksBack
<1>8. \A j \in ((d - 1) + 1)..d : ~HasScope(open[j])
  <2>1. \A j \in ((d - 1) + 1)..d : j = d
    BY <1>4
  <2>. QED
    BY <1>3, <2>1 DEF HasScope, Scoping, ScopedFor
<1>9. TopKind(listener) \in KindsBy(open[d - 1].rule)
  <2>1. d - 1 \in 1..d
    BY <1>3, <1>4
  <2>. QED
    BY <1>0, <1>6, <1>7, <1>8, <2>1, FirmTop DEF Firm
<1>10. TopKind(listener) \in Blocks
  BY <1>6, <1>9 DEF KindsBy, Blocks
<1>11. \A x : Dies(addToCurrentScope(listener, x), {})
  BY <1>1, <1>10, AddedDies
<1>12. Dies(Enter(listener, r, w), {})
  BY <1>11
  DEF Enter, Collected, EnterCollector_call_stmt, EnterCollector_http_stmt, EnterCollector_pubsub_call,
      EnterCollector_action_stmt
<1>. QED
  BY <1>2, <1>12, Lives DEF Fine

LEMMA ArgumentsFine ==
  ASSUME IInv, CallsFound, CallTrees', Live(listener), NEW n, NEW r, NEW w, Enters(n, r, w),
         r = "call_arg"
  PROVE  Fine(listener', r)
<1>1. TypeOK /\ RestsFit /\ listener \in Listener
  BY DEF IInv, Shape, TypeOK
<1>2. listener' = EnterCall_arg(listener)
  <2>1. listener' \in Entered(listener, r, w)
    BY <1>1, EnteredFrames
  <2>2. listener' = Enter(listener, r, w)
    BY <2>1 DEF Entered
  <2>. QED
    BY <2>2 DEF Enter
<1>3. \E i \in 1..Len(open) : open[i].rule \in Calls
  <2>1. Under({"call_arg", "call_args", "target", "target_endpoint", "subscriber"}, Calls)'
    BY DEF CallTrees
  <2>. QED
    BY <1>1, <2>1, AroundEntered
<1>4. Says(listener, {"call"})
  BY <1>3 DEF CallsFound
<1>. QED
  BY <1>2, <1>4 DEF EnterCall_arg, lastStatement, Says, Fine

\* A rule that is not the outermost has a parent.
LEMMA ParentBelow ==
  ASSUME TypeOK, Walked, Parented, NEW i \in 1..Len(open), open[i].rule \notin {"file", "sysl_file"}
  PROVE  /\ i - 1 \in 1..(Len(open) - 1) /\ i - 1 \in 1..Len(open) /\ (i - 1) + 1 = i
         /\ open[i - 1].rule \in Rules /\ open[i].rule \in Alphabet[open[i - 1].rule]
         /\ open[i - 1].rule \in LooksBack => Has(open[i - 1].word, open[i].rule)
<1>0. PICK d \in Nat : d = Len(open)
  BY FramesTyped
<1>1. i # 1
  BY <1>0 DEF Parented
<1>2. i - 1 \in 1..(d - 1) /\ i - 1 \in 1..d /\ (i - 1) + 1 = i
  BY <1>0, <1>1
<1>. QED
  BY <1>0, <1>2, ParentOf

\* The innermost scope is that of the innermost rule or the one it is in.
LEMMA TopIsEntry ==
  ASSUME IInv, Live(listener), NEW i \in 1..Len(open), Cardinality(Scoped(i)) > 0,
         \A j \in (i + 1)..Len(open) : ~HasScope(open[j])
  PROVE  /\ listener.scope # <<>> /\ Top(listener.scope) = Entry(i) /\ TopKind(listener) = Entry(i).kind
         /\ Cardinality(Scoped(i)) \in 1..Len(listener.scope)
<1>0. PICK d \in Nat : d = Len(open)
  BY FramesTyped DEF IInv
<1>1. Scoped(d) = Scoped(i)
  BY <1>0 DEF Scoped
<1>2. Len(listener.scope) = Cardinality(Scoped(i)) /\ Cardinality(Scoped(i)) \in 0..Len(listener.scope)
  BY <1>0, <1>1, Ranked DEF IInv, ScopesInPlace
<1>3. listener.scope # <<>>
  BY <1>2
<1>. QED
  BY <1>2, <1>3 DEF Entry, Top, TopKind

LEMMA AnnotationIsTop ==
  ASSUME IInv, ScopesFound, Live(listener), NEW i \in 1..Len(open), open[i].rule = "annotation",
         \A j \in (i + 1)..Len(open) : ~HasScope(open[j])
  PROVE  TopKind(listener) \in Annotated
<1>1. Cardinality(Scoped(i)) > 0 /\ Entry(i).kind \in Annotated
  BY DEF ScopesFound
<1>. QED
  BY <1>1, TopIsEntry

LEMMA LinesFine ==
  ASSUME IInv, Walked, Parented, ScopesFound, CallsFound, Live(listener),
         NEW n, NEW r, NEW w, Enters(n, r, w), r \in {"annotation_value", "doc_string"}
  PROVE  Fine(listener', r)
<1>1. TypeOK /\ RestsFit /\ listener \in Listener
  BY DEF IInv, Shape, TypeOK
<1>0. PICK d \in Nat : d = Len(open)
  BY <1>1, FramesTyped
<1>2. listener' = Enter(listener, r, w)
  <2>1. listener' \in Entered(listener, r, w)
    BY <1>1, EnteredFrames
  <2>. QED
    BY <2>1 DEF Entered
<1>3. d \in 1..d /\ open[d].rule \in Rules /\ r \in Alphabet[open[d].rule]
  BY <1>0, <1>1, ParentEntered
<1>4. TopKind(listener) \in Annotated => Live(peekAttrs(listener))
  BY DEF peekAttrs
<1>5. CASE r = "annotation_value"
  <2>1. open[d].rule = "annotation"
    BY <1>3, <1>5, AnnotationParents
  <2>2. \A j \in (d + 1)..d : FALSE
    OBVIOUS
  <2>3. TopKind(listener) \in Annotated
    BY <1>0, <1>3, <2>1, <2>2, AnnotationIsTop
  <2>4. listener' = peekAttrs(listener)
    BY <1>2, <1>5 DEF Enter, EnterAnnotation_value
  <2>. QED
    BY <1>4, <2>3, <2>4 DEF Fine
<1>6. CASE r = "doc_string" /\ listener.pendingDocString
  <2>1. Documented(listener)
    BY <1>6 DEF CallsFound
  <2>. DEFINE taken == [listener EXCEPT !.pendingDocString = FALSE]
              e == lastStatement(taken, {"text", "action"}, "EnterDoc_string")
  <2>2. taken.endpoint = listener.endpoint /\ taken.scope = listener.scope /\ Live(taken)
    BY <1>1 DEF Listener, Live
  <2>3. TopKind(taken) = TopKind(listener)
    BY <2>2 DEF TopKind
  <2>4. listener' = DocStringOf(taken, e, "EnterDoc_string")
    BY <1>2, <1>6 DEF Enter, EnterDoc_string
  <2>. HIDE DEF taken
  <2>5. CASE listener.endpoint = "rest" /\ Top(listener.scope).last = ""
    BY <2>1, <2>2, <2>3, <2>4, <2>5 DEF DocStringOf, Documented, Fine
  <2>6. CASE ~(listener.endpoint = "rest" /\ Top(listener.scope).last = "")
    <3>1. e = taken
      BY <2>1, <2>2, <2>3, <2>6 DEF Documented, lastStatement
    <3>. QED
      BY <2>1, <2>2, <2>3, <2>4, <2>6, <3>1 DEF DocStringOf, Documented, Fine
  <2>. QED
    BY <2>5, <2>6
<1>7. CASE r = "doc_string" /\ ~listener.pendingDocString
  <2>1. listener' = peekAttrs(listener)
    BY <1>2, <1>7 DEF Enter, EnterDoc_string
  <2>2. open[d].rule \in {"text_stmt", "multi_line_docstring"}
    BY <1>3, <1>7, AnnotationParents
  <2>3. /\ d - 1 \in 1..d /\ (d - 1) + 1 = d
        /\ open[d - 1].rule \in Rules /\ open[d].rule \in Alphabet[open[d - 1].rule]
    BY <1>0, <1>1, <1>3, <2>2, ParentBelow
  <2>4. CASE open[d].rule = "text_stmt"
    <3>1. open[d - 1].rule = "statements"
      BY <2>3, <2>4, StatementParents DEF InStatements
    <3>2. Excused("peekAttrs", r)
      BY <1>0, <2>3, <3>1 DEF Excused, KnownPanics
    <3>3. Dies(peekAttrs(listener), {"peekAttrs"})
      <4>1. Dies(listener, {"peekAttrs"})
        BY <1>1, AliveDies
      <4>. QED
        BY <4>1, LookupsDie
    <3>. QED
      BY <2>1, <3>2, <3>3, DiesFine
  <2>5. CASE open[d].rule = "multi_line_docstring"
    <3>1. open[d - 1].rule = "annotation_value"
      BY <2>3, <2>5, AnnotationParents
    <3>2. /\ (d - 1) - 1 \in 1..d
          /\ open[(d - 1) - 1].rule \in Rules /\ open[d - 1].rule \in Alphabet[open[(d - 1) - 1].rule]
      BY <1>0, <1>1, <2>3, <3>1, ParentBelow
    <3>3. open[d - 2].rule = "annotation" /\ d - 2 \in 1..d
      <4>1. (d - 1) - 1 = d - 2
        OBVIOUS
      <4>. QED
        BY <3>1, <3>2, <4>1, AnnotationParents
    <3>4. \A j \in ((d - 2) + 1)..d : j = d \/ j = d - 1
      OBVIOUS
    <3>5. \A j \in ((d - 2) + 1)..d : ~HasScope(open[j])
      BY <2>5, <3>1, <3>4 DEF HasScope, Scoping, ScopedFor
    <3>6. TopKind(listener) \in Annotated
      BY <1>0, <3>3, <3>5, AnnotationIsTop
    <3>. QED
      BY <1>4, <2>1, <3>6 DEF Fine
  <2>. QED
    BY <2>2, <2>4, <2>5
<1>. QED
  BY <1>5, <1>6, <1>7

LEMMA AnnotationsFine ==
  ASSUME IInv, Walked, Parented, ScopesFound, Live(listener),
         NEW n, NEW r, NEW w, Enters(n, r, w), r = "annotation"
  PROVE  Fine(listener', r)
<1>1. TypeOK /\ RestsFit /\ listener \in Listener
  BY DEF IInv, Shape, TypeOK
<1>0. PICK d \in Nat : d = Len(open)
  BY <1>1, FramesTyped
<1>2. listener' = EnterAnnotation(listener)
  <2>1. listener' \in Entered(listener, r, w)
    BY <1>1, EnteredFrames
  <2>2. listener' = Enter(listener, r, w)
    BY <2>1 DEF Entered
  <2>. QED
    BY <2>2 DEF Enter
<1>3. /\ d \in 1..d /\ open[d].rule \in Rules /\ r \in Alphabet[open[d].rule]
      /\ open[d].rule \in LooksBack => Has(open[d].word, r)
      /\ Has(open[d].rest, r)
  BY <1>0, <1>1, ParentEntered
<1>4. open[d].rule \in {"statements", "annotations", "alias", "app_decl", "union", "table_stmts"}
  BY <1>3, AnnotationParents
<1>5. \A j \in (d + 1)..d : FALSE
  OBVIOUS
<1>6. CASE open[d].rule = "statements"
  <2>. DEFINE P == {"peekAttrs", "EnterAnnotation"}
  <2>1. \A p \in P : Excused(p, r)
    BY <1>0, <1>3, <1>6 DEF Excused, KnownPanics
  <2>2. Dies(listener, P)
    BY <1>1, AliveDies
  <2>3. Dies(EnterAnnotation(listener), P)
    BY <2>2, LookupsDie, HelpersDie DEF EnterAnnotation
  <2>. HIDE DEF P
  <2>. QED
    BY <1>2, <2>1, <2>3, DiesFine
<1>7. (TopKind(listener) \in Annotated /\ Top(listener.scope).attrs) => Fine(listener', r)
  BY <1>2 DEF EnterAnnotation, peekAttrs, Fine
<1>8. CASE open[d].rule \in {"alias", "app_decl"}
  <2>1. HasScope(open[d])
    BY <1>3, <1>8 DEF HasScope, ScopedFor, LooksBack
  <2>2. /\ Top(listener.scope) = Entry(d) /\ TopKind(listener) = Entry(d).kind
        /\ Entry(d).by \in {open[d].rule, "set_type"}
        /\ Cardinality(Scoped(d)) \in 1..Len(listener.scope)
    BY <1>0, <1>3, <1>5, <2>1, InnermostScope
  <2>3. SortedEntry(Entry(d))
    BY <2>2 DEF ScopesFound, Entry
  <2>. QED
    BY <1>7, <1>8, <2>2, <2>3 DEF SortedEntry, KindsBy, Annotated
<1>9. CASE open[d].rule = "annotations"
  <2>1. /\ d - 1 \in 1..d /\ (d - 1) + 1 = d
        /\ open[d - 1].rule \in Rules /\ open[d].rule \in Alphabet[open[d - 1].rule]
        /\ open[d - 1].rule \in LooksBack => Has(open[d - 1].word, open[d].rule)
    BY <1>0, <1>1, <1>3, <1>9, ParentBelow
  <2>2. open[d - 1].rule = "field_type"
    BY <1>9, <2>1, AnnotationParents
  <2>3. HasScope(open[d - 1])
    BY <1>9, <2>1, <2>2 DEF HasScope, ScopedFor, LooksBack
  <2>4. \A j \in ((d - 1) + 1)..d : ~HasScope(open[j])
    <3>1. \A j \in ((d - 1) + 1)..d : j = d
      BY <2>1
    <3>. QED
      BY <1>9, <3>1 DEF HasScope, Scoping, ScopedFor
  <2>5. /\ Top(listener.scope) = Entry(d - 1) /\ TopKind(listener) = Entry(d - 1).kind
        /\ Entry(d - 1).by \in {open[d - 1].rule, "set_type"}
        /\ Cardinality(Scoped(d - 1)) \in 1..Len(listener.scope)
    BY <1>0, <2>1, <2>3, <2>4, InnermostScope
  <2>6. SortedEntry(Entry(d - 1))
    BY <2>5 DEF ScopesFound, Entry
  <2>. QED
    BY <1>7, <2>2, <2>5, <2>6 DEF SortedEntry, KindsBy, Annotated
<1>10. CASE open[d].rule = "union"
  <2>1. HasScope(open[d])
    BY <1>10 DEF HasScope, Scoping
  <2>2. TopKind(listener) \in KindsBy(open[d].rule)
    BY <1>0, <1>3, <1>5, <1>10, <2>1, FirmTop DEF Firm
  <2>3. Top(listener.scope) = Entry(d)
    BY <1>0, <1>3, <1>5, <2>1, InnermostScope
  <2>4. Attributed(open[d])
    BY <1>3, <1>10 DEF Attributed, LooksBack
  <2>5. Entry(d).attrs
    BY <1>0, <1>3, <2>4 DEF ScopesFound
  <2>. QED
    BY <1>7, <1>10, <2>2, <2>3, <2>5 DEF KindsBy, Annotated
<1>11. CASE open[d].rule = "table_stmts"
  <2>1. /\ d - 1 \in 1..d /\ (d - 1) + 1 = d
        /\ open[d - 1].rule \in Rules /\ open[d].rule \in Alphabet[open[d - 1].rule]
    BY <1>0, <1>1, <1>3, <1>11, ParentBelow
  <2>2. open[d - 1].rule = "table_def"
    BY <1>11, <2>1, AnnotationParents
  <2>3. /\ (d - 1) - 1 \in 1..d
        /\ open[(d - 1) - 1].rule \in Rules /\ open[d - 1].rule \in Alphabet[open[(d - 1) - 1].rule]
    BY <1>0, <1>1, <2>1, <2>2, ParentBelow
  <2>4. open[d - 2].rule = "table" /\ d - 2 \in 1..d
    <3>1. (d - 1) - 1 = d - 2
      OBVIOUS
    <3>. QED
      BY <2>2, <2>3, <3>1, AnnotationParents
  <2>5. \A j \in ((d - 2) + 1)..d : ~HasScope(open[j])
    <3>1. \A j \in ((d - 2) + 1)..d : j = d \/ j = d - 1
      OBVIOUS
    <3>. QED
      BY <1>11, <2>2, <3>1 DEF HasScope, Scoping, ScopedFor
  <2>6. HasScope(open[d - 2])
    BY <2>4 DEF HasScope, Scoping
  <2>7. /\ TopKind(listener) = Entry(d - 2).kind
        /\ Entry(d - 2).by \in {open[d - 2].rule, "set_type"}
        /\ Cardinality(Scoped(d - 2)) \in 1..Len(listener.scope)
    BY <1>0, <2>4, <2>5, <2>6, InnermostScope
  <2>8. SortedEntry(Entry(d - 2))
    BY <2>7 DEF ScopesFound, Entry
  <2>9. TopKind(listener) = "Type"
    BY <2>4, <2>7, <2>8 DEF SortedEntry, KindsBy
  <2>10. Attributed(open[d])
    BY <1>3, <1>11 DEF Attributed
  <2>11. Cardinality(Scoped(d)) > 0 /\ Entry(d).attrs
    BY <1>0, <1>3, <2>10 DEF ScopesFound
  <2>12. Top(listener.scope) = Entry(d)
    BY <1>0, <1>3, <1>5, <2>11, TopIsEntry
  <2>. QED
    BY <1>7, <2>9, <2>11, <2>12 DEF Annotated
<1>. QED
  BY <1>4, <1>6, <1>8, <1>9, <1>10, <1>11

\* Outside of expressions a rule is entered and fails only as it is known to.
LEMMA EnterFine ==
  ASSUME IInv, Walked, Parented, FieldsFound, FieldTrees', AppTrees, AppTrees', AppsFound, ScopesFound,
         CallsFound, CallTrees', Live(listener), NEW n, NEW r, NEW w, Enters(n, r, w),
         r \notin LooksAtExprs
  PROVE  Fine(listener', r)
<1>1. TypeOK /\ RestsFit /\ listener \in Listener
  BY DEF IInv, Shape, TypeOK
<1>2. CASE r \notin LooksAround
  <2>1. listener' \in Entered(listener, r, w)
    BY <1>1, EnteredFrames
  <2>2. Live(listener')
    BY <1>1, <1>2, <2>1, OthersEnter
  <2>. QED
    BY <2>2 DEF Fine
<1>3. CASE r \in {"reference", "types", "field_type", "user_defined_type"}
  BY <1>3, FieldLookupsFine
<1>4. CASE r \in {"field", "http_path_var_with_type", "param", "view_param", "view_return_type",
                  "transform_return_type"}
  BY <1>4, FieldAddersFine
<1>5. CASE r \in {"inplace_tuple", "table", "alias", "union", "model_name", "subscribe"}
  BY <1>5, TypesFine
<1>6. CASE r \in (InStatements \cup {"if_stmt", "else_stmt"}) \ {"if_else"}
  BY <1>6, StatementsFine
<1>7. CASE r \in Collected
  BY <1>7, CollectedFine
<1>8. CASE r \in {"one_of_cases", "call_arg"}
  BY <1>8, CasesFine, ArgumentsFine
<1>9. CASE r \in {"annotation_value", "doc_string", "annotation"}
  BY <1>9, LinesFine, AnnotationsFine
<1>. QED
  BY <1>2, <1>3, <1>4, <1>5, <1>6, <1>7, <1>8, <1>9 DEF LooksAround

-----------------------------------------------------------------------------
\* Outside of expressions a rule is exited

\* All children of the innermost rule are walked.
Leaving == open # <<>> /\ \A m \in 1..Len(open[Len(open)].rest) : open[Len(open)].rest[m] \notin Rules

\* A rest endpoint leaves with its prefix.
LEMMA PrefixIsThere ==
  ASSUME IInv, Live(listener), Leaving, open[Len(open)].rule = "rest_endpoint"
  PROVE  listener.urlPrefixes # 0 /\ listener.rest_attrs = listener.urlPrefixes
<1>1. TypeOK /\ Shape /\ Len(open) \in Nat
  BY FramesTyped DEF IInv
<1>0. PICK d \in Nat : d = Len(open)
  BY <1>1
<1>2. d # 0 /\ d \in 1..d /\ Top(open) = open[d]
  BY <1>0, <1>1, FramesTyped DEF Leaving, Top
<1>3. ~PathAhead
  <2>1. ~(\E i \in 1..Len(open) : open[i].rule = "http_path")
    <3>1. "rest_endpoint" \in Shallow \ {"http_path", "alias"}
      BY DEF Shallow
    <3>2. Outside
      BY <1>0, <1>1, <1>2, OthersOutside DEF Shape
    <3>. QED
      BY <1>0, <1>2, <3>1, <3>2 DEF Outside
  <2>2. "http_path" \in Rules
    BY DEF Rules, Grammar
  <2>. QED
    BY <1>0, <1>2, <2>1, <2>2 DEF PathAhead, Leaving
<1>4. Opened({"rest_endpoint"}) \in Nat /\ Opened({"rest_endpoint"}) > 0
  BY <1>0, <1>1, <1>2, OpenFinite
<1>. QED
  BY <1>3, <1>4 DEF IInv, Mirror, AttrsMirrorRules, PrefixesMirrorRules

\* The scope of the innermost rule is there.
LEMMA ScopeIsThere ==
  ASSUME IInv, Live(listener), open # <<>>, HasScope(open[Len(open)])
  PROVE  listener.scope # <<>>
<1>0. PICK d \in Nat : d = Len(open)
  BY FramesTyped DEF IInv
<1>1. d \in 1..d /\ d \in 0..d
  BY <1>0, FramesTyped DEF IInv
<1>2. Len(listener.scope) = Cardinality(Scoped(d)) /\ Cardinality(Scoped(d)) > 0
  BY <1>0, <1>1, Ranked
<1>. QED
  BY <1>2

\* Statements with attributes find the statement of them, or fail as they are known to.
LEMMA StatementsExit ==
  ASSUME IInv, Walked, Parented, ScopesFound, Live(listener), open # <<>>,
         open[Len(open)].rule = "statements", NEW w
  PROVE  Fine(ExitStatements(listener, w), "statements")
<1>1. TypeOK /\ listener \in Listener
  BY DEF IInv, TypeOK
<1>0. PICK d \in Nat : d = Len(open)
  BY <1>1, FramesTyped
<1>2. d \in 1..d /\ \A j \in (d + 1)..d : FALSE
  BY <1>0, <1>1, FramesTyped
<1>. DEFINE P == {c \in {"lastStatement", "ExitStatements"} : Excused(c, "statements")}
<1>3. "ExitStatements" \in P
  BY DEF Excused, KnownPanics
<1>4. TopKind(listener) \notin Blocks => "lastStatement" \in P
  <2>1. SUFFICES ASSUME TopKind(listener) \notin Blocks PROVE Excused("lastStatement", "statements")
    OBVIOUS
  <2>2. \E i \in 1..Len(open) : open[i].rule \in {"simple_endpoint", "method_def", "event"}
    BY <1>0, <1>2, <2>1, BlocksAround
  <2>. QED
    BY <2>2 DEF Excused, KnownPanics
<1>5. \A p \in P : Excused(p, "statements")
  OBVIOUS
<1>. HIDE DEF P
<1>6. Dies(listener, P)
  BY <1>1, AliveDies
<1>7. Dies(ExitStatements(listener, w), P)
  BY <1>3, <1>4, <1>6, HelpersDie DEF ExitStatements, lastStatement
<1>. QED
  BY <1>5, <1>7, DiesFine

\* Outside of expressions a rule is exited and fails only as it is known to.
LEMMA ExitFine ==
  ASSUME IInv, Walked, Parented, FieldsFound, ScopesFound, CallsFound, CallTrees, Live(listener), Leaving,
         open[Len(open)].rule \notin TakesExprs
  PROVE  Fine(Exit(listener, open[Len(open)].rule, open[Len(open)].word), open[Len(open)].rule)
<1>1. TypeOK /\ RestsFit /\ listener \in Listener
  BY DEF IInv, Shape, TypeOK
<1>0. PICK d \in Nat : d = Len(open)
  BY <1>1, FramesTyped
<1>2. d \in 1..d /\ open # <<>>
  BY <1>0, <1>1, FramesTyped DEF Leaving
<1>. DEFINE s == listener
            r == open[d].rule
            w == open[d].word
<1>3. SUFFICES Fine(Exit(s, r, w), r)
  BY <1>0
<1>4. HasScope(open[d]) => s.scope # <<>>
  BY <1>0, <1>2, ScopeIsThere
<1>5. /\ Fielded(open[d]) => OnField(s)
      /\ Named(open[d]) => s.field.top # 0
  BY <1>0, <1>2 DEF FieldsFound
<1>6. \A m \in 1..Len(open[d].rest) : open[d].rest[m] \notin Rules
  BY <1>0 DEF Leaving
<1>7. \A p : r \in KnownPanics[p] /\ p \in DOMAIN KnownPanics => Excused(p, r)
  BY DEF Excused
<1>8. \A t, p : Dies(t, {p}) /\ Excused(p, r) => Fine(t, r)
  <2>1. SUFFICES ASSUME NEW t, NEW p, Dies(t, {p}), Excused(p, r) PROVE Fine(t, r)
    OBVIOUS
  <2>. QED
    BY <2>1, DiesFine
<1>. HIDE DEF s, w
<1>9. CASE r \in {"reference", "view_type_spec", "view_param", "http_path_var_with_type", "param"}
  <2>1. r \in {"reference", "view_type_spec", "view_param"} => OnField(s)
    BY <1>5 DEF Fielded, Typed
  <2>2. r \in {"http_path_var_with_type", "param"} /\ Has(w, "reference") => OnField(s)
    BY <1>5 DEF Fielded, w
  <2>3. r = "param" => s.field.top # 0 \/ Has(w, "reference")
    <3>1. {"field", "reference"} \subseteq Rules
      BY DEF Rules, Grammar
    <3>. QED
      BY <1>5, <1>6, <3>1 DEF Named
  <2>4. OnField(s) => s.field.top # 0
    BY DEF OnField
  <2>5. CASE r = "reference"
    BY <1>1, <2>1, <2>5, FieldIsThere DEF Exit, Fine, s
  <2>6. CASE r \in {"view_type_spec", "view_param"}
    BY <1>1, <2>1, <2>4, <2>6, NameIsThere DEF Exit, Fine, s
  <2>7. CASE r = "http_path_var_with_type"
    <3>1. Exit(s, r, w) = ExitHttp_path_var_with_type(s, w)
      BY <2>7 DEF Exit
    <3>2. CASE Has(w, "reference")
      BY <1>1, <2>2, <2>7, <3>1, <3>2, FieldIsThere DEF Fine, s
    <3>3. CASE ~Has(w, "reference")
      BY <3>1, <3>3 DEF Fine, ExitHttp_path_var_with_type, s
    <3>. QED
      BY <3>2, <3>3
  <2>8. CASE r = "param"
    <3>1. Exit(s, r, w) = ExitParam(s, w)
      BY <2>8 DEF Exit
    <3>2. CASE Has(w, "reference")
      BY <1>1, <2>2, <2>8, <3>1, <3>2, FieldIsThere DEF Fine, s
    <3>3. CASE ~Has(w, "reference")
      BY <1>1, <2>3, <2>8, <3>1, <3>3, NameIsThere DEF Fine, s
    <3>. QED
      BY <3>2, <3>3
  <2>. QED
    BY <1>9, <2>5, <2>6, <2>7, <2>8
<1>10. CASE r = "field_type"
  <2>1. Has(w, "annotations") => s.scope # <<>>
    BY <1>4, <1>10 DEF HasScope, ScopedFor, w
  <2>2. Dies(Exit(s, r, w), {"makeConstraint"})
    BY <1>1, <1>10, <2>1, TypesExit DEF Exit, s
  <2>3. Excused("makeConstraint", r)
    BY <1>10 DEF Excused, KnownPanics
  <2>. QED
    BY <1>8, <2>2, <2>3
<1>11. CASE r \in {"table", "union"}
  <2>1. s.scope # <<>>
    BY <1>4, <1>11 DEF HasScope, Scoping
  <2>2. Dies(Exit(s, r, w), {"applyAnnotations"})
    BY <1>1, <1>11, <2>1, TypesExit DEF Exit, s
  <2>3. Excused("applyAnnotations", r)
    BY <1>11 DEF Excused, KnownPanics
  <2>. QED
    BY <1>8, <2>2, <2>3
<1>12. CASE r \in {"field", "params", "view"}
  <2>1. CASE r = "field"
    <3>1. Dies(Exit(s, r, w), {"ExitField"}) /\ Excused("ExitField", r)
      BY <1>1, <2>1, TypesExit DEF Exit, s, Excused, KnownPanics
    <3>. QED
      BY <1>8, <3>1
  <2>2. CASE r = "params"
    <3>1. Dies(Exit(s, r, w), {"ExitParams"}) /\ Excused("ExitParams", r)
      BY <1>1, <2>2, TypesExit DEF Exit, s, Excused, KnownPanics
    <3>. QED
      BY <1>8, <3>1
  <2>3. CASE r = "view"
    <3>1. Dies(Exit(s, r, w), {"ExitView"}) /\ Excused("ExitView", r)
      BY <1>1, <2>3, TypesExit DEF Exit, s, Excused, KnownPanics
    <3>. QED
      BY <1>8, <3>1
  <2>. QED
    BY <1>12, <2>1, <2>2, <2>3
<1>13. CASE r \in {"alias", "app_decl"}
  <2>1. Has(w, "annotation") => s.scope # <<>>
    BY <1>4, <1>13 DEF HasScope, ScopedFor, w
  <2>2. Live(Exit(s, r, w))
    BY <1>1, <1>13, <2>1, TypesExit DEF Exit, s
  <2>. QED
    BY <2>2 DEF Fine
<1>14. CASE r \in {"inplace_tuple", "http_path"}
  <2>1. Live(Exit(s, r, w))
    BY <1>1, <1>14, TypesExit, EndpointsExit, Lives DEF Exit, s
  <2>. QED
    BY <2>1 DEF Fine
<1>15. CASE r \in {"target", "subscriber"}
  <2>1. \E i \in 1..Len(open) : open[i].rule \in Calls
    <3>1. Under({"call_arg", "call_args", "target", "target_endpoint", "subscriber"}, Calls)
      BY DEF CallTrees
    <3>2. PICK i \in 1..(d - 1) : open[i].rule \in Calls
      BY <1>0, <1>2, <1>15, <3>1 DEF Under
    <3>3. i \in 1..d
      OBVIOUS
    <3>. QED
      BY <1>0, <3>2, <3>3
  <2>2. Says(s, {"call"})
    BY <2>1 DEF CallsFound, s
  <2>3. Live(Exit(s, r, w))
    BY <1>1, <1>15, <2>2, EndpointsExit DEF Exit, s
  <2>. QED
    BY <2>3 DEF Fine
<1>16. CASE r = "statements"
  BY <1>0, <1>2, <1>16, StatementsExit DEF Exit, s
<1>17. CASE r \in Blocked \cup {"method_def"}
  <2>1. s.scope # <<>>
    BY <1>4, <1>17 DEF HasScope, Scoping, Blocked
  <2>2. Live(Exit(s, r, w))
    BY <1>1, <1>17, <2>1, EndpointsExit DEF Exit, s, Blocked
  <2>. QED
    BY <2>2 DEF Fine
<1>18. CASE r \in {"simple_endpoint", "event", "subscribe"}
  <2>1. Has(w, "statements") => s.scope # <<>>
    BY <1>4, <1>18 DEF HasScope, ScopedFor, w
  <2>2. Live(Exit(s, r, w))
    BY <1>1, <1>18, <2>1, EndpointsExit DEF Exit, s
  <2>. QED
    BY <2>2 DEF Fine
<1>19. CASE r = "collector"
  <2>1. Has(w, "collector_stmts") => s.scope # <<>>
    BY <1>4, <1>19 DEF HasScope, ScopedFor, w
  <2>2. Live(Exit(s, r, w))
    BY <1>1, <1>19, <2>1, EndpointsExit DEF Exit, s
  <2>. QED
    BY <2>2 DEF Fine
<1>20. CASE r = "rest_endpoint"
  <2>1. Live(Exit(s, r, w))
    BY <1>0, <1>1, <1>20, PrefixIsThere, EndpointsExit DEF Exit, s
  <2>. QED
    BY <2>1 DEF Fine
<1>21. CASE r = "collector_stmts"
  <2>1. Collected \subseteq Rules
    BY DEF Collected, Rules, Grammar
  <2>2. ~HasAny(open[d].rest, Collected)
    BY <1>6, <2>1 DEF HasAny, Has
  <2>3. Says(s, Statements)
    BY <1>0, <1>2, <1>21, <2>2 DEF CallsFound, s
  <2>4. Live(Exit(s, r, w))
    BY <1>1, <1>21, <2>3, EndpointsExit DEF Exit, s
  <2>. QED
    BY <2>4 DEF Fine
<1>22. CASE r \in {"set_type", "sequence_type"}
  <2>. DEFINE P == {"popScope", "makeConstraint"}
  <2>1. OnField(s)
    BY <1>5, <1>22 DEF Fielded, Typed
  <2>2. Dies(Exit(s, r, w), P)
    BY <1>1, <1>22, <2>1, FieldIsThere DEF Exit, s
  <2>3. \A p \in P : Excused(p, r)
    BY <1>22 DEF Excused, KnownPanics
  <2>. HIDE DEF P
  <2>. QED
    BY <2>2, <2>3, DiesFine
<1>23. CASE r \notin {"reference", "view_type_spec", "view_param", "http_path_var_with_type", "param",
                      "field_type", "table", "union", "field", "params", "view", "alias", "app_decl",
                      "inplace_tuple", "http_path", "target", "subscriber", "statements",
                      "method_def", "simple_endpoint", "event", "subscribe", "collector",
                      "rest_endpoint", "collector_stmts", "set_type", "sequence_type"} \cup Blocked
  <2>1. r \notin TakesExprs
    BY <1>0
  <2>2. Exit(s, r, w) = s
    BY <1>23, <2>1 DEF Exit, TakesExprs, Body, Inner, Gainers, Neutral, Outer, Assigns, Blocked
  <2>. QED
    BY <2>2 DEF Fine, s
<1>. QED
  BY <1>9, <1>10, <1>11, <1>12, <1>13, <1>14, <1>15, <1>16, <1>17, <1>18, <1>19, <1>20, <1>21, <1>22, <1>23

-----------------------------------------------------------------------------
\* What the children before have left for the next

\* What a rule has put on the stack: its own value and those of the children before.
LEMMA PendingWalked ==
  ASSUME TypeOK, NEW i \in 1..Len(open), open[i].rule \in Rules \cap Held,
         NEW w \in Grammar[open[i].rule], NEW m \in 0..Len(w), WalkedTo(i, w, m)
  PROVE  /\ w \in Seq(Symbols) /\ open[i].rest = SubSeq(w, m + 1, Len(w))
         /\ Pending(open[i]) = Put(open[i].rule, w) + Gained(SubSeq(w, 1, m))
         /\ Put(open[i].rule, w) \in {0, 1} /\ Gained(SubSeq(w, 1, m)) \in Nat
<1>. DEFINE f == open[i]
            r == f.rule
            a == Gained(SubSeq(w, 1, m))
            b == Gained(SubSeq(w, m + 1, Len(w)))
<1>1. w \in Seq(Symbols)
  BY WordsTyped
<1>2. f.rest = SubSeq(w, m + 1, Len(w))
  <2>1. f.rest \in Seq(Symbols)
    BY FramesTyped
  <2>2. Len(f.rest) = Len(w) - m /\ \A k \in 1..Len(f.rest) : f.rest[k] = w[m + k]
    BY DEF WalkedTo
  <2>. DEFINE v == SubSeq(w, m + 1, Len(w))
  <2>3. v \in Seq(Symbols) /\ Len(v) = Len(w) - m /\ \A k \in 1..(Len(w) - m) : v[k] = w[m + k]
    BY <1>1
  <2>. DEFINE x == f.rest
  <2>. HIDE DEF x, v
  <2>4. x \in Seq(Symbols) /\ v \in Seq(Symbols) /\ Len(x) = Len(v) /\ \A k \in 1..Len(v) : x[k] = v[k]
    BY <2>1, <2>2, <2>3 DEF x
  <2>5. x = v
    BY <2>4
  <2>. QED
    BY <2>5 DEF x, v
<1>3. Put(r, f.word) = Put(r, w) /\ Took(r, f.word) = Took(r, w)
  <2>1. CASE r \in LooksBack
    <3>1. f.word = w
      BY <2>1 DEF WalkedTo
    <3>. QED
      BY <3>1
  <2>2. CASE r \notin LooksBack
    BY <2>2, SameWord
  <2>. QED
    BY <2>1, <2>2
<1>4. Gained(w) = Took(r, w)
  <2>1. Gained(w) = Took(r, Frame(r, w).word)
    BY GainedIsTaken
  <2>2. CASE r \in LooksBack
    BY <2>1, <2>2 DEF Frame
  <2>3. CASE r \notin LooksBack
    BY <2>1, <2>3, SameWord
  <2>. QED
    BY <2>2, <2>3
<1>5. Gained(w) = a + b /\ a \in Nat /\ b \in Nat
  BY <1>1, GainedSplit
<1>6. Pending(f) = Put(r, w) + Gained(w) - b
  BY <1>2, <1>3, <1>4 DEF Pending
<1>7. Put(r, w) \in {0, 1}
  BY DEF Put
<1>. HIDE DEF a, b, r
<1>8. Pending(f) = Put(r, w) + a
  BY <1>5, <1>6, <1>7
<1>. QED
  BY <1>1, <1>2, <1>5, <1>7, <1>8 DEF a, r

\* The rules that stand around one that needs something on the stack.
LEMMA FootedParents ==
  \A p \in Rules :
    /\ Alphabet[p] \cap Footed # {}
         => p \in {"atom", "term", "binexpr", "relop", "atom_dot_relop", "atomT_implied_dot",
                   "matching_rhs", "if_multiple_lines", "expr_agg_func", "expr_first_func",
                   "expr_single_arg_func", "expr_set", "expr_atom_list", "expr_list"}
    /\ Alphabet[p] \cap Needing # {}
         => p \in {"atom", "term", "binexpr", "relop", "atom_dot_relop", "atomT_implied_dot",
                   "matching_rhs", "if_multiple_lines"}
<1>1. \A p \in Rules : Alphabet[p] \cap Footed # {}
         => p \in {"atom", "term", "binexpr", "relop", "atom_dot_relop", "atomT_implied_dot",
                   "matching_rhs", "if_multiple_lines", "expr_agg_func", "expr_first_func",
                   "expr_single_arg_func", "expr_set", "expr_atom_list", "expr_list"}
  BY SMTT(60) DEF Alphabet, Rules, Grammar, Footed, Needing
<1>2. \A p \in Rules : Alphabet[p] \cap Needing # {}
         => p \in {"atom", "term", "binexpr", "relop", "atom_dot_relop", "atomT_implied_dot",
                   "matching_rhs", "if_multiple_lines"}
  BY SMTT(60) DEF Alphabet, Rules, Grammar, Needing
<1>. QED
  BY <1>1, <1>2

\* The rules that stand around one that looks for what its parent has pushed.
LEMMA HeirParents ==
  \A p \in Rules :
    /\ Alphabet[p] \cap Heirs # {}
         => /\ Alphabet[p] \cap Gainers = {}
            /\ p \in {"expr_func", "expr_agg_func", "func_args", "expr_rank_func", "expr_first_func",
                      "rank_expr_list", "expr_navigate", "if_multiple_lines", "cond_block",
                      "if_controls"}
    /\ "squiggly_args" \in Alphabet[p] => p = "expr_matching"
    /\ "ifvar" \in Alphabet[p] => p = "if_multiple_lines"
    /\ "e_single_arg_func" \in Alphabet[p] => p = "expr_single_arg_func"
<1>1. \A p \in Rules : Alphabet[p] \cap Heirs # {}
         => p \in {"expr_func", "expr_agg_func", "func_args", "expr_rank_func", "expr_first_func",
                      "rank_expr_list", "expr_navigate", "if_multiple_lines", "cond_block",
                      "if_controls"}
  BY SMTT(60) DEF Alphabet, Rules, Grammar, Heirs
<1>2. \A p \in {"expr_func", "expr_agg_func", "func_args", "expr_rank_func", "expr_first_func",
                "rank_expr_list", "expr_navigate", "if_multiple_lines", "cond_block", "if_controls"} :
        Alphabet[p] \cap Gainers = {}
  BY SMTT(60) DEF Alphabet, Gainers
<1>3. \A p \in Rules :
        /\ "squiggly_args" \in Alphabet[p] => p = "expr_matching"
        /\ "ifvar" \in Alphabet[p] => p = "if_multiple_lines"
        /\ "e_single_arg_func" \in Alphabet[p] => p = "expr_single_arg_func"
  BY SMTT(60) DEF Alphabet, Rules, Grammar
<1>. QED
  BY <1>1, <1>2, <1>3

\* The words of operators start with an operand.
LEMMA OperandFirst ==
  ASSUME NEW p \in {"atom", "term", "binexpr"}, NEW w \in Grammar[p]
  PROVE  /\ w[1] \in Gainers /\ 1 \in 1..Len(w)
         /\ w[1] \notin {"relop", "termT", "binexprT"}
<1>1. /\ Grammar["atom"] = {<<"atomT">>} ** Many({"relop"})
      /\ Grammar["term"] = {<<"unaryTerm">>} ** Many({"termT"})
      /\ Grammar["binexpr"] = {<<"term">>} ** Many({"binexprT"})
  BY DEF Grammar, atom, term, binexpr
<1>2. \E a \in {"atomT", "unaryTerm", "term"}, b \in {"relop", "termT", "binexprT"} : w \in {<<a>>} ** Many({b})
  BY <1>1
<1>3. ASSUME NEW a \in {"atomT", "unaryTerm", "term"}, NEW b, w \in {<<a>>} ** Many({b})
      PROVE  w[1] = a /\ 1 \in 1..Len(w)
  <2>0. PICK B : B = Many({b})
    OBVIOUS
  <2>4. PICK A : A = {<<a>>}
    OBVIOUS
  <2>5. w \in A ** B
    BY <1>3, <2>0, <2>4
  <2>6. \E x \in A, u \in B : w = x \o u
    BY <2>5 DEF **
  <2>1. PICK x \in {<<a>>}, u \in B : w = x \o u
    BY <2>4, <2>6
  <2>2. u \in Seq({b}) /\ x = <<a>>
    BY <2>0, <2>1, ManyIn
  <2>3. Len(<<a>>) = 1 /\ <<a>>[1] = a /\ <<a>> \in Seq({a, b}) /\ u \in Seq({a, b})
    BY <2>2
  <2>. QED
    BY <2>1, <2>2, <2>3
<1>6. w[1] \in {"atomT", "unaryTerm", "term"} /\ 1 \in 1..Len(w)
  BY <1>2, <1>3
<1>. QED
  BY <1>6 DEF Gainers

\* The operator comes first; only the first of the conditions of several lines is a variable.
LEMMA FirstOnly ==
  ASSUME NEW p \in {"expr_single_arg_func", "if_multiple_lines"}, NEW w \in Grammar[p], NEW k \in 1..Len(w)
  PROVE  /\ p = "expr_single_arg_func" => w[1] = "e_single_arg_func"
         /\ w[k] \in {"e_single_arg_func", "ifvar"} => k = 1
<1>1. CASE p = "expr_single_arg_func"
  <2>1. Grammar[p] = {<<"e_single_arg_func">>} ** Opt("e_scope_var") ** {<<"expr">>}
    BY <1>1 DEF Grammar, expr_single_arg_func
  <2>2. PICK u \in {<<"e_single_arg_func">>} ** Opt("e_scope_var"), v \in {<<"expr">>} : w = u \o v
    BY <2>1 DEF **
  <2>3. PICK x \in {<<"e_single_arg_func">>}, y \in Opt("e_scope_var") : u = x \o y
    BY <2>2 DEF **
  <2>5. x = <<"e_single_arg_func">> /\ (y = <<>> \/ y = <<"e_scope_var">>) /\ v = <<"expr">>
    BY <2>2, <2>3 DEF Opt
  <2>6. u \in Seq({"e_single_arg_func", "e_scope_var"}) /\ u[1] = "e_single_arg_func" /\ Len(u) \in {1, 2}
           /\ (Len(u) = 2 => u[2] = "e_scope_var")
    <3>1. CASE y = <<>>
      BY <2>3, <2>5, <3>1 DEF Symbols
    <3>2. CASE y = <<"e_scope_var">>
      BY <2>3, <2>5, <3>2 DEF Symbols
    <3>. QED
      BY <2>5, <3>1, <3>2
  <2>7. Len(w) = Len(u) + 1 /\ (\A j \in 1..Len(u) : w[j] = u[j]) /\ w[Len(u) + 1] = "expr"
    BY <2>2, <2>5, <2>6
  <2>8. k \in 1..3 /\ (k > Len(u) => w[k] = "expr") /\ (k <= Len(u) => w[k] = u[k])
    BY <2>6, <2>7
  <2>9. w[1] = "e_single_arg_func"
    BY <2>6, <2>7
  <2>10. w[k] \in {"e_single_arg_func", "ifvar"} => k = 1
    BY <2>6, <2>8
  <2>. QED
    BY <1>1, <2>9, <2>10
<1>2. CASE p = "if_multiple_lines"
  <2>1. Grammar[p] = Opt("ifvar") ** Some({"cond_block"}) ** Opt("final_else")
    BY <1>2 DEF Grammar, if_multiple_lines
  <2>2. PICK u \in Opt("ifvar") ** Some({"cond_block"}), v \in Opt("final_else") : w = u \o v
    BY <2>1 DEF **
  <2>3. PICK x \in Opt("ifvar"), y \in Some({"cond_block"}) : u = x \o y
    BY <2>2 DEF **
  <2>4. y \in Seq({"cond_block", "final_else"}) /\ v \in Seq({"cond_block", "final_else"})
    <3>1. y \in Seq({"cond_block", "final_else"})
      BY SomeIn
    <3>2. Opt("final_else") \subseteq Seq({"cond_block", "final_else"})
      BY OptIn
    <3>. QED
      BY <3>1, <3>2
  <2>5. x \in {<<>>, <<"ifvar">>}
    BY <2>3 DEF Opt
  <2>6. ASSUME w[k] \in {"e_single_arg_func", "ifvar"} PROVE k = 1
    <3>. DEFINE z == y \o v
    <3>1. z \in Seq({"cond_block", "final_else"}) /\ w = x \o z
      BY <2>2, <2>3, <2>4, <2>5
    <3>. HIDE DEF z
    <3>2. CASE x = <<>>
      <4>1. w = z
        BY <3>1, <3>2
      <4>2. w[k] \in {"cond_block", "final_else"}
        BY <3>1, <4>1
      <4>. QED
        BY <2>6, <4>2
    <3>3. CASE x = <<"ifvar">>
      <4>1. k # 1 => w[k] = z[k - 1] /\ k - 1 \in 1..Len(z)
        BY <3>1, <3>3
      <4>2. k # 1 => w[k] \in {"cond_block", "final_else"}
        BY <3>1, <4>1
      <4>. QED
        BY <2>6, <4>2
    <3>. QED
      BY <2>5, <3>2, <3>3
  <2>. QED
    BY <1>2, <2>6
<1>. QED
  BY <1>1, <1>2

\* A matching starts with its arguments, and has one right-hand side.
LEMMA SquigglyFirst ==
  ASSUME NEW w \in Grammar["expr_matching"], NEW k \in 1..Len(w), w[k] = "squiggly_args"
  PROVE  k = 1
<1>1. Grammar["expr_matching"] = Opt("squiggly_args") ** {<<"matching_rhs">>}
  BY DEF Grammar, expr_matching
<1>2. PICK u \in Opt("squiggly_args"), v \in {<<"matching_rhs">>} : w = u \o v
  BY <1>1 DEF **
<1>3. u \in {<<>>, <<"squiggly_args">>} /\ v = <<"matching_rhs">>
  BY <1>2 DEF Opt
<1>4. CASE u = <<>>
  <2>1. w = v
    BY <1>2, <1>3, <1>4
  <2>. QED
    BY <1>3, <2>1
<1>5. CASE u = <<"squiggly_args">>
  <2>1. Len(w) = 2 /\ w[2] = "matching_rhs"
    BY <1>2, <1>3, <1>5
  <2>. QED
    BY <2>1
<1>. QED
  BY <1>3, <1>4, <1>5

\* Of these rules a word has one child.
LEMMA OneChild ==
  ASSUME NEW w \in Grammar["matching_rhs"], NEW k \in 1..Len(w), w[k] \in {"expr_table_of_op", "expr_navigate"}
  PROVE  Put("matching_rhs", w) = 1
<1>1. w \in One({"expr_table_of_op", "expr_navigate", "atomT_paren", "E_Name"})
  BY DEF Grammar, matching_rhs
<1>2. Len(w) = 1 /\ w[1] \in {"expr_table_of_op", "expr_navigate"}
  BY <1>1 DEF One
<1>3. ~HasAny(w, {"E_Name", "atomT_paren"})
  BY <1>2 DEF HasAny, Has
<1>. QED
  BY <1>3 DEF Put

\* A rule that is walked next comes after all that have been walked, and after its first child.
LEMMA NotFirst ==
  ASSUME NEW w \in Seq(Symbols), NEW m \in 0..Len(w), NEW n \in 1..(Len(w) - m),
         \A j \in (m + 1)..(m + n - 1) : w[j] \notin Rules,
         w[1] \in Rules, w[m + n] # w[1]
  PROVE  m \in 1..Len(w)
<1>1. CASE m = 0
  <2>1. n # 1
    BY <1>1
  <2>2. 1 \in (m + 1)..(m + n - 1)
    BY <1>1, <2>1
  <2>. QED
    BY <2>2
<1>. QED
  BY <1>1

\* What the rule that is walked next takes and stands on is there.
LEMMA ChildFits ==
  ASSUME NEW p \in Rules, NEW w \in Grammar[p], w \in Seq(Symbols),
         NEW m \in 0..Len(w), NEW n \in 1..(Len(w) - m), w[m + n] \in Rules,
         \A j \in (m + 1)..(m + n - 1) : w[j] \notin Rules,
         NEW c \in Nat, c = Put(p, w) + Gained(SubSeq(w, 1, m))
  PROVE  /\ Need(p) + c >= Need(w[m + n])
         /\ Floor(p) + c >= Floor(w[m + n])
<1>. DEFINE r == w[m + n]
<1>0. Put(p, w) \in {0, 1} /\ Gained(SubSeq(w, 1, m)) \in Nat /\ m + n \in 1..Len(w)
  <2>1. Len(SubSeq(w, 1, m)) \in Nat
    OBVIOUS
  <2>. QED
    BY <2>1, GainedType DEF Put
<1>1. r \in Alphabet[p]
  <2>1. w \in Seq(Alphabet[p])
    BY InAlphabet
  <2>. QED
    BY <1>0, <2>1
<1>2. Need(p) \in {0, 1} /\ Floor(p) \in {0, 1} /\ Need(r) \in {0, 1} /\ Floor(r) \in {0, 1}
      /\ Need(p) <= Floor(p) /\ Need(r) <= Floor(r) /\ (r \notin Footed => Need(r) = 0 /\ Floor(r) = 0)
      /\ (r \notin Needing => Need(r) = 0)
  BY DEF Need, Floor, Footed
<1>. HIDE DEF r
<1>3. CASE p \in {"atom", "term", "binexpr"} /\ r \in Footed
  <2>1. w[1] \in Gainers /\ w[1] \notin {"relop", "termT", "binexprT"}
    BY <1>3, OperandFirst
  <2>2. r \in {"relop", "termT", "binexprT"}
    <3>1. \A q \in {"atom", "term", "binexpr"} : Alphabet[q] \cap Footed \subseteq {"relop", "termT", "binexprT"}
      BY SMTT(60) DEF Alphabet, Footed, Needing
    <3>. QED
      BY <1>1, <1>3, <3>1
  <2>3. w[1] \in Rules
    BY <2>1 DEF Gainers, Rules, Grammar
  <2>4. m \in 1..Len(w)
    BY <2>1, <2>2, <2>3, NotFirst DEF r
  <2>5. Gained(SubSeq(w, 1, m)) >= 1
    BY <2>1, <2>4, FirstGains
  <2>. QED
    BY <1>0, <1>2, <2>5 DEF r
<1>4. CASE p \in {"relop", "atom_dot_relop", "expr_agg_func", "expr_first_func", "expr_single_arg_func"}
           /\ r \in Footed
  <2>1. Need(p) = 1 /\ Floor(p) = 1
    BY <1>4 DEF Need, Floor, Footed, Needing
  <2>. QED
    BY <1>0, <1>2, <2>1 DEF r
<1>5. CASE p \in {"atomT_implied_dot", "if_multiple_lines", "expr_set", "expr_atom_list"}
  <2>1. Put(p, w) = 1
    BY <1>5 DEF Put
  <2>. QED
    BY <1>0, <1>2, <2>1 DEF r
<1>6. CASE p = "matching_rhs" /\ r \in Footed
  <2>1. r \in {"expr_table_of_op", "expr_navigate"}
    <3>1. Alphabet["matching_rhs"] \cap Footed \subseteq {"expr_table_of_op", "expr_navigate"}
      BY SMTT(60) DEF Alphabet, Footed, Needing
    <3>. QED
      BY <1>1, <1>6, <3>1
  <2>2. Put(p, w) = 1
    BY <1>0, <1>6, <2>1, OneChild DEF r
  <2>. QED
    BY <1>0, <1>2, <2>2 DEF r
<1>7. CASE p = "expr_list" /\ r \in Footed
  <2>1. Floor(p) = 1
    BY <1>7 DEF Floor, Footed
  <2>2. r \notin Needing
    BY <1>1, <1>7, FootedParents
  <2>. QED
    BY <1>0, <1>2, <2>1, <2>2 DEF r
<1>8. CASE r \notin Footed
  BY <1>0, <1>2, <1>8 DEF r
<1>9. r \in Footed => p \in {"atom", "term", "binexpr", "relop", "atom_dot_relop", "atomT_implied_dot",
                   "matching_rhs", "if_multiple_lines", "expr_agg_func", "expr_first_func",
                   "expr_single_arg_func", "expr_set", "expr_atom_list", "expr_list"}
  BY <1>1, FootedParents
<1>. QED
  BY <1>3, <1>4, <1>5, <1>6, <1>7, <1>8, <1>9

\* What a rule has pushed or made stays where it is while its children are walked.
LEMMA PinFits ==
  ASSUME NEW p \in Rules \cap (Heirs \cup Makers \cup Pushed), NEW w \in Grammar[p], w \in Seq(Symbols),
         NEW m \in 0..Len(w), NEW n \in 1..(Len(w) - m), w[m + n] \in Rules,
         \A j \in (m + 1)..(m + n - 1) : w[j] \notin Rules,
         p = "expr_single_arg_func" => w[m + n] # "e_single_arg_func",
         p = "if_multiple_lines" => w[m + n] # "ifvar",
         NEW c \in Nat, c = Put(p, w) + Gained(SubSeq(w, 1, m))
  PROVE  Off(p) + Need(w[m + n]) <= c
<1>. DEFINE r == w[m + n]
<1>0. Put(p, w) \in {0, 1} /\ Gained(SubSeq(w, 1, m)) \in Nat /\ m + n \in 1..Len(w)
  <2>1. Len(SubSeq(w, 1, m)) \in Nat
    OBVIOUS
  <2>. QED
    BY <2>1, GainedType DEF Put
<1>1. r \in Alphabet[p]
  <2>1. w \in Seq(Alphabet[p])
    BY InAlphabet
  <2>. QED
    BY <1>0, <2>1
<1>2. Need(r) = 0
  <2>1. CASE p = "if_multiple_lines"
    <3>1. Alphabet["if_multiple_lines"] = {"ifvar", "cond_block", "final_else"}
      BY DEF Alphabet
    <3>. QED
      BY <1>1, <2>1, <3>1 DEF Need, Needing
  <2>2. CASE p # "if_multiple_lines"
    <3>1. p \notin {"atom", "term", "binexpr", "relop", "atom_dot_relop", "atomT_implied_dot",
                   "matching_rhs", "if_multiple_lines"}
      BY <2>2 DEF Heirs, Makers, Pushed
    <3>2. r \notin Needing
      BY <1>1, <3>1, FootedParents
    <3>. QED
      BY <3>2 DEF Need
  <2>. QED
    BY <2>1, <2>2
<1>. HIDE DEF r
<1>3. CASE p = "expr_single_arg_func"
  <2>1. 1 \in 1..Len(w)
    BY <1>0
  <2>2. w[1] = "e_single_arg_func"
    BY <1>3, <2>1, FirstOnly
  <2>3. w[1] \in Gainers /\ w[1] \in Rules
    BY <2>2 DEF Gainers, Rules, Grammar
  <2>4. m \in 1..Len(w)
    BY <1>3, <2>2, <2>3, NotFirst
  <2>5. Gained(SubSeq(w, 1, m)) >= 1
    BY <2>3, <2>4, FirstGains
  <2>6. Off(p) = 1
    BY <1>3 DEF Off, Pushed
  <2>. QED
    BY <1>0, <1>2, <2>5, <2>6 DEF r
<1>4. CASE p \in {"expr_func", "if_multiple_lines"}
  <2>1. Put(p, w) = 1 /\ Off(p) = 1
    BY <1>4 DEF Put, Off, Pushed
  <2>. QED
    BY <1>0, <1>2, <2>1 DEF r
<1>5. CASE p \notin Pushed
  <2>1. Off(p) = 0
    BY <1>5 DEF Off
  <2>. QED
    BY <1>0, <1>2, <2>1 DEF r
<1>. QED
  BY <1>3, <1>4, <1>5 DEF Pushed

\* What a rule looks for is what its parent has pushed or made.
LEMMA HeirFits ==
  ASSUME NEW p \in Rules, NEW w \in Grammar[p], w \in Seq(Symbols),
         NEW m \in 0..Len(w), NEW n \in 1..(Len(w) - m), w[m + n] \in Heirs,
         \A j \in (m + 1)..(m + n - 1) : w[j] \notin Rules, NEW v,
         NEW c \in Nat, c = Put(p, w) + Gained(SubSeq(w, 1, m))
  PROVE  /\ p \in (Heirs \cup Makers \cup Pushed) \ {"expr_single_arg_func"}
         /\ c = Off(p)
         /\ Kinds(p, SubSeq(w, m + 1, Len(w))) \subseteq Kinds(w[m + n], v)
<1>. DEFINE r == w[m + n]
            rest == SubSeq(w, m + 1, Len(w))
            H == {"expr_func", "expr_agg_func", "func_args", "expr_rank_func", "expr_first_func",
                  "rank_expr_list", "expr_navigate", "if_multiple_lines", "cond_block", "if_controls"}
<1>0. m + n \in 1..Len(w)
  OBVIOUS
<1>1. r \in Alphabet[p] /\ w \in Seq(Alphabet[p])
  <2>1. w \in Seq(Alphabet[p])
    BY InAlphabet
  <2>. QED
    BY <1>0, <2>1
<1>2. p \in H /\ Alphabet[p] \cap Gainers = {}
  BY <1>1, HeirParents
<1>3. Gained(SubSeq(w, 1, m)) = 0
  BY <1>1, <1>2, NoneGains
<1>4. Put(p, w) = Off(p)
  <2>1. CASE p \in {"expr_func", "if_multiple_lines"}
    BY <2>1 DEF Put, Off, Pushed
  <2>2. CASE p \notin {"expr_func", "if_multiple_lines"}
    <3>1. p \notin Pushed
      BY <1>2, <2>2 DEF Pushed
    <3>2. p \notin {"expr_func", "expr_set", "expr_atom_list", "atomT_implied_dot", "if_multiple_lines", "matching_rhs"}
      BY <1>2, <2>2
    <3>3. Put(p, w) = 0
      BY <3>2 DEF Put
    <3>. QED
      BY <3>1, <3>3 DEF Off
  <2>. QED
    BY <2>1, <2>2
<1>5. p \in (Heirs \cup Makers \cup Pushed) \ {"expr_single_arg_func"}
  BY <1>2 DEF Heirs, Makers, Pushed
<1>6. Kinds(p, rest) \subseteq Kinds(r, v)
  <2>1. CASE p = "if_multiple_lines"
    <3>1. r \in {"ifvar", "cond_block", "final_else"}
      <4>1. Alphabet["if_multiple_lines"] = {"ifvar", "cond_block", "final_else"}
        BY DEF Alphabet
      <4>. QED
        BY <1>1, <2>1, <4>1
    <3>2. CASE r = "ifvar"
      BY <2>1, <3>2 DEF Kinds
    <3>3. CASE r # "ifvar"
      <4>1. ASSUME Has(rest, "ifvar") PROVE FALSE
        <5>1. PICK k \in 1..Len(rest) : rest[k] = "ifvar"
          BY <4>1 DEF Has
        <5>2. Len(rest) = Len(w) - m /\ rest[k] = w[m + k] /\ m + k \in 1..Len(w)
          BY <5>1
        <5>3. m + k = 1
          BY <2>1, <5>1, <5>2, FirstOnly
        <5>4. w[1] = "ifvar" /\ w[1] \in Rules
          BY <5>1, <5>2, <5>3 DEF Rules, Grammar
        <5>5. m = 0 /\ m + n # 1
          BY <3>3, <5>1, <5>3, <5>4
        <5>6. 1 \in (m + 1)..(m + n - 1)
          BY <5>5
        <5>. QED
          BY <5>4, <5>6
      <4>2. Kinds(p, rest) = {"ifelse"}
        BY <2>1, <4>1 DEF Kinds
      <4>. QED
        BY <3>1, <3>3, <4>2 DEF Kinds
    <3>. QED
      BY <3>2, <3>3
  <2>2. CASE p # "if_multiple_lines"
    <3>1. \A q \in H \ {"if_multiple_lines"}, x \in Heirs : x \in Alphabet[q] => Kinds(q, rest) \subseteq Kinds(x, v)
      <4>1. Alphabet["expr_func"] \cap Heirs = {"func_args"} /\ Alphabet["expr_agg_func"] \cap Heirs = {"func_args"}
            /\ Alphabet["func_args"] \cap Heirs = {"func_arg"}
            /\ Alphabet["expr_rank_func"] \cap Heirs = {"rank_expr_list"}
            /\ Alphabet["expr_first_func"] \cap Heirs = {"first_func_target", "rank_expr_list"}
            /\ Alphabet["rank_expr_list"] \cap Heirs = {"rank_expr"}
            /\ Alphabet["expr_navigate"] \cap Heirs = {"expr_navigate_attr"}
            /\ Alphabet["cond_block"] \cap Heirs = {"if_controls", "else_block_stmt"}
            /\ Alphabet["if_controls"] \cap Heirs = {"control_item"}
        BY SMTT(60) DEF Alphabet, Heirs
      <4>. QED
        BY <4>1 DEF Kinds
    <3>. QED
      BY <1>1, <1>2, <2>2, <3>1
  <2>. QED
    BY <2>1, <2>2
<1>7. c = Off(p)
  BY <1>3, <1>4 DEF Off
<1>. QED
  BY <1>5, <1>6, <1>7

-----------------------------------------------------------------------------
\* The expressions that the open rules wait for

\* The rules of expressions stand inside of those around them.
InnerInside == \A i \in 1..Len(open) : open[i].rule \in Inner => Inside(i)

\* A rule whose expression is where it was put, and is not being made or changed by a child.
Pinned(i) ==
  /\ open[i].rule \in Heirs \cup Makers \cup Pushed
  /\ open[i].rule = "expr_single_arg_func"
       => /\ ~Has(open[i].rest, "e_single_arg_func")
          /\ i < Len(open) => open[i + 1].rule # "e_single_arg_func"
  /\ open[i].rule = "if_multiple_lines" => (i < Len(open) => open[i + 1].rule # "ifvar")

\* That expression is of the kind the rule wants, and none of the rules inside takes it.
PinAt(h, i) ==
  /\ Finds(listener, h[i] + Off(open[i].rule), Kinds(open[i].rule, open[i].rest))
  /\ \A j \in (i + 1)..Len(open) : h[i] + Off(open[i].rule) + Need(open[j].rule) <= h[j]

Pins(h) ==
  \A i \in 1..Len(open) : Inside(i) =>
    h[i] >= Floor(open[i].rule) /\ (Pinned(i) => PinAt(h, i))

\* The numbers are small.
LEMMA NeedType ==
  \A r : /\ Need(r) \in {0, 1} /\ Floor(r) \in {0, 1} /\ Off(r) \in {0, 1} /\ Need(r) <= Floor(r)
  BY DEF Need, Floor, Footed, Off

\* Where the next rule of an expression is entered, and what is there.
LEMMA EnterFits ==
  ASSUME TypeOK, RestsFit, Walked, HeldInside, InnerInside, Live(listener),
         NEW n, NEW r, NEW w, Enters(n, r, w), NEW h \in [Nat -> Int], Tall(h), Pins(h), Inside(Len(open))
  PROVE  LET d == Len(open)
             e == Len(listener.exprs)
         IN  /\ e \in Nat /\ e >= Floor(r) /\ h[d] - Need(open[d].rule) <= e - Need(r)
             /\ r \in Heirs => Finds(listener, e, Kinds(r, w))
             /\ r = "squiggly_args" => Finds(listener, e, {"binexpr"})
             /\ (Pinned(d) /\ (open[d].rule = "if_multiple_lines" => r # "ifvar")
                           /\ (open[d].rule = "expr_single_arg_func" => r # "e_single_arg_func"))
                  => h[d] + Off(open[d].rule) + Need(r) <= e
<1>0. PICK d \in Nat : d = Len(open)
  BY FramesTyped
<1>. DEFINE rest == open[d].rest
            p == open[d].rule
            e == Len(listener.exprs)
<1>1. /\ d > 0 /\ d \in 1..d /\ r \in Rules
      /\ n \in 1..Len(rest) /\ r = rest[n] /\ rest \in Seq(Symbols)
  BY <1>0, EnteredFrames
<1>2. \A j \in 1..(n - 1) : rest[j] \notin Rules
  BY <1>0 DEF Enters, NextIs, Top
<1>3. p \in Rules \cap Held
  <2>1. p \in Held /\ p \in Rules \cup {"file"}
    BY <1>0, <1>1, FramesTyped DEF HeldInside
  <2>. QED
    BY <2>1, FileIsNoRule DEF Held, Rims, Within, Mild, Deep, Inner, Gainers, Neutral
<1>4. PICK v \in Grammar[p] : \E m \in 0..Len(v) : WalkedTo(d, v, m)
  BY <1>0, <1>1, <1>3 DEF Walked
<1>5. PICK m \in 0..Len(v) : WalkedTo(d, v, m)
  BY <1>4
<1>. DEFINE c == Put(p, v) + Gained(SubSeq(v, 1, m))
<1>6. /\ v \in Seq(Symbols) /\ rest = SubSeq(v, m + 1, Len(v)) /\ Pending(open[d]) = c
      /\ Put(p, v) \in {0, 1} /\ Gained(SubSeq(v, 1, m)) \in Nat
  BY <1>0, <1>1, <1>3, <1>4, <1>5, PendingWalked
<1>7. c \in Nat
  BY <1>6
<1>8. Len(rest) = Len(v) - m /\ \A k \in 1..Len(rest) : rest[k] = v[m + k]
  BY <1>5 DEF WalkedTo
<1>9. n \in 1..(Len(v) - m) /\ v[m + n] = r
  BY <1>1, <1>8
<1>10. \A j \in (m + 1)..(m + n - 1) : v[j] \notin Rules
  <2>1. SUFFICES ASSUME NEW j \in (m + 1)..(m + n - 1) PROVE v[j] \notin Rules
    OBVIOUS
  <2>2. j - m \in 1..(n - 1) /\ j - m \in 1..Len(rest) /\ m + (j - m) = j
    BY <1>1, <1>5, <1>6, <2>1
  <2>. QED
    BY <1>2, <1>8, <2>2
<1>11. e = h[d] + c /\ h[d] \in Int
  BY <1>0, <1>1, <1>6 DEF Tall
<1>12. h[d] >= Floor(p) /\ (Pinned(d) => PinAt(h, d))
  BY <1>0, <1>1 DEF Pins
<1>. HIDE DEF c, rest, p, e
<1>13. Need(p) + c >= Need(r) /\ Floor(p) + c >= Floor(r)
  BY <1>1, <1>3, <1>4, <1>5, <1>6, <1>7, <1>9, <1>10, ChildFits DEF c
<1>14. e \in Nat /\ e >= Floor(r) /\ h[d] - Need(p) <= e - Need(r)
  <2>1. Need(p) \in Int /\ Need(r) \in Int /\ Floor(p) \in Int /\ Floor(r) \in Int /\ Floor(r) >= 0
    BY NeedType
  <2>2. \A x, a, b, k, l \in Int : x >= k /\ a + c >= b /\ k + c >= l /\ l >= 0
           => x + c \in Nat /\ x + c >= l /\ x - a <= x + c - b
    BY <1>7
  <2>3. h[d] + c \in Nat /\ h[d] + c >= Floor(r) /\ h[d] - Need(p) <= h[d] + c - Need(r)
    BY <1>11, <1>12, <1>13, <2>1, <2>2
  <2>. QED
    BY <1>7, <1>11, <2>1, <2>3
<1>15. ASSUME r \in Heirs PROVE Finds(listener, e, Kinds(r, w))
  <2>1. p \in (Heirs \cup Makers \cup Pushed) \ {"expr_single_arg_func"} /\ c = Off(p)
        /\ Kinds(p, rest) \subseteq Kinds(r, w)
    <3>1. v[m + n] \in Heirs
      BY <1>9, <1>15
    <3>2. /\ p \in (Heirs \cup Makers \cup Pushed) \ {"expr_single_arg_func"} /\ c = Off(p)
          /\ Kinds(p, SubSeq(v, m + 1, Len(v))) \subseteq Kinds(v[m + n], w)
      BY <1>3, <1>4, <1>5, <1>6, <1>7, <1>9, <1>10, <3>1, HeirFits DEF c
    <3>. QED
      BY <1>6, <1>9, <3>2
  <2>2. Pinned(d)
    BY <1>0, <2>1 DEF Pinned, p
  <2>3. Finds(listener, h[d] + Off(p), Kinds(p, rest))
    BY <1>12, <2>2 DEF PinAt, p, rest
  <2>. QED
    BY <1>11, <2>1, <2>3 DEF Finds
<1>16. ASSUME r = "squiggly_args" PROVE Finds(listener, e, {"binexpr"})
  <2>1. p = "expr_matching"
    <3>1. v \in Seq(Alphabet[p])
      BY <1>3, <1>4, InAlphabet
    <3>2. r \in Alphabet[p]
      BY <1>5, <1>9, <3>1
    <3>. QED
      BY <1>3, <1>16, <3>2, HeirParents
  <2>2. m + n \in 1..Len(v) /\ v[m + n] = "squiggly_args"
    <3>1. Len(v) \in Nat
      BY <1>6
    <3>2. m + n \in 1..Len(v)
      BY <1>5, <1>9, <3>1
    <3>. QED
      BY <1>9, <1>16, <3>2
  <2>3. m + n = 1
    BY <1>4, <2>1, <2>2, SquigglyFirst
  <2>4. m = 0
    BY <1>5, <1>9, <2>3
  <2>5. c = 0
    <3>1. SubSeq(v, 1, 0) = <<>>
      BY <1>6
    <3>2. Gained(<<>>) = 0
      <4>1. <<>> \in Seq({})
        OBVIOUS
      <4>. QED
        BY <4>1, GainedNone
    <3>3. Put(p, v) = 0
      BY <2>1 DEF Put
    <3>4. Gained(SubSeq(v, 1, m)) = 0
      BY <2>4, <3>1, <3>2
    <3>. QED
      BY <3>3, <3>4 DEF c
  <2>6. Pinned(d) /\ Off(p) = 0 /\ Kinds(p, rest) = {"binexpr"}
    BY <1>0, <2>1 DEF Pinned, p, Makers, Off, Pushed, Kinds
  <2>7. Finds(listener, h[d] + Off(p), Kinds(p, rest))
    BY <1>12, <2>6 DEF PinAt, p, rest
  <2>. QED
    BY <1>11, <2>5, <2>6, <2>7
<1>17. ASSUME Pinned(d), p = "if_multiple_lines" => r # "ifvar",
              p = "expr_single_arg_func" => r # "e_single_arg_func"
       PROVE  h[d] + Off(p) + Need(r) <= e
  <2>1. p \in Heirs \cup Makers \cup Pushed
    BY <1>17 DEF Pinned, p
  <2>2. Off(p) + Need(r) <= c
    BY <1>1, <1>3, <1>4, <1>5, <1>6, <1>7, <1>9, <1>10, <1>17, <2>1, PinFits DEF c
  <2>3. Off(p) + Need(r) \in Int /\ Off(p) \in Int /\ Need(r) \in Int
    BY NeedType
  <2>. QED
    BY <1>7, <1>11, <2>2, <2>3
<1>. QED
  BY <1>0, <1>14, <1>15, <1>16, <1>17 DEF p, e

\* A function of one argument starts with its name.
LEMMA NamedWords ==
  ASSUME NEW w \in Grammar["expr_single_arg_func"], w \in Seq(Symbols)
  PROVE  Has(w, "e_single_arg_func")
<1>1. w # <<>>
  <2>1. ASSUME w = <<>> PROVE FALSE
    <3>1. <<>> \in Seq({})
      OBVIOUS
    <3>2. Gained(w) = 0
      BY <2>1, <3>1, GainedNone
    <3>3. Gained(w) = Took("expr_single_arg_func", Frame("expr_single_arg_func", w).word)
      <4>1. "expr_single_arg_func" \in Rules \cap Held
        BY BodyDeep DEF Held, Within, Body, Inner, Neutral
      <4>. QED
        BY <4>1, GainedIsTaken
    <3>4. Took("expr_single_arg_func", Frame("expr_single_arg_func", w).word) = 2
      BY DEF Took, Chains, Ones
    <3>. QED
      BY <3>2, <3>3, <3>4
  <2>. QED
    BY <2>1
<1>2. 1 \in 1..Len(w)
  BY <1>1
<1>3. w[1] = "e_single_arg_func"
  BY <1>2, FirstOnly
<1>. QED
  BY <1>2, <1>3 DEF Has

\* What a rule has pushed or made, at the height where it was entered.
LEMMA PushedPut ==
  ASSUME NEW r \in (Heirs \cup Makers \cup Pushed) \ {"expr_single_arg_func"}, NEW w
  PROVE  r \in Pushed => Off(r) = 1 /\ Put(r, w) = 1
  BY DEF Pushed, Off, Put

\* Only rules of expressions stand around a rule of an expression, except around expr.
LEMMA ParentsOfInner ==
  ASSUME NEW p \in Rules \cup {"file"}, NEW a \in Inner \ {"expr"}, MayHave(p, a)
  PROVE  p \in Inner \cup Rims
<1>1. a \in Body /\ a # "expr_block"
  BY DEF Body, Inner, Gainers, Neutral
<1>2. p \in Body
  BY <1>1, BodyParents
<1>3. \A q \in Outer \ Rims : Alphabet[q] \cap Inner \subseteq {"expr"}
  BY SMTT(60) DEF Alphabet, Outer, Assigns, Rims, Inner, Gainers, Neutral
<1>4. p \in Rules /\ a \in Alphabet[p]
  BY <1>2, BodyDeep, KidsIn
<1>. QED
  BY <1>2, <1>3, <1>4 DEF Body

\* A rule that is not the next is in what is left of a word as long as it was before.
LEMMA RestHas ==
  ASSUME NEW n, NEW r, NEW w, Enters(n, r, w), NEW a \in Rules, a # r,
         TypeOK, RestsFit
  PROVE  Has(open[Len(open)].rest, a) <=> Has(open'[Len(open)].rest, a)
<1>. DEFINE d == Len(open)
            rest == open[d].rest
            tail == SubSeq(rest, n + 1, Len(rest))
<1>1. /\ n \in 1..Len(rest) /\ r = rest[n] /\ rest \in Seq(Symbols) /\ open'[d].rest = tail
  BY EnteredFrames
<1>2. \A j \in 1..(n - 1) : rest[j] \notin Rules
  BY DEF Enters, NextIs, Top
<1>. HIDE DEF rest
<1>3. Len(tail) = Len(rest) - n /\ \A k \in 1..Len(tail) : tail[k] = rest[n + k]
  BY <1>1
<1>4. ASSUME Has(rest, a) PROVE Has(tail, a)
  <2>1. PICK k \in 1..Len(rest) : rest[k] = a
    BY <1>4 DEF Has
  <2>2. k > n
    BY <1>1, <1>2, <2>1
  <2>3. k - n \in 1..Len(tail) /\ n + (k - n) = k
    BY <1>1, <1>3, <2>1, <2>2
  <2>. QED
    BY <1>3, <2>1, <2>3 DEF Has
<1>5. ASSUME Has(tail, a) PROVE Has(rest, a)
  <2>1. PICK k \in 1..Len(tail) : tail[k] = a
    BY <1>5 DEF Has
  <2>2. n + k \in 1..Len(rest)
    BY <1>1, <1>3, <2>1
  <2>. QED
    BY <1>3, <2>1, <2>2 DEF Has
<1>. QED
  BY <1>1, <1>4, <1>5 DEF rest

\* The expressions that are pinned stay when a rule is entered, and the new rule pins its own.
LEMMA PinsEntered ==
  ASSUME TypeOK, RestsFit, Walked, HeldInside, InnerInside, Live(listener), Live(listener'),
         NEW n, NEW r, NEW w, Enters(n, r, w),
         NEW h \in [Nat -> Int], Tall(h), Pins(h),
         NEW g \in [Nat -> Int], g = [h EXCEPT ![Len(open) + 1] = Len(listener.exprs)],
         r \in Rims \ {"expr"} => Finds(listener, Len(listener.exprs), {"transform"}),
         r = "expr_rank_func" => listener.typemap # 0
  PROVE  Pins(g)'
<1>0. PICK d \in Nat : d = Len(open)
  BY FramesTyped
<1>. DEFINE s == listener
            t == listener'
            e == Len(listener.exprs)
<1>1. /\ d \in Nat \ {0} /\ d \in 1..d /\ Len(open') = d + 1
      /\ r \in Rules /\ w \in Grammar[r] /\ w \in Seq(Symbols)
      /\ \A i \in 1..d : open'[i].rule = open[i].rule
      /\ \A i \in 1..(d - 1) : open'[i].rest = open[i].rest
      /\ open'[d + 1].rule = r /\ open'[d + 1].rest = w
  BY <1>0, EnteredFrames
<1>18. /\ n \in 1..Len(open[d].rest) /\ r = open[d].rest[n] /\ open[d].rest \in Seq(Symbols)
      /\ open'[d].rest = SubSeq(open[d].rest, n + 1, Len(open[d].rest))
      /\ open[d].rule \in Rules \cup {"file"} /\ MayHave(open[d].rule, r)
  BY <1>0, EnteredFrames
<1>2. s \in Listener /\ s.exprs \in Seq(AnyExpr) /\ e \in Nat
  <2>1. s \in Listener
    BY FramesTyped
  <2>2. s.exprs \in Seq(AnyExpr)
    BY <2>1, ListenerTypes
  <2>. QED
    BY <2>1, <2>2
<1>3. g[d + 1] = e /\ \A i \in 1..d : g[i] = h[i] /\ h[i] \in Int
  BY <1>0, <1>1
<1>4. /\ \A i \in 1..d : Inside(i)' <=> Inside(i)
      /\ \A i \in 1..d : Inside(i) => Inside(d)
      /\ Inside(d + 1)' <=> (Inside(d) \/ r \in Rims)
  <2>1. \A i \in 1..d : 1..i \subseteq 1..d
    BY <1>1
  <2>2. \A i \in 1..d : Inside(i)' <=> Inside(i)
    BY <1>1, <2>1 DEF Inside
  <2>3. \A i \in 1..d : Inside(i) => Inside(d)
    BY <1>1, <2>1 DEF Inside
  <2>4. 1..(d + 1) = 1..d \cup {d + 1}
    BY <1>1
  <2>5. Inside(d + 1)' <=> (Inside(d) \/ r \in Rims)
    BY <1>1, <2>4 DEF Inside
  <2>. QED
    BY <2>2, <2>3, <2>5
<1>5. t \in Entered(s, r, w)
  BY DEF Enters
<1>. HIDE DEF e
<1>6. r \in Inner /\ r # "expr" => Inside(d)
  <2>1. SUFFICES ASSUME r \in Inner, r # "expr" PROVE Inside(d)
    OBVIOUS
  <2>2. open[d].rule \in Inner \cup Rims
    BY <1>18, <2>1, ParentsOfInner
  <2>3. open[d].rule \in Rims => Inside(d)
    BY <1>1 DEF Inside
  <2>. QED
    BY <1>0, <1>1, <2>2, <2>3 DEF InnerInside
<1>7. Inside(d) => /\ e >= Floor(r) /\ h[d] - Need(open[d].rule) <= e - Need(r)
                   /\ r \in Heirs => Finds(s, e, Kinds(r, w))
                   /\ r = "squiggly_args" => Finds(s, e, {"binexpr"})
                   /\ (Pinned(d) /\ (open[d].rule = "if_multiple_lines" => r # "ifvar")
                           /\ (open[d].rule = "expr_single_arg_func" => r # "e_single_arg_func"))
                        => h[d] + Off(open[d].rule) + Need(r) <= e
  BY <1>0, EnterFits DEF e
<1>8. r \in Rims => Floor(r) = 0 /\ Need(r) = 0 /\ r \notin Heirs /\ r # "squiggly_args" /\ r \notin Pushed
  BY DEF Rims, Floor, Footed, Needing, Heirs, Need, Pushed
<1>9. r \in Inner \cup Rims
        => /\ e >= Floor(r)
           /\ r \in Heirs => Finds(s, e, Kinds(r, w))
           /\ r = "squiggly_args" => Finds(s, e, {"binexpr"})
  <2>1. CASE r \in Rims
    BY <1>2, <1>8, <2>1
  <2>2. CASE r \notin Rims
    BY <1>6, <1>7, <2>2 DEF Rims
  <2>. QED
    BY <2>1, <2>2
<1>10. Inside(d + 1)' => e >= Floor(r)
  BY <1>4, <1>7, <1>9
<1>11. r \in Inner \cup Rims
        => /\ Upto(s, t, e - Need(r))
           /\ r \in (Heirs \cup Makers \cup Pushed) \ {"expr_single_arg_func"}
                => t.exprs[e + Off(r)] \in Kinds(r, w)
  <2>1. SUFFICES ASSUME r \in Inner \cup Rims
                 PROVE  /\ Upto(s, t, e - Need(r))
                        /\ r \in (Heirs \cup Makers \cup Pushed) \ {"expr_single_arg_func"}
                             => t.exprs[e + Off(r)] \in Kinds(r, w)
    OBVIOUS
  <2>2. t = Enter(s, r, w)
    BY <1>5, <2>1 DEF Entered, Inner, Gainers, Neutral, Rims
  <2>. QED
    BY <1>2, <1>9, <2>1, <2>2, EnterKeeps DEF e
<1>12. Inside(d + 1)' => /\ Upto(s, t, e - Need(r)) /\ Len(t.exprs) = e + Put(r, w)
                        /\ Put(r, w) \in {0, 1}
  <2>1. SUFFICES ASSUME Inside(d + 1)'
                 PROVE  Upto(s, t, e - Need(r)) /\ Len(t.exprs) = e + Put(r, w)
    BY DEF Put
  <2>2. Held \cap {"transform", "template_statement"} = {}
    BY DEF Held, Rims, Within, Mild, Inner, Gainers, Neutral, Body, Outer
  <2>3. r \in Held
    <3>1. CASE Inside(d)
      <4>1. open[d].rule \in (Rules \cup {"file"}) \cap Held
        BY <1>0, <1>1, <1>18, <3>1 DEF HeldInside
      <4>. QED
        BY <1>1, <1>18, <4>1, WithinBelow DEF Held
    <3>2. CASE ~Inside(d)
      BY <1>4, <2>1, <3>2 DEF Held
    <3>. QED
      BY <3>1, <3>2
  <2>4. Shifts(s, t, Put(r, w))
    BY <1>1, <1>2, <1>5, <2>2, <2>3, EnterShifts
  <2>5. Len(t.exprs) = e + Put(r, w)
    BY <2>4 DEF Shifts, e
  <2>6. ASSUME r \notin Inner \cup Rims PROVE Upto(s, t, e - Need(r))
    <3>1. r \notin Pushers \cup {"transform", "template_statement"}
      BY <2>2, <2>3, <2>6 DEF Pushers, Inner, Gainers, Neutral
    <3>2. t.exprs = s.exprs
      BY <1>1, <1>2, <1>5, <3>1, StillEnters
    <3>. QED
      BY <3>2 DEF Upto
  <2>. QED
    BY <1>11, <2>5, <2>6
<1>. HIDE DEF s, t
<1>13. ASSUME NEW k, NEW kinds, Finds(s, k, kinds), k + Need(r) <= e, Inside(d + 1)'
       PROVE  Finds(t, k, kinds)
  <2>1. k \in Nat /\ k >= 1 /\ Need(r) \in {0, 1}
    BY <1>2, <1>13, NeedType DEF Finds, e
  <2>2. k \in 1..(e - Need(r)) /\ k \in 1..Len(t.exprs)
    BY <1>2, <1>12, <1>13, <2>1
  <2>. QED
    BY <1>12, <1>13, <2>2 DEF Finds, Upto
<1>14. SUFFICES ASSUME NEW i \in 1..(d + 1), Inside(i)'
                PROVE  g[i] >= Floor(open'[i].rule) /\ (Pinned(i)' => PinAt(g, i)')
  BY <1>1 DEF Pins
<1>15. Inside(d + 1)'
  <2>1. CASE i = d + 1
    BY <1>14, <2>1
  <2>2. CASE i \in 1..d
    BY <1>4, <1>14, <2>2
  <2>. QED
    BY <1>1, <1>14, <2>1, <2>2
<1>16. CASE i \in 1..d
  <2>1. Inside(i) /\ Inside(d) /\ g[i] = h[i] /\ open'[i].rule = open[i].rule /\ i \in 1..d /\ h[i] \in Int
    BY <1>1, <1>3, <1>4, <1>14, <1>16
  <2>2. h[i] >= Floor(open[i].rule) /\ (Pinned(i) => PinAt(h, i))
    BY <1>0, <2>1 DEF Pins
  <2>3. SUFFICES ASSUME Pinned(i)' PROVE PinAt(g, i)'
    BY <2>1, <2>2
  <2>. DEFINE k == h[i] + Off(open[i].rule)
  <2>4. k \in Int
    BY <2>1, NeedType
  <2>5. Pinned(i) /\ Kinds(open[i].rule, open'[i].rest) = Kinds(open[i].rule, open[i].rest)
        /\ k + Need(r) <= e
    <3>1. CASE i < d
      <4>1. i + 1 \in 1..d /\ i \in 1..(d - 1) /\ i < d + 1
        BY <1>1, <2>1, <3>1
      <4>2. Pinned(i) /\ open'[i].rest = open[i].rest
        BY <1>0, <1>1, <2>1, <2>3, <3>1, <4>1 DEF Pinned
      <4>3. h[i] + Off(open[i].rule) + Need(open[d].rule) <= h[d]
        BY <1>0, <1>1, <2>2, <3>1, <4>1, <4>2 DEF PinAt
      <4>4. k + Need(open[d].rule) <= h[d] /\ h[d] - Need(open[d].rule) <= e - Need(r)
        BY <1>7, <2>1, <4>3
      <4>5. h[d] \in Int /\ Need(open[d].rule) \in Int /\ Need(r) \in Int
        BY <1>3, <1>1, NeedType
      <4>. HIDE DEF k
      <4>6. k + Need(r) <= e
        BY <1>2, <2>4, <4>4, <4>5
      <4>. QED
        BY <4>2, <4>6
    <3>2. CASE i = d
      <4>1. /\ open[d].rule \in Heirs \cup Makers \cup Pushed
            /\ open[d].rule = "expr_single_arg_func"
                 => ~Has(open'[d].rest, "e_single_arg_func") /\ r # "e_single_arg_func"
            /\ open[d].rule = "if_multiple_lines" => r # "ifvar"
        BY <1>0, <1>1, <2>3, <3>2 DEF Pinned
      <4>2. \A a \in Rules : a # r => (Has(open[d].rest, a) <=> Has(open'[d].rest, a))
        BY <1>0, <1>1, RestHas
      <4>3. {"e_single_arg_func", "ifvar"} \subseteq Rules
        BY DEF Rules, Grammar
      <4>4. Pinned(d)
        BY <1>0, <4>1, <4>2, <4>3 DEF Pinned
      <4>5. Kinds(open[d].rule, open'[d].rest) = Kinds(open[d].rule, open[d].rest)
        <5>1. CASE open[d].rule = "if_multiple_lines"
          BY <4>1, <4>2, <4>3, <5>1 DEF Kinds
        <5>2. CASE open[d].rule # "if_multiple_lines"
          BY <5>2 DEF Kinds
        <5>. QED
          BY <5>1, <5>2
      <4>6. h[d] + Off(open[d].rule) + Need(r) <= e
        BY <1>7, <2>1, <4>1, <4>4
      <4>. QED
        BY <3>2, <4>4, <4>5, <4>6
    <3>. QED
      BY <1>16, <3>1, <3>2
  <2>6. Finds(s, k, Kinds(open[i].rule, open[i].rest))
    BY <2>2, <2>5 DEF PinAt, s
  <2>7. Finds(t, k, Kinds(open'[i].rule, open'[i].rest))
    BY <1>13, <1>15, <2>1, <2>5, <2>6
  <2>8. ASSUME NEW j \in (i + 1)..(d + 1)
        PROVE  g[i] + Off(open'[i].rule) + Need(open'[j].rule) <= g[j]
    <3>1. CASE j = d + 1
      BY <1>1, <1>3, <2>1, <2>5, <3>1
    <3>2. CASE j # d + 1
      <4>1. j \in 1..d /\ j \in (i + 1)..d
        BY <1>1, <2>1, <2>8, <3>2
      <4>2. h[i] + Off(open[i].rule) + Need(open[j].rule) <= h[j]
        BY <1>0, <2>2, <2>5, <4>1 DEF PinAt
      <4>. QED
        BY <1>1, <1>3, <2>1, <4>1, <4>2
    <3>. QED
      BY <3>1, <3>2
  <2>. QED
    BY <1>1, <2>1, <2>7, <2>8 DEF PinAt, t
<1>17. CASE i = d + 1
  <2>1. g[i] >= Floor(open'[i].rule)
    BY <1>1, <1>3, <1>10, <1>15, <1>17
  <2>2. SUFFICES ASSUME Pinned(i)' PROVE PinAt(g, i)'
    BY <2>1
  <2>3. r \in Heirs \cup Makers \cup Pushed /\ (r = "expr_single_arg_func" => ~Has(w, "e_single_arg_func"))
    BY <1>1, <1>17, <2>2 DEF Pinned
  <2>4. r # "expr_single_arg_func"
    BY <1>1, <2>3, NamedWords
  <2>5. r \in Inner \cup Rims
    BY <2>3 DEF Heirs, Makers, Pushed, Inner, Gainers, Neutral, Rims
  <2>6. t.exprs[e + Off(r)] \in Kinds(r, w)
    BY <1>11, <2>3, <2>4, <2>5
  <2>7. e + Off(r) \in 1..Len(t.exprs)
    <3>1. CASE r \in Pushed
      <4>1. Off(r) = 1 /\ Put(r, w) = 1
        BY <2>3, <2>4, <3>1, PushedPut
      <4>. QED
        BY <1>2, <1>12, <1>15, <4>1
    <3>2. CASE r \notin Pushed
      <4>1. Off(r) = 0
        BY <3>2 DEF Off
      <4>2. e >= 1
        <5>1. CASE r \in Heirs
          BY <1>2, <1>9, <2>5, <5>1 DEF Finds
        <5>2. CASE r \in Rims \ {"expr"}
          BY <1>2, <5>2 DEF Finds, s, e
        <5>3. CASE r \in Makers \ Rims
          <6>1. Floor(r) = 1
            BY <5>3 DEF Makers, Rims, Floor, Footed, Needing
          <6>. QED
            BY <1>10, <1>15, <6>1
        <5>. QED
          BY <2>3, <3>2, <5>1, <5>2, <5>3 DEF Makers
      <4>. QED
        BY <1>2, <1>12, <1>15, <4>1, <4>2
    <3>. QED
      BY <3>1, <3>2
  <2>8. Finds(t, g[i] + Off(r), Kinds(r, w))
    BY <1>3, <1>17, <2>6, <2>7 DEF Finds
  <2>9. (i + 1)..Len(open') = {}
    BY <1>1, <1>17
  <2>. QED
    BY <1>1, <1>17, <2>8, <2>9 DEF PinAt, t
<1>. QED
  BY <1>1, <1>16, <1>17

\* A function that is called stands on top of the stack when its statement is done.
Called ==
  Len(open) > 0 /\ open[Len(open)].rule = "expr_inject_stmt"
    /\ (\A k \in 1..Len(open[Len(open)].rest) : open[Len(open)].rest[k] \notin Rules)
  => TopIs(listener, {"call"})

\* What the callback of a rule that is exited leaves as it was.
LEMMA ExitFits ==
  ASSUME TypeOK, HeldInside, Called, Live(listener), Leaving,
         NEW h \in [Nat -> Int], Tall(h), Pins(h), Inside(Len(open)),
         open[Len(open)].rule \in Inner \cup Rims,
         open[Len(open)].rule = "expr_rank_func" => OnField(listener)
  PROVE  LET d == Len(open)
             r == open[d].rule
             t == Exit(listener, r, open[d].word)
         IN  /\ Upto(listener, t, h[d] - Need(r)) /\ h[d] >= Floor(r) /\ h[d] \in Nat
             /\ r = "e_single_arg_func" => t.exprs[h[d] + 1] = "binexpr"
             /\ r = "ifvar" => t.exprs[h[d]] = "ifelse"
             /\ Len(listener.exprs) = h[d] + (Put(r, open[d].word) + Took(r, open[d].word))
<1>0. PICK d \in Nat : d = Len(open)
  BY FramesTyped
<1>. DEFINE f == open[d]
            r == f.rule
            s == listener
<1>1. d > 0 /\ d \in 1..d /\ \A k \in 1..Len(f.rest) : f.rest[k] \notin Rules
  BY <1>0 DEF Leaving, Top
<1>2. f.rest \in Seq(Symbols) /\ f.word \in Seq(Symbols) /\ s \in Listener
  BY <1>0, <1>1, FramesTyped
<1>3. Len(f.rest) \in Nat /\ Len(f.word) \in Nat
  BY <1>2
<1>4. Gained(f.rest) = 0
  BY <1>1, <1>2, GainedLast DEF NextIs
<1>5. h[d] \in Int /\ Len(s.exprs) = h[d] + Pending(f)
  BY <1>0, <1>1 DEF Tall
<1>6. Len(s.exprs) = h[d] + (Put(r, f.word) + Took(r, f.word))
  <2>1. Put(r, f.word) \in Nat /\ Took(r, f.word) \in Nat
    BY <1>3, PendingType
  <2>2. Pending(f) = Put(r, f.word) + Took(r, f.word)
    BY <1>4, <2>1 DEF Pending
  <2>. QED
    BY <1>5, <2>2
<1>7. h[d] >= Floor(r) /\ (Pinned(d) => PinAt(h, d))
  BY <1>0, <1>1 DEF Pins
<1>8. h[d] \in Nat
  <2>1. Floor(r) \in Int /\ Floor(r) >= 0
    BY NeedType
  <2>. QED
    BY <1>5, <1>7, <2>1
<1>9. r \in Heirs \cup Makers => Finds(s, h[d], Kinds(r, f.rest))
  <2>1. SUFFICES ASSUME r \in Heirs \cup Makers PROVE Finds(s, h[d], Kinds(r, f.rest))
    OBVIOUS
  <2>2. Pinned(d) /\ Off(r) = 0
    BY <1>0, <2>1 DEF Pinned, Off, Pushed, Heirs, Makers
  <2>3. h[d] + Off(r) = h[d]
    BY <1>5, <2>2
  <2>. QED
    BY <1>7, <2>2, <2>3 DEF PinAt
<1>10. r = "expr_single_arg_func" => Finds(s, h[d] + 1, {"binexpr"})
  <2>1. SUFFICES ASSUME r = "expr_single_arg_func" PROVE Finds(s, h[d] + 1, {"binexpr"})
    OBVIOUS
  <2>2. ~Has(f.rest, "e_single_arg_func")
    <3>1. "e_single_arg_func" \in Rules
      BY DEF Rules, Grammar
    <3>. QED
      BY <1>1, <3>1 DEF Has
  <2>3. Pinned(d) /\ Off(r) = 1 /\ Kinds(r, f.rest) = {"binexpr"}
    BY <1>0, <2>1, <2>2 DEF Pinned, Off, Pushed, Kinds
  <2>. QED
    BY <1>7, <2>3 DEF PinAt
<1>11. r = "expr_inject_stmt" => TopIs(s, {"call"})
  BY <1>0, <1>1 DEF Called, Leaving
<1>. HIDE DEF s
<1>12. LET t == Exit(s, r, f.word)
       IN  /\ Upto(s, t, h[d] - Need(r))
           /\ r = "e_single_arg_func" => t.exprs[h[d] + 1] = "binexpr"
           /\ r = "ifvar" => t.exprs[h[d]] = "ifelse"
  <2>1. r \in Inner \cup Rims /\ (r = "expr_rank_func" => OnField(s)) /\ Live(s)
    BY <1>0 DEF s
  <2>2. PICK q, u, v, b : q = r /\ u = f.word /\ v = f.rest /\ b = h[d]
    OBVIOUS
  <2>3. /\ v \in Seq(Symbols) /\ s \in Listener /\ Live(s) /\ Len(u) \in Nat /\ q \in Inner \cup Rims /\ b \in Nat /\ b >= Floor(q)
        /\ Len(s.exprs) = b + (Put(q, u) + Took(q, u))
        /\ q \in Heirs \cup Makers => Finds(s, b, Kinds(q, v))
        /\ q = "expr_single_arg_func" => Finds(s, b + 1, {"binexpr"})
        /\ q = "expr_rank_func" => OnField(s)
        /\ q = "expr_inject_stmt" => TopIs(s, {"call"})
    BY <1>2, <1>3, <1>6, <1>7, <1>8, <1>9, <1>10, <1>11, <2>1, <2>2
  <2>4. LET t == Exit(s, q, u)
        IN  /\ Upto(s, t, b - Need(q))
            /\ q = "e_single_arg_func" => t.exprs[b + 1] = "binexpr"
            /\ q = "ifvar" => t.exprs[b] = "ifelse"
    BY <2>3, ExitKeeps
  <2>. QED
    BY <2>2, <2>4
<1>. QED
  BY <1>0, <1>6, <1>7, <1>8, <1>12 DEF s

\* The rule that comes back to its operand, or to its condition, after its first child.
LEMMA SecondChild ==
  ASSUME TypeOK, Walked, NEW h \in [Nat -> Int], Tall(h), NEW i \in Nat, i + 1 = Len(open), Inside(i),
         \/ open[i].rule = "expr_single_arg_func" /\ open[i + 1].rule = "e_single_arg_func"
         \/ open[i].rule = "if_multiple_lines" /\ open[i + 1].rule = "ifvar", i # 0
  PROVE  /\ open[i].rule = "expr_single_arg_func" => h[i] = h[i + 1]
         /\ open[i].rule = "if_multiple_lines"
              => h[i] + 1 = h[i + 1] /\ ~Has(open[i].rest, "ifvar")
<1>. DEFINE p == open[i].rule
            c == open[i + 1].rule
<1>0. i \in 1..Len(open) /\ i < Len(open) /\ i \in 1..(Len(open) - 1) /\ h[i] \in Int /\ h[i + 1] \in Int
  BY FramesTyped
<1>1. p \in {"expr_single_arg_func", "if_multiple_lines"} /\ p \in Rules \cap Held
  BY BodyDeep DEF Held, Within, Body, Inner, Gainers, Neutral
<1>2. PICK w \in Grammar[p] : \E m \in 0..Len(w) : WalkedTo(i, w, m)
  BY <1>0, <1>1 DEF Walked
<1>3. PICK m \in 0..Len(w) : WalkedTo(i, w, m)
  BY <1>2
<1>4. /\ w \in Seq(Symbols) /\ open[i].rest = SubSeq(w, m + 1, Len(w))
      /\ Pending(open[i]) = Put(p, w) + Gained(SubSeq(w, 1, m))
  BY <1>0, <1>1, <1>2, <1>3, PendingWalked
<1>5. m > 0 /\ c = w[m] /\ m \in 1..Len(w)
  BY <1>0, <1>3 DEF WalkedTo
<1>6. c \in {"e_single_arg_func", "ifvar"}
  OBVIOUS
<1>13. (p = "expr_single_arg_func" => c = "e_single_arg_func") /\ (p = "if_multiple_lines" => c = "ifvar")
  OBVIOUS
<1>7. m = 1
  BY <1>1, <1>2, <1>5, <1>6, FirstOnly
<1>8. h[i + 1] = h[i] + Pending(open[i]) - Leaves(c)
  BY <1>0 DEF Tall
<1>. HIDE DEF c
<1>12. w[1] = c /\ 1 \in 1..Len(w)
  BY <1>5, <1>7
<1>. DEFINE u == SubSeq(w, 1, m)
<1>9. u \in Seq({c}) /\ Len(u) = 1
  BY <1>4, <1>7, <1>12
<1>. HIDE DEF u
<1>10. CASE p = "expr_single_arg_func"
  <2>1. c = "e_single_arg_func"
    BY <1>10, <1>13
  <2>2. Leaves(c) = 1 /\ Put(p, w) = 0
    BY <1>10, <2>1 DEF Leaves, Gainers, Put
  <2>3. Gained(u) = 1
    <3>1. u \in Seq(Gainers)
      BY <1>9, <2>1 DEF Gainers
    <3>. QED
      BY <1>9, <3>1, GainedAll
  <2>4. Pending(open[i]) = 1
    BY <1>4, <2>2, <2>3 DEF u
  <2>. QED
    BY <1>0, <1>8, <1>10, <2>2, <2>4
<1>11. CASE p = "if_multiple_lines"
  <2>1. c = "ifvar"
    BY <1>11, <1>13
  <2>2. Leaves(c) = 0 /\ Put(p, w) = 1
    BY <1>11, <2>1 DEF Leaves, Gainers, Put
  <2>3. Gained(u) = 0
    <3>1. {c} \cap Gainers = {}
      BY <2>1 DEF Gainers
    <3>. QED
      BY <1>9, <3>1, GainedNone
  <2>4. Pending(open[i]) = 1
    BY <1>4, <2>2, <2>3 DEF u
  <2>5. ASSUME Has(open[i].rest, "ifvar") PROVE FALSE
    <3>1. PICK k \in 1..Len(open[i].rest) : open[i].rest[k] = "ifvar"
      BY <2>5 DEF Has
    <3>2. w[m + k] = "ifvar" /\ m + k \in 1..Len(w)
      BY <1>3, <1>4, <3>1 DEF WalkedTo
    <3>3. m + k = 1
      BY <1>1, <1>2, <3>2, FirstOnly
    <3>. QED
      BY <1>7, <3>1, <3>3
  <2>. QED
    BY <1>0, <1>8, <1>11, <2>2, <2>4, <2>5
<1>. QED
  BY <1>1, <1>10, <1>11

\* The expressions that are pinned stay when a rule is exited, and what it leaves is pinned if it
\* was the first child of a rule that waits for that.
LEMMA PinsExited ==
  ASSUME TypeOK, Walked, HeldInside, Called, Live(listener), Live(listener'), Exits,
         NEW h \in [Nat -> Int], Tall(h), Tall(h)', Pins(h),
         open[Len(open)].rule = "expr_rank_func" => OnField(listener)
  PROVE  Pins(h)'
<1>0. PICK d \in Nat : d = Len(open)
  BY FramesTyped
<1>. DEFINE s == listener
            t == listener'
            f == open[d]
            r == f.rule
<1>1. /\ d \in Nat \ {0} /\ d \in 1..d /\ Len(open') = d - 1
      /\ \A i \in 1..(d - 1) : open'[i] = open[i]
      /\ \A k \in 1..Len(f.rest) : f.rest[k] \notin Rules
      /\ listener' = Exit(listener, r, f.word)
  BY <1>0, ExitedFrames
<1>2. Leaving /\ s \in Listener /\ Len(f.word) \in Nat /\ s.exprs \in Seq(AnyExpr) /\ Len(s.exprs) \in Nat
  <2>1. Leaving
    BY <1>0, <1>1 DEF Leaving
  <2>2. s \in Listener /\ f.word \in Seq(Symbols)
    BY <1>0, <1>1, FramesTyped
  <2>3. s.exprs \in Seq(AnyExpr)
    BY <2>2, ListenerTypes
  <2>. QED
    BY <2>1, <2>2, <2>3
<1>3. SUFFICES ASSUME NEW i \in 1..(d - 1), Inside(i)'
               PROVE  h[i] >= Floor(open'[i].rule) /\ (Pinned(i)' => PinAt(h, i)')
  BY <1>1 DEF Pins
<1>4. i \in 1..d /\ Inside(i) /\ Inside(d) /\ open'[i] = open[i] /\ r \in Held
  <2>1. i \in 1..d /\ 1..i \subseteq 1..d /\ 1..i \subseteq 1..(d - 1)
    BY <1>1
  <2>2. Inside(i)
    BY <1>1, <1>3, <2>1 DEF Inside
  <2>3. Inside(d)
    BY <1>1, <2>1, <2>2 DEF Inside
  <2>. QED
    BY <1>0, <1>1, <2>1, <2>2, <2>3 DEF HeldInside
<1>5. h[i] >= Floor(open[i].rule) /\ (Pinned(i) => PinAt(h, i)) /\ h[i] \in Int /\ h[d] \in Int
  BY <1>0, <1>4 DEF Pins
<1>6. SUFFICES ASSUME Pinned(i)' PROVE PinAt(h, i)'
  BY <1>4, <1>5
<1>7. Shifts(s, t, Adds(r, f.word))
  BY <1>1, <1>2, <1>4, WithinExits
<1>8. Len(t.exprs) = h[d] + Leaves(r) /\ Leaves(r) \in {0, 1}
  <2>1. Len(t.exprs) = Len(s.exprs) + Adds(r, f.word)
    BY <1>7 DEF Shifts
  <2>2. Len(s.exprs) = h[d] + Pending(f)
    BY <1>0, <1>1, <1>4 DEF Tall
  <2>3. Gained(f.rest) = 0
    BY <1>0, ExitedFrames
  <2>4. Put(r, f.word) \in Nat /\ Took(r, f.word) \in Nat /\ Leaves(r) \in Nat
    BY <1>2, PendingType
  <2>5. Pending(f) + Adds(r, f.word) = Leaves(r)
    BY <2>3, <2>4 DEF Pending, Adds
  <2>6. Pending(f) \in Int /\ Adds(r, f.word) \in Int
    BY <2>3, <2>4 DEF Pending, Adds
  <2>. QED
    BY <1>5, <2>1, <2>2, <2>5, <2>6 DEF Leaves
<1>9. r \in Inner \cup Rims
        => /\ Upto(s, t, h[d] - Need(r)) /\ h[d] >= Floor(r) /\ h[d] \in Nat
           /\ r = "e_single_arg_func" => t.exprs[h[d] + 1] = "binexpr"
           /\ r = "ifvar" => t.exprs[h[d]] = "ifelse"
  BY <1>0, <1>1, <1>2, <1>4, ExitFits
<1>10. r \notin Inner \cup Rims => t.exprs = s.exprs /\ Need(r) = 0
  <2>1. ASSUME r \notin Inner \cup Rims PROVE t.exprs = s.exprs /\ Need(r) = 0
    <3>1. r \in Mild
      BY <1>4, <2>1 DEF Held, Within
    <3>2. r \notin Body \cup {"view"}
      BY <3>1 DEF Mild, Deep, Shallow
    <3>3. t.exprs = s.exprs
      BY <1>1, <1>2, <3>2, StillExits
    <3>4. r \notin Needing
      BY <2>1 DEF Needing, Inner, Gainers, Neutral
    <3>. QED
      BY <3>3, <3>4 DEF Need
  <2>. QED
    BY <2>1
<1>. HIDE DEF s, t, r
<1>11. ASSUME NEW k, NEW kinds, Finds(s, k, kinds), k + Need(r) <= h[d]
       PROVE  Finds(t, k, kinds)
  <2>1. k \in Nat /\ k >= 1 /\ Need(r) \in {0, 1}
    BY <1>2, <1>11, NeedType DEF Finds, s
  <2>2. CASE r \in Inner \cup Rims
    <3>1. k \in 1..(h[d] - Need(r)) /\ k \in 1..Len(t.exprs)
      BY <1>5, <1>8, <1>11, <2>1
    <3>. QED
      BY <1>9, <1>11, <2>2, <3>1 DEF Finds, Upto
  <2>3. CASE r \notin Inner \cup Rims
    BY <1>10, <1>11, <2>3 DEF Finds
  <2>. QED
    BY <2>2, <2>3
<1>. DEFINE k == h[i] + Off(open[i].rule)
<1>12. Finds(t, k, Kinds(open[i].rule, open[i].rest)) /\ \A j \in (i + 1)..(d - 1) :
         k + Need(open[j].rule) <= h[j]
  <2>1. CASE Pinned(i)
    <3>1. Finds(s, k, Kinds(open[i].rule, open[i].rest))
          /\ \A j \in (i + 1)..d : k + Need(open[j].rule) <= h[j]
      BY <1>0, <1>5, <2>1 DEF PinAt, s
    <3>2. d \in (i + 1)..d /\ \A j \in (i + 1)..(d - 1) : j \in (i + 1)..d
      BY <1>1, <1>3
    <3>. HIDE DEF k
    <3>3. k + Need(r) <= h[d]
      BY <3>1, <3>2 DEF r
    <3>. QED
      BY <1>11, <3>1, <3>2, <3>3
  <2>2. CASE ~Pinned(i)
    <3>1. i = d - 1 /\ i + 1 = d /\ i < d
      <4>1. CASE i < d - 1
        <5>1. i + 1 \in 1..(d - 1) /\ i < d
          BY <1>1, <1>3, <4>1
        <5>2. Pinned(i)
          BY <1>0, <1>1, <1>4, <1>6, <4>1, <5>1 DEF Pinned
        <5>. QED
          BY <2>2, <5>2
      <4>. QED
        BY <1>1, <1>3, <4>1
    <3>2. \/ open[i].rule = "expr_single_arg_func" /\ open[i + 1].rule = "e_single_arg_func"
          \/ open[i].rule = "if_multiple_lines" /\ open[i + 1].rule = "ifvar"
      BY <1>0, <1>4, <1>6, <2>2, <3>1 DEF Pinned
    <3>3. /\ open[i].rule = "expr_single_arg_func" => h[i] = h[d]
          /\ open[i].rule = "if_multiple_lines" => h[i] + 1 = h[d] /\ ~Has(open[i].rest, "ifvar")
      <4>1. i \in Nat /\ i # 0 /\ i + 1 = Len(open)
        BY <1>0, <1>3, <3>1
      <4>. QED
        BY <1>4, <3>1, <3>2, <4>1, SecondChild
    <3>4. CASE open[i].rule = "expr_single_arg_func"
      <4>1. r = "e_single_arg_func" /\ Off(open[i].rule) = 1 /\ Kinds(open[i].rule, open[i].rest) = {"binexpr"}
        BY <3>1, <3>2, <3>4 DEF Off, Pushed, Kinds, r
      <4>2. Leaves(r) = 1 /\ r \in Inner
        BY <4>1 DEF Leaves, Gainers, Inner
      <4>3. k = h[d] + 1 /\ k \in 1..Len(t.exprs)
        BY <1>5, <1>8, <1>9, <3>3, <3>4, <4>1, <4>2
      <4>4. t.exprs[k] = "binexpr"
        BY <1>9, <4>1, <4>2, <4>3
      <4>5. (i + 1)..(d - 1) = {}
        BY <1>1, <3>1
      <4>. QED
        BY <4>1, <4>3, <4>4, <4>5 DEF Finds
    <3>5. CASE open[i].rule = "if_multiple_lines"
      <4>1. r = "ifvar" /\ Off(open[i].rule) = 1 /\ Kinds(open[i].rule, open[i].rest) = {"ifelse"}
        BY <3>1, <3>2, <3>3, <3>5 DEF Off, Pushed, Kinds, r
      <4>2. Floor(r) = 1 /\ r \in Inner
        BY <4>1 DEF Floor, Footed, Needing, Inner, Neutral
      <4>3. k = h[d] /\ k \in 1..Len(t.exprs)
        BY <1>5, <1>8, <1>9, <3>3, <3>5, <4>1, <4>2
      <4>4. t.exprs[k] = "ifelse"
        BY <1>9, <4>1, <4>2, <4>3
      <4>5. (i + 1)..(d - 1) = {}
        BY <1>1, <3>1
      <4>. QED
        BY <4>1, <4>3, <4>4, <4>5 DEF Finds
    <3>. QED
      BY <3>2, <3>4, <3>5
  <2>. QED
    BY <2>1, <2>2
<1>13. \A j \in (i + 1)..(d - 1) : open'[j] = open[j]
  BY <1>1, <1>3
<1>. QED
  BY <1>1, <1>4, <1>12, <1>13 DEF PinAt, t

\* Between the statements of a transform one is on top of the stack.
LEMMA ClearTop ==
  ASSUME TypeOK, Skeleton, Bodies, Live(listener), NEW i \in 1..Len(open), ClearAt(open[i]), BodyTop(i)
  PROVE  /\ AllTransforms(listener.exprs)
         /\ open[i].rule # "expr_block" => Finds(listener, Len(listener.exprs), {"transform"})
<1>0. PICK d \in Nat : d = Len(open)
  BY FramesTyped
<1>1. open[i].rule \in Body
  BY DEF ClearAt, Clear, Single, Body, Outer
<1>2. i >= 6 /\ open[6].rule = "expr_block"
  BY <1>1 DEF Skeleton, Levels
<1>3. InBlock
  BY <1>0, <1>2 DEF InBlock
<1>4. Clean
  BY <1>3 DEF Bodies
<1>5. AllTransforms(listener.exprs) /\ (open[i].rule # "expr_block" => listener.exprs # <<>>)
  BY <1>4 DEF Clean
<1>6. listener.exprs \in Seq(AnyExpr)
  BY FramesTyped, ListenerTypes
<1>7. listener.exprs # <<>> => Finds(listener, Len(listener.exprs), {"transform"})
  BY <1>5, <1>6 DEF AllTransforms, Stacked, Finds
<1>. QED
  BY <1>5, <1>7

\* The rules around expressions are entered between two statements.
LEMMA RimOnTop ==
  ASSUME TypeOK, RestsFit, Skeleton, Bodies, Live(listener), NEW n, NEW r, NEW w, Enters(n, r, w),
         r \in {"transform_arg", "expr_inject_stmt", "expr_dot_assign", "transform_scope_var",
                "transform_return_type", "expr_stmt", "template_statement"}
  PROVE  Finds(listener, Len(listener.exprs), {"transform"})
<1>0. PICK d \in Nat : d = Len(open)
  BY FramesTyped
<1>1. /\ d \in 1..d /\ open[d].rule \in Rules \cup {"file"} /\ MayHave(open[d].rule, r)
      /\ n \in 1..Len(open[d].rest) /\ r = open[d].rest[n]
  BY <1>0, EnteredFrames
<1>2. open[d].rule \in {"transform", "expr_stmt", "expr_statement_no_nl"}
  <2>1. r # "sysl_file"
    OBVIOUS
  <2>2. open[d].rule \in Rules /\ r \in Alphabet[open[d].rule]
    BY <1>1, <2>1, KidsIn DEF MayHave
  <2>3. \A p \in Rules : \A a \in {"transform_arg", "expr_inject_stmt", "expr_dot_assign",
                 "transform_scope_var", "transform_return_type", "expr_stmt", "template_statement"} :
          a \in Alphabet[p] => p \in {"transform", "expr_stmt", "expr_statement_no_nl"}
    BY SMTT(60) DEF Alphabet, Rules, Grammar
  <2>. QED
    BY <2>2, <2>3
<1>3. ClearAt(open[d])
  BY <1>1, <1>2 DEF ClearAt, Clear, Single, Assigns
<1>4. BodyTop(d)
  BY <1>0 DEF BodyTop
<1>. QED
  BY <1>0, <1>1, <1>2, <1>3, <1>4, ClearTop

LEMMA InsideEntered ==
  ASSUME TypeOK, RestsFit, InnerInside, NEW n, NEW r, NEW w, Enters(n, r, w)
  PROVE  InnerInside' /\ Called'
<1>0. PICK d \in Nat : d = Len(open)
  BY FramesTyped
<1>1. /\ d \in Nat \ {0} /\ d \in 1..d /\ Len(open') = d + 1 /\ r \in Rules
      /\ \A i \in 1..d : open'[i].rule = open[i].rule
      /\ open'[d + 1].rule = r /\ open'[d + 1].rest = w /\ w \in Grammar[r]
  BY <1>0, EnteredFrames
<1>2. MayHave(open[d].rule, r) /\ open[d].rule \in Rules \cup {"file"}
  BY <1>0, EnteredFrames
<1>3. \A i \in 1..d : Inside(i) => Inside(i)'
  <2>1. \A i \in 1..d : 1..i \subseteq 1..d
    BY <1>1
  <2>. QED
    BY <1>1, <2>1 DEF Inside
<1>4. r \in Rims \/ Inside(d) => Inside(d + 1)'
  <2>1. 1..(d + 1) = 1..d \cup {d + 1}
    BY <1>1
  <2>. QED
    BY <1>1, <2>1 DEF Inside
<1>5. r \in Inner => r \in Rims \/ Inside(d)
  <2>1. SUFFICES ASSUME r \in Inner, r # "expr" PROVE Inside(d)
    BY DEF Rims
  <2>2. open[d].rule \in Inner \cup Rims
    BY <1>2, <2>1, ParentsOfInner
  <2>3. open[d].rule \in Rims => Inside(d)
    BY <1>1 DEF Inside
  <2>. QED
    BY <1>0, <1>1, <2>2, <2>3 DEF InnerInside
<1>6. InnerInside'
  <2>1. SUFFICES ASSUME NEW i \in 1..(d + 1), open'[i].rule \in Inner PROVE Inside(i)'
    BY <1>1 DEF InnerInside
  <2>2. CASE i \in 1..d
    <3>1. Inside(i)
      BY <1>0, <1>1, <2>1, <2>2 DEF InnerInside
    <3>. QED
      BY <1>3, <2>2, <3>1
  <2>3. CASE i = d + 1
    BY <1>1, <1>4, <1>5, <2>1, <2>3
  <2>. QED
    BY <1>1, <2>2, <2>3
<1>7. Called'
  <2>1. r = "expr_inject_stmt" => w = <<"expr_func">>
    BY <1>1 DEF Grammar, expr_inject_stmt
  <2>2. "expr_func" \in Rules
    BY DEF Rules, Grammar
  <2>. QED
    BY <1>1, <2>1, <2>2 DEF Called
<1>. QED
  BY <1>6, <1>7

LEMMA InsideExited ==
  ASSUME TypeOK, HeldInside, InnerInside, Called, Parented, Live(listener), Exits,
         NEW h \in [Nat -> Int], Tall(h), Pins(h)
  PROVE  InnerInside' /\ Called'
<1>0. PICK d \in Nat : d = Len(open)
  BY FramesTyped
<1>. DEFINE r == open[d].rule
            f == open[d - 1]
<1>1. /\ d \in Nat \ {0} /\ d \in 1..d /\ Len(open') = d - 1
      /\ \A i \in 1..(d - 1) : open'[i] = open[i]
      /\ listener' = Exit(listener, r, open[d].word)
      /\ \A k \in 1..Len(open[d].rest) : open[d].rest[k] \notin Rules
  BY <1>0, ExitedFrames
<1>2. InnerInside'
  <2>1. \A i \in 1..(d - 1) : i \in 1..d /\ 1..i \subseteq 1..(d - 1) /\ 1..i \subseteq 1..d
    BY <1>1
  <2>2. \A i \in 1..(d - 1) : Inside(i) => Inside(i)'
    BY <1>1, <2>1 DEF Inside
  <2>. QED
    BY <1>0, <1>1, <2>1, <2>2 DEF InnerInside
<1>3. ASSUME d > 1, f.rule = "expr_inject_stmt" PROVE TopIs(listener', {"call"})
  <2>1. d - 1 \in 1..(Len(open) - 1) /\ d - 1 + 1 = d
    BY <1>0, <1>1, <1>3
  <2>2. r = "expr_func"
    <3>1. MayHave("expr_inject_stmt", r) /\ "expr_inject_stmt" \in Rules
      BY <1>3, <2>1, BodyDeep DEF Parented, Body, Outer
    <3>2. Alphabet["expr_inject_stmt"] = {"expr_func"}
      BY DEF Alphabet
    <3>. QED
      BY <3>1, <3>2, KidsIn
  <2>3. Inside(d)
    BY <1>1, <1>3, <2>1 DEF Inside, Rims
  <2>4. Leaving
    BY <1>0, <1>1 DEF Leaving
  <2>5. r \in Inner \cup Rims /\ r # "expr_rank_func"
    BY <2>2 DEF Inner, Gainers
  <2>6. Len(listener.exprs) = h[d] + (Put(r, open[d].word) + Took(r, open[d].word)) /\ h[d] \in Nat
    BY <1>0, <2>3, <2>4, <2>5, ExitFits
  <2>7. Put(r, open[d].word) = 1 /\ Took(r, open[d].word) = 0
    BY <2>2 DEF Put, Took, Chains, Ones
  <2>8. Pinned(d) /\ Off(r) = 1 /\ Kinds(r, open[d].rest) = {"call"}
    BY <1>0, <2>2 DEF Pinned, Pushed, Off, Kinds
  <2>9. Finds(listener, h[d] + Off(r), Kinds(r, open[d].rest))
    BY <1>0, <1>1, <2>3, <2>8 DEF Pins, PinAt
  <2>10. listener' = listener
    BY <1>1, <2>2 DEF Exit
  <2>. HIDE DEF r
  <2>11. Len(listener.exprs) = h[d] + 1
    BY <2>6, <2>7
  <2>12. Finds(listener, Len(listener.exprs), {"call"})
    BY <2>8, <2>9, <2>11
  <2>. QED
    BY <2>10, <2>12 DEF Finds, TopIs, Top
<1>4. Called'
  <2>1. SUFFICES ASSUME d - 1 > 0, open'[d - 1].rule = "expr_inject_stmt" PROVE TopIs(listener', {"call"})
    BY <1>1 DEF Called
  <2>2. CASE d > 1
    <3>1. d - 1 \in 1..(d - 1)
      BY <1>1, <2>2
    <3>. QED
      BY <1>1, <1>3, <2>1, <2>2, <3>1
  <2>. QED
    BY <1>1, <2>1, <2>2
<1>. QED
  BY <1>2, <1>4

\* While the process runs, the expressions that the open rules wait for are where they were put.
Pinning ==
  Live(listener) =>
    InnerInside /\ Called /\ \E h \in [Nat -> Int] : Tall(h) /\ Pins(h)

LEMMA PinningInit == Init => Pinning
<1>1. SUFFICES ASSUME Init PROVE InnerInside /\ Called /\ \E h \in [Nat -> Int] : Tall(h) /\ Pins(h)
  BY DEF Pinning
<1>2. Len(open) = 1 /\ open[1].rule = "file"
  BY <1>1, Begun
<1>3. "file" \notin Inner \cup Rims
  BY DEF Inner, Gainers, Neutral, Rims
<1>4. ~Inside(1)
  BY <1>2, <1>3 DEF Inside
<1>5. PICK h \in [Nat -> Int] : Tall(h)
  BY <1>1, HeightsInit DEF Heights
<1>. QED
  BY <1>2, <1>3, <1>4, <1>5 DEF InnerInside, Called, Pins

LEMMA PinningEntered ==
  ASSUME TypeOK, RestsFit, Walked, HeldInside, Skeleton, Bodies, FieldsFound, FieldTrees', Pinning,
         Live(listener), NEW n, NEW r, NEW w, Enters(n, r, w)
  PROVE  Pinning'
<1>1. SUFFICES ASSUME Live(listener')
               PROVE  (InnerInside /\ Called /\ \E h \in [Nat -> Int] : Tall(h) /\ Pins(h))'
  BY DEF Pinning
<1>2. InnerInside /\ Called
  BY DEF Pinning
<1>3. PICK h \in [Nat -> Int] : Tall(h) /\ Pins(h)
  BY DEF Pinning
<1>4. PICK g \in [Nat -> Int] : g = [h EXCEPT ![Len(open) + 1] = Len(listener.exprs)]
  BY <1>3, Taller
<1>5. Tall(g)'
  BY <1>3, <1>4, TallEntered
<1>6. r \in Rims \ {"expr"} => Finds(listener, Len(listener.exprs), {"transform"})
  BY RimOnTop DEF Rims
<1>7. r = "expr_rank_func" => listener.typemap # 0
  <2>1. SUFFICES ASSUME r = "expr_rank_func" PROVE listener.typemap # 0
    OBVIOUS
  <2>2. Under(Viewed, {"view"})' /\ r \in Viewed
    BY <2>1 DEF FieldTrees, Viewed, Body, Inner, Neutral
  <2>3. \E i \in 1..Len(open) : open[i].rule \in {"view"}
    BY <2>2, AroundEntered
  <2>. QED
    BY <2>3 DEF FieldsFound
<1>8. Pins(g)'
  BY <1>1, <1>2, <1>3, <1>4, <1>6, <1>7, PinsEntered
<1>9. InnerInside' /\ Called'
  BY <1>2, InsideEntered
<1>. QED
  BY <1>5, <1>8, <1>9

LEMMA PinningExited ==
  ASSUME TypeOK, Walked, HeldInside, Parented, FieldsFound, Pinning, Live(listener), Exits
  PROVE  Pinning'
<1>1. SUFFICES ASSUME Live(listener')
               PROVE  (InnerInside /\ Called /\ \E h \in [Nat -> Int] : Tall(h) /\ Pins(h))'
  BY DEF Pinning
<1>2. InnerInside /\ Called
  BY DEF Pinning
<1>3. PICK h \in [Nat -> Int] : Tall(h) /\ Pins(h)
  BY DEF Pinning
<1>4. Tall(h)'
  BY <1>3, TallExited
<1>5. open[Len(open)].rule = "expr_rank_func" => OnField(listener)
  BY FramesTyped, ExitedFrames DEF FieldsFound, Fielded, Typed
<1>6. Pins(h)'
  BY <1>1, <1>2, <1>3, <1>4, <1>5, PinsExited
<1>7. InnerInside' /\ Called'
  BY <1>2, <1>3, InsideExited
<1>. QED
  BY <1>4, <1>6, <1>7

\* The expressions that the open rules wait for are always where they were put.
LEMMA PinningAlways == Spec => []Pinning
<1>1. ASSUME IInv, IInv', EInv, Walked, Parented, FieldsFound, FieldTrees', Pinning, [Next]_vars
      PROVE  Pinning'
  <2>1. TypeOK /\ RestsFit /\ HeldInside /\ Skeleton /\ Bodies
    BY <1>1 DEF IInv, Shape, EInv, Heights
  <2>2. CASE open' = open /\ (listener' = listener \/ ~Live(listener'))
    <3>1. CASE ~Live(listener')
      BY <3>1 DEF Pinning
    <3>2. CASE listener' = listener
      BY <1>1, <2>2, <3>2 DEF Pinning, InnerInside, Inside, Called, Tall, Pins, Pinned, PinAt
    <3>. QED
      BY <2>2, <3>1, <3>2
  <2>. QED
    BY <1>1, <2>1, <2>2, Steps, PinningEntered, PinningExited
<1>. QED
  BY PinningInit, Invariance, ExprsInvariance, WalkedAlways, ParentedAlways, FoundAlways, FieldTreesAlways, <1>1,
     PTL DEF Spec

-----------------------------------------------------------------------------
\* The panics

\* A rule that looks at the stack of expressions when it is entered finds there what it looks for.
LEMMA EnterExprsFine ==
  ASSUME TypeOK, RestsFit, Walked, HeldInside, Skeleton, Bodies, FieldsFound, FieldTrees', Pinning,
         Live(listener), NEW n, NEW r, NEW w, Enters(n, r, w), r \in LooksAtExprs
  PROVE  Live(listener')
<1>0. PICK d \in Nat : d = Len(open)
  BY FramesTyped
<1>1. /\ d \in 1..d /\ open[d].rule \in Rules \cup {"file"} /\ MayHave(open[d].rule, r)
      /\ listener' \in Entered(listener, r, w)
  BY <1>0, EnteredFrames
<1>2. listener' = Enter(listener, r, w)
  BY <1>1 DEF Entered, LooksAtExprs
<1>3. CASE r = "transform_scope_var"
  <2>1. Finds(listener, Len(listener.exprs), {"transform"})
    BY <1>3, RimOnTop
  <2>2. TopExpr(listener, {"transform"}, "EnterTransform_scope_var") = listener
    BY <2>1, UptoTop
  <2>. QED
    BY <1>2, <1>3, <2>2 DEF Enter, EnterTransform_scope_var
<1>4. CASE r # "transform_scope_var"
  <2>1. r \in Inner \ {"expr"}
    BY <1>4 DEF LooksAtExprs, Inner, Neutral
  <2>2. InnerInside
    BY DEF Pinning
  <2>3. Inside(d)
    <3>1. open[d].rule \in Inner \cup Rims
      BY <1>1, <2>1, ParentsOfInner
    <3>2. open[d].rule \in Rims => Inside(d)
      BY <1>1 DEF Inside
    <3>. QED
      BY <1>0, <1>1, <2>2, <3>1, <3>2 DEF InnerInside
  <2>4. PICK h \in [Nat -> Int] : Tall(h) /\ Pins(h)
    BY DEF Pinning
  <2>5. LET e == Len(listener.exprs)
        IN  /\ e \in Nat /\ e >= Floor(r)
            /\ r \in Heirs => Finds(listener, e, Kinds(r, w))
            /\ r = "squiggly_args" => Finds(listener, e, {"binexpr"})
    BY <1>0, <2>2, <2>3, <2>4, EnterFits
  <2>6. r = "expr_rank_func" => listener.typemap # 0
    <3>1. SUFFICES ASSUME r = "expr_rank_func" PROVE listener.typemap # 0
      OBVIOUS
    <3>2. Under(Viewed, {"view"})' /\ r \in Viewed
      BY <3>1 DEF FieldTrees, Viewed, Body, Inner, Neutral
    <3>3. \E i \in 1..Len(open) : open[i].rule \in {"view"}
      BY <3>2, AroundEntered
    <3>. QED
      BY <3>3 DEF FieldsFound
  <2>7. listener \in Listener /\ w \in Seq(Symbols)
    <3>1. listener \in Listener
      BY FramesTyped
    <3>2. w \in Seq(Symbols)
      BY EnteredFrames
    <3>. QED
      BY <3>1, <3>2
  <2>8. r \notin Rims
    BY <2>1, <1>4 DEF LooksAtExprs, Rims
  <2>. PICK t : t = Enter(listener, r, w)
    OBVIOUS
  <2>9. Upto(listener, t, Len(listener.exprs) - Need(r))
    BY <2>1, <2>5, <2>6, <2>7, <2>8, EnterKeeps
  <2>. QED
    BY <1>2, <2>9 DEF Upto
<1>. QED
  BY <1>3, <1>4

\* The callbacks that fail by design fail by their own names.
LEMMA StatementsTake ==
  ASSUME NEW s \in Listener, Live(s), NEW w
  PROVE  /\ Dies(ExitExpr_simple_assign(s), {"ExitExpr_simple_assign"})
         /\ Dies(ExitExpr_let_statement(s), {"ExitExpr_let_statement"})
         /\ Dies(ExitExpr_table_of_statement(s), {"ExitExpr_table_of_statement"})
         /\ Dies(ExitTemplate_statement(s), {"ExitTemplate_statement"})
         /\ Dies(ExitTemplate_expression(s, w), {"ExitTemplate_expression"})
<1>1. \A P : Dies(s, P)
  BY AliveDies
<1>2. ASSUME NEW c, NEW kinds PROVE Dies(PutInto(s, kinds, c), {c})
  <2>1. Dies(popExprs(s, 1, c), {c})
    BY <1>1, LookupsDie
  <2>. QED
    BY <2>1, LookupsDie DEF PutInto
<1>3. Dies(ExitTemplate_expression(s, w), {"ExitTemplate_expression"})
  <2>. DEFINE c == "ExitTemplate_expression"
              a == IF Has(w, "TMPL_TEXT") THEN s ELSE popExprs(s, 1, c)
              b == TopExpr(a, AnyExpr, c)
              e == IF TopIs(b, {"transform"}) THEN b ELSE popExprs(b, 1, c)
  <2>1. Dies(a, {c})
    BY <1>1, LookupsDie
  <2>. HIDE DEF a
  <2>2. Dies(b, {c})
    BY <2>1, LookupsDie
  <2>. HIDE DEF b
  <2>3. Dies(e, {c})
    BY <2>2, LookupsDie
  <2>4. ExitTemplate_expression(s, w) = PushExpr(e, "binexpr")
    BY DEF ExitTemplate_expression, e, b, a
  <2>. HIDE DEF e
  <2>. QED
    BY <2>3, <2>4, HelpersDie
<1>. QED
  BY <1>2, <1>3
  DEF ExitExpr_simple_assign, ExitExpr_let_statement, ExitExpr_table_of_statement, ExitTemplate_statement

\* A rule of a view leaves what it looks for on the stack, or fails as it is known to.
LEMMA ExitExprsFine ==
  ASSUME TypeOK, Walked, Parented, HeldInside, Skeleton, Bodies, FieldsFound, AppTrees, Pinning,
         Live(listener), Leaving, open[Len(open)].rule \in TakesExprs
  PROVE  Fine(Exit(listener, open[Len(open)].rule, open[Len(open)].word), open[Len(open)].rule)
<1>0. PICK d \in Nat : d = Len(open)
  BY FramesTyped
<1>. DEFINE s == listener
            r == open[d].rule
            w == open[d].word
<1>1. d \in 1..d /\ open # <<>> /\ s \in Listener /\ s.exprs \in Seq(AnyExpr) /\ Live(s)
  <2>1. d \in 1..d /\ open # <<>> /\ s \in Listener
    BY <1>0, FramesTyped DEF Leaving
  <2>. QED
    BY <2>1, ListenerTypes
<1>2. SUFFICES Fine(Exit(s, r, w), r)
  BY <1>0
<1>3. r \in TakesExprs /\ Fielded(open[d]) => OnField(s)
  BY <1>0, <1>1 DEF FieldsFound
<1>4. CASE r \in Inner \cup Rims
  <2>1. InnerInside /\ Called
    BY DEF Pinning
  <2>2. PICK h \in [Nat -> Int] : Tall(h) /\ Pins(h)
    BY DEF Pinning
  <2>3. Inside(d)
    <3>1. r \in Rims => Inside(d)
      BY <1>1 DEF Inside
    <3>. QED
      BY <1>0, <1>1, <1>4, <2>1, <3>1 DEF InnerInside
  <2>4. r = "expr_rank_func" => OnField(s)
    BY <1>0, <1>3 DEF Fielded, Typed
  <2>5. Upto(s, Exit(s, r, w), h[d] - Need(r))
    BY <1>0, <1>4, <2>1, <2>2, <2>3, <2>4, ExitFits
  <2>. QED
    BY <2>5, LiveFine DEF Upto
<1>5. CASE r = "transform_return_type"
  <2>1. CASE Has(w, "set_of")
    <3>1. Exit(s, r, w) = s
      BY <1>5, <2>1 DEF Exit, ExitTransform_return_type
    <3>. QED
      BY <1>1, <3>1, LiveFine
  <2>2. CASE ~Has(w, "set_of")
    <3>1. OnField(s)
      BY <1>0, <1>3, <1>5, <2>2 DEF Fielded
    <3>2. \A c : SomeField(s, c) = s
      BY <3>1 DEF OnField, SomeField
    <3>3. d > 1
      <4>1. open[1].rule = "file"
        BY <1>0, <1>1 DEF Parented
      <4>. QED
        BY <1>1, <1>5, <4>1
    <3>4. d - 1 \in 1..(Len(open) - 1) /\ d - 1 + 1 = d /\ d - 1 \in 1..Len(open)
      BY <1>0, <3>3
    <3>5. open[d - 1].rule = "transform"
      <4>1. open[d - 1].rule \in Rules /\ "transform_return_type" \in Alphabet[open[d - 1].rule]
        BY <1>5, <3>4, ParentOf
      <4>2. \A p \in Rules : "transform_return_type" \in Alphabet[p] => p = "transform"
        BY SMTT(60) DEF Alphabet, Rules, Grammar
      <4>. QED
        BY <4>1, <4>2
    <3>6. ClearAt(open[d - 1])
      BY <3>5 DEF ClearAt, Clear, Single, Assigns
    <3>7. BodyTop(d - 1)
      <4>1. "transform_return_type" \notin Body
        BY DEF Body, Inner, Gainers, Neutral, Outer, Assigns
      <4>2. \A j \in (d - 1 + 1)..Len(open) : j = d
        BY <1>0, <3>3
      <4>. QED
        BY <1>5, <4>1, <4>2 DEF BodyTop
    <3>8. Finds(s, Len(s.exprs), {"transform"})
      BY <3>4, <3>5, <3>6, <3>7, ClearTop
    <3>9. \A c : TopExpr(s, AnyExpr, c) = s
      <4>1. Finds(s, Len(s.exprs), AnyExpr)
        BY <1>1, <3>8 DEF Finds
      <4>. QED
        BY <4>1, UptoTop
    <3>10. Exit(s, r, w) = s
      BY <1>5, <2>2, <3>2, <3>9 DEF Exit, ExitTransform_return_type
    <3>. QED
      BY <1>1, <3>10, LiveFine
  <2>. QED
    BY <2>1, <2>2
<1>6. CASE r = "transform"
  <2>1. ClearAt(open[d]) /\ BodyTop(d)
    <3>1. \A j \in (d + 1)..Len(open) : FALSE
      BY <1>0
    <3>. QED
      BY <1>6, <3>1 DEF ClearAt, Clear, Single, Assigns, BodyTop
  <2>2. Finds(s, Len(s.exprs), {"transform"})
    BY <1>0, <1>1, <1>6, <2>1, ClearTop
  <2>3. Exit(s, r, w) = s
    BY <1>6, <2>2, UptoTop DEF Exit, ExitTransform
  <2>. QED
    BY <1>1, <2>3, LiveFine
<1>7. CASE r \in {"expr_block", "expr_stmt", "expr_statement", "expr_statement_no_nl", "expr_assign"}
  <2>1. Exit(s, r, w) = s
    BY <1>1, <1>7, OuterExits
  <2>. QED
    BY <1>1, <2>1, LiveFine
<1>. HIDE DEF s, w
<1>8. \A t, c : Dies(t, {c}) /\ Excused(c, r) => Fine(t, r)
  <2>1. SUFFICES ASSUME NEW t, NEW c, Dies(t, {c}), Excused(c, r) PROVE Fine(t, r)
    OBVIOUS
  <2>. QED
    BY <2>1, DiesFine
<1>9. CASE r \in Assigns
  <2>1. CASE r = "expr_simple_assign"
    <3>1. Dies(Exit(s, r, w), {"ExitExpr_simple_assign"}) /\ Excused("ExitExpr_simple_assign", r)
      BY <1>1, <2>1, StatementsTake DEF Exit, Excused, KnownPanics
    <3>. QED
      BY <1>8, <3>1
  <2>2. CASE r = "expr_let_statement"
    <3>1. Dies(Exit(s, r, w), {"ExitExpr_let_statement"}) /\ Excused("ExitExpr_let_statement", r)
      BY <1>1, <2>2, StatementsTake DEF Exit, Excused, KnownPanics
    <3>. QED
      BY <1>8, <3>1
  <2>3. CASE r = "expr_table_of_statement"
    <3>1. Dies(Exit(s, r, w), {"ExitExpr_table_of_statement"}) /\ Excused("ExitExpr_table_of_statement", r)
      BY <1>1, <2>3, StatementsTake DEF Exit, Excused, KnownPanics
    <3>. QED
      BY <1>8, <3>1
  <2>. QED
    BY <1>9, <2>1, <2>2, <2>3 DEF Assigns
<1>10. CASE r = "template_statement"
  <2>1. Dies(Exit(s, r, w), {"ExitTemplate_statement"}) /\ Excused("ExitTemplate_statement", r)
    BY <1>1, <1>10, StatementsTake DEF Exit, Excused, KnownPanics
  <2>. QED
    BY <1>8, <2>1
<1>11. CASE r = "template_expression"
  <2>1. PICK i \in 1..(d - 1) : open[i].rule = "template_statement"
    BY <1>0, <1>1, <1>11 DEF AppTrees, Under
  <2>2. i \in 1..Len(open)
    BY <1>0
  <2>3. Dies(Exit(s, r, w), {"ExitTemplate_expression"})
    BY <1>1, <1>11, StatementsTake DEF Exit
  <2>4. Excused("ExitTemplate_expression", r)
    BY <2>1, <2>2 DEF Excused, KnownPanics
  <2>. QED
    BY <1>8, <2>3, <2>4
<1>12. r \in Inner \cup Rims \cup Assigns
           \cup {"transform_return_type", "transform", "expr_block", "expr_stmt", "expr_statement",
                 "expr_statement_no_nl", "expr_assign", "template_statement", "template_expression"}
  BY <1>0 DEF TakesExprs, Body, Outer, Rims
<1>. QED
  BY <1>4, <1>5, <1>6, <1>7, <1>9, <1>10, <1>11, <1>12

\* Everything that the callbacks find.
Provided ==
  /\ IInv /\ EInv /\ Walked /\ Parented /\ FieldsFound /\ FieldTrees /\ AppTrees /\ AppsFound
  /\ ScopesFound /\ CallsFound /\ CallTrees /\ Pinning

LEMMA PanicsEntered ==
  ASSUME Provided, FieldTrees', AppTrees', CallTrees', Live(listener), NEW n, NEW r, NEW w, Enters(n, r, w)
  PROVE  PanicsOnlyKnown'
<1>1. /\ TypeOK /\ RestsFit /\ HeldInside /\ Skeleton /\ Bodies /\ IInv /\ Walked /\ Parented /\ FieldsFound
      /\ AppTrees /\ AppsFound /\ ScopesFound /\ CallsFound /\ Pinning
  BY DEF Provided, IInv, Shape, EInv, Heights
<1>2. Fine(listener', r)
  <2>1. CASE r \in LooksAtExprs
    <3>1. Live(listener')
      BY <1>1, <2>1, EnterExprsFine
    <3>. QED
      BY <3>1, LiveFine
  <2>2. CASE r \notin LooksAtExprs
    BY <1>1, <2>2, EnterFine
  <2>. QED
    BY <2>1, <2>2
<1>3. SUFFICES ASSUME ~Live(listener')
               PROVE  /\ listener'.panic \in DOMAIN KnownPanics
                      /\ (Opened(KnownPanics[listener.panic]) > 0)'
  BY DEF PanicsOnlyKnown
<1>4. Excused(listener'.panic, r)
  BY <1>2, <1>3 DEF Fine
<1>5. PICK d \in Nat : d = Len(open)
  BY <1>1, FramesTyped
<1>6. /\ Len(open') = d + 1 /\ open'[d + 1].rule = r
      /\ \A i \in 1..d : open'[i].rule = open[i].rule
  BY <1>1, <1>5, EnteredFrames
<1>7. PICK K : K = KnownPanics[listener'.panic]
  OBVIOUS
<1>8. \E i \in 1..Len(open') : open'[i].rule \in K
  <2>1. r \in K \/ \E i \in 1..d : open[i].rule \in K
    BY <1>4, <1>5, <1>7 DEF Excused
  <2>2. d + 1 \in 1..(d + 1) /\ \A i \in 1..d : i \in 1..(d + 1)
    OBVIOUS
  <2>. QED
    BY <1>6, <2>1, <2>2
<1>9. Len(open') \in Nat
  BY <1>6
<1>10. (Opened(KnownPanics[listener.panic]) > 0)'
  BY <1>7, <1>8, <1>9, OpenFiniteNext
<1>. QED
  BY <1>4, <1>10 DEF Excused

LEMMA PanicsExited ==
  ASSUME Provided, ExitRule
  PROVE  PanicsOnlyKnown'
<1>1. /\ TypeOK /\ HeldInside /\ Skeleton /\ Bodies /\ IInv /\ Walked /\ Parented /\ FieldsFound
      /\ AppTrees /\ ScopesFound /\ CallsFound /\ CallTrees /\ Pinning
  BY DEF Provided, IInv, Shape, EInv, Heights
<1>0. PICK d \in Nat : d = Len(open)
  BY <1>1, FramesTyped
<1>2. /\ Live(listener) /\ open # <<>> /\ \A k \in 1..Len(open[d].rest) : ~NextIs(open[d].rest, k)
      /\ listener' = Exit(listener, open[d].rule, open[d].word)
      /\ ~Live(listener') => open' = open
  BY <1>0 DEF ExitRule, Top
<1>3. d \in 1..d /\ open[d].rest \in Seq(Symbols)
  <2>1. d # 0
    BY <1>0, <1>1, <1>2, FramesTyped
  <2>. QED
    BY <1>0, <1>1, <2>1, FramesTyped
<1>4. Leaving
  BY <1>0, <1>2, <1>3, GainedLast DEF Leaving
<1>5. Fine(listener', open[d].rule)
  <2>1. CASE open[d].rule \in TakesExprs
    BY <1>0, <1>1, <1>2, <1>4, <2>1, ExitExprsFine
  <2>2. CASE open[d].rule \notin TakesExprs
    BY <1>0, <1>1, <1>2, <1>4, <2>2, ExitFine
  <2>. QED
    BY <2>1, <2>2
<1>6. SUFFICES ASSUME ~Live(listener')
               PROVE  /\ listener'.panic \in DOMAIN KnownPanics
                      /\ (Opened(KnownPanics[listener.panic]) > 0)'
  BY DEF PanicsOnlyKnown
<1>7. Excused(listener'.panic, open[d].rule) /\ open' = open
  BY <1>2, <1>5, <1>6 DEF Fine
<1>8. PICK K : K = KnownPanics[listener'.panic]
  OBVIOUS
<1>9. \E i \in 1..Len(open') : open'[i].rule \in K
  BY <1>0, <1>3, <1>7, <1>8 DEF Excused
<1>10. Len(open') \in Nat
  BY <1>0, <1>7
<1>11. (Opened(KnownPanics[listener.panic]) > 0)'
  BY <1>8, <1>9, <1>10, OpenFiniteNext
<1>. QED
  BY <1>7, <1>11 DEF Excused

(***************************************************************************)
(* The listener panics only in the callbacks that are known to, inside of  *)
(* the rules they are known of: no other pops an empty stack, looks at a   *)
(* field, a scope, a statement or an expression that is not there or is of *)
(* another kind, or writes to a map that was never made                    *)
(* (listener_impl.go, all of its Enter and Exit methods).                  *)
(***************************************************************************)
THEOREM PanicsAreKnown == Spec => []PanicsOnlyKnown
<1>1. Init => PanicsOnlyKnown
  <2>1. NewTreeShapeListener.panic = ""
    BY DEF NewTreeShapeListener
  <2>2. Init => Live(listener)
    BY <2>1 DEF Init, Live
  <2>. QED
    BY <2>2 DEF PanicsOnlyKnown
<1>2. ASSUME Provided, Provided', PanicsOnlyKnown, [Next]_vars PROVE PanicsOnlyKnown'
  <2>1. CASE EnterRule
    <3>1. Live(listener) /\ TypeOK
      BY <1>2, <2>1 DEF EnterRule, Provided, IInv, Shape
    <3>2. PICK n, r, w : Enters(n, r, w)
      BY <2>1, <3>1, EnterStep
    <3>3. FieldTrees' /\ AppTrees' /\ CallTrees'
      BY <1>2 DEF Provided
    <3>. QED
      BY <1>2, <3>1, <3>2, <3>3, PanicsEntered
  <2>2. CASE ExitRule
    BY <1>2, <2>2, PanicsExited
  <2>3. CASE UNCHANGED vars
    BY <1>2, <2>3 DEF vars, PanicsOnlyKnown, Opened, Among
  <2>. QED
    BY <1>2, <2>1, <2>2, <2>3 DEF Next
<1>. QED
  BY Invariance, ExprsInvariance, WalkedAlways, ParentedAlways, FoundAlways, FieldTreesAlways, AppTreesAlways,
     AppsAlways, ScopesAlways, CallsAlways, PinningAlways, <1>1, <1>2, PTL DEF Spec, Provided
=============================================================================
