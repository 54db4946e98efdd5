-------------------------- MODULE ImportLoopProofs --------------------------
(***************************************************************************)
(* Proofs about ImportLoop, for any files that import each other in any    *)
(* way.  How a spelling is made (Spell) and opened (FileOf, OpenAllowed)   *)
(* is not used: the loop is right whatever names the imports get, as long  *)
(* as the same name stands for the same file.                              *)
(***************************************************************************)
EXTENDS ImportLoop, TLAPS

(* Sequences, without saying of what.                                      *)
IsSeq(s) == \E S : s \in Seq(S)

LEMMA EmptyIsSeq == IsSeq(<<>>)
<1>1. <<>> \in Seq({})
  OBVIOUS
<1> QED
  BY <1>1 DEF IsSeq

LEMMA DomainOfSeq ==
  ASSUME NEW s, IsSeq(s)
  PROVE  Len(s) \in Nat /\ DOMAIN s = 1..Len(s)
<1>1. PICK S : s \in Seq(S)
  BY DEF IsSeq
<1> QED
  BY <1>1

LEMMA AppendToSeq ==
  ASSUME NEW s, IsSeq(s), NEW e
  PROVE  /\ IsSeq(Append(s, e))
         /\ Append(s, e) # <<>>
         /\ DOMAIN Append(s, e) = 1..(Len(s) + 1)
         /\ Append(s, e)[Len(s) + 1] = e
         /\ \A i \in DOMAIN s : Append(s, e)[i] = s[i]
         /\ ToSet(Append(s, e)) = ToSet(s) \cup {e}
<1>1. PICK S : s \in Seq(S)
  BY DEF IsSeq
<1> DEFINE T == S \cup {e}
<1>2. s \in Seq(T) /\ e \in T
  BY <1>1
<1>3. Append(s, e) \in Seq(T) /\ Len(Append(s, e)) = Len(s) + 1 /\ Len(s) \in Nat
  BY <1>2
<1>4. /\ DOMAIN s = 1..Len(s)
      /\ DOMAIN Append(s, e) = 1..(Len(s) + 1)
      /\ Append(s, e)[Len(s) + 1] = e
      /\ \A i \in DOMAIN s : Append(s, e)[i] = s[i]
  BY <1>2
<1>5. ToSet(Append(s, e)) = ToSet(s) \cup {e}
  BY <1>3, <1>4 DEF ToSet
<1>6. Append(s, e) # <<>>
  BY <1>3
<1> QED
  BY <1>3, <1>4, <1>5, <1>6 DEF IsSeq

LEMMA ConcatSeq ==
  ASSUME NEW s, NEW t, IsSeq(s), IsSeq(t)
  PROVE  /\ IsSeq(s \o t)
         /\ ToSet(s \o t) = ToSet(s) \cup ToSet(t)
<1>1. PICK S : s \in Seq(S)
  BY DEF IsSeq
<1>2. PICK T : t \in Seq(T)
  BY DEF IsSeq
<1> DEFINE U == S \cup T
<1>3. s \in Seq(U) /\ t \in Seq(U)
  BY <1>1, <1>2
<1>4. s \o t \in Seq(U)
  BY <1>3
<1>5. /\ Len(s) \in Nat /\ Len(t) \in Nat
      /\ DOMAIN s = 1..Len(s) /\ DOMAIN t = 1..Len(t)
      /\ DOMAIN (s \o t) = 1..(Len(s) + Len(t))
      /\ \A i \in 1..(Len(s) + Len(t)) :
           (s \o t)[i] = IF i <= Len(s) THEN s[i] ELSE t[i - Len(s)]
  BY <1>3
<1>6. ASSUME NEW e \in ToSet(s) \cup ToSet(t) PROVE e \in ToSet(s \o t)
  <2>1. CASE e \in ToSet(s)
    <3>1. PICK i \in DOMAIN s : s[i] = e
      BY <2>1 DEF ToSet
    <3> QED
      BY <3>1, <1>5 DEF ToSet
  <2>2. CASE e \in ToSet(t)
    <3>1. PICK i \in DOMAIN t : t[i] = e
      BY <2>2 DEF ToSet
    <3>2. Len(s) + i \in 1..(Len(s) + Len(t)) /\ (s \o t)[Len(s) + i] = e
      BY <3>1, <1>5
    <3> QED
      BY <3>2, <1>5 DEF ToSet
  <2> QED
    BY <2>1, <2>2, <1>6
<1>7. ASSUME NEW e \in ToSet(s \o t) PROVE e \in ToSet(s) \cup ToSet(t)
  <2>1. PICK i \in DOMAIN (s \o t) : (s \o t)[i] = e
    BY <1>7 DEF ToSet
  <2>2. CASE i <= Len(s)
    BY <2>1, <2>2, <1>5 DEF ToSet
  <2>3. CASE ~(i <= Len(s))
    <3>1. i - Len(s) \in DOMAIN t /\ t[i - Len(s)] = e
      BY <2>1, <2>3, <1>5
    <3> QED
      BY <3>1 DEF ToSet
  <2> QED
    BY <2>2, <2>3
<1> QED
  BY <1>4, <1>6, <1>7 DEF IsSeq

LEMMA PopSeq ==
  ASSUME NEW s, IsSeq(s), s # <<>>
  PROVE  /\ IsSeq(Tail(s))
         /\ ToSet(s) = ToSet(Tail(s)) \cup {Head(s)}
<1>1. PICK S : s \in Seq(S)
  BY DEF IsSeq
<1>2. /\ Len(s) \in Nat /\ Len(s) > 0
      /\ DOMAIN s = 1..Len(s)
      /\ Tail(s) \in Seq(S)
      /\ DOMAIN Tail(s) = 1..(Len(s) - 1)
      /\ \A i \in 1..(Len(s) - 1) : Tail(s)[i] = s[i + 1]
      /\ Head(s) = s[1]
  BY <1>1
<1>3. ASSUME NEW e \in ToSet(s) PROVE e \in ToSet(Tail(s)) \cup {Head(s)}
  <2>1. PICK i \in DOMAIN s : s[i] = e
    BY <1>3 DEF ToSet
  <2>2. CASE i = 1
    BY <2>1, <2>2, <1>2
  <2>3. CASE i # 1
    <3>1. i - 1 \in DOMAIN Tail(s) /\ Tail(s)[i - 1] = e
      BY <2>1, <2>3, <1>2
    <3> QED
      BY <3>1 DEF ToSet
  <2> QED
    BY <2>2, <2>3
<1>4. ASSUME NEW e \in ToSet(Tail(s)) PROVE e \in ToSet(s)
  <2>1. PICK i \in DOMAIN Tail(s) : Tail(s)[i] = e
    BY <1>4 DEF ToSet
  <2>2. i + 1 \in DOMAIN s /\ s[i + 1] = e
    BY <2>1, <1>2
  <2> QED
    BY <2>2 DEF ToSet
<1>5. Head(s) \in ToSet(s)
  BY <1>2 DEF ToSet
<1> QED
  BY <1>2, <1>3, <1>4, <1>5 DEF IsSeq

(* The import definitions of a file that opens.                            *)
LEMMA ImportsOfIsSeq ==
  ASSUME imports \in Projects, NEW name, Opens(name)
  PROVE  IsSeq(ImportsOf(name))
<1> DEFINE texts == imports[FileOf(name)]
           S == {Spell(name, texts[i]) : i \in DOMAIN texts}
<1>1. texts \in Seq(Seq(STRING))
  BY ProjectsAssumption DEF Opens
<1>2. Len(texts) \in Nat /\ DOMAIN texts = 1..Len(texts)
  BY <1>1
<1>3. ImportsOf(name) = [i \in 1..Len(texts) |-> Spell(name, texts[i])]
  BY <1>2 DEF ImportsOf
<1>4. \A i \in 1..Len(texts) : Spell(name, texts[i]) \in S
  BY <1>2
<1>5. ImportsOf(name) \in Seq(S)
  <2> HIDE DEF S, texts
  <2> QED
    BY <1>2, <1>3, <1>4
<1> QED
  BY <1>5 DEF IsSeq

---------------------------------------------------------------------------
(* IInv and the fact that queue and walked are sequences are inductive.    *)
Inv == IInv /\ IsSeq(queue) /\ IsSeq(walked)

LEMMA InitInv == Init => Inv
<1> SUFFICES ASSUME Init PROVE Inv
  OBVIOUS
<1>1. IsSeq(queue) /\ IsSeq(walked) /\ DOMAIN walked = {} /\ ToSet(walked) = {}
  BY EmptyIsSeq DEF Init, ToSet
<1> QED
  BY <1>1 DEF Init, Inv, IInv, AtParse, AtPop, AtDone, RootFirst, ImportsAwaited,
     SpellingWalkedOnce, IsInjective, StaysInRoot

LEMMA ParseSourceKeepsInv ==
  ASSUME Inv, ParseSource
  PROVE  Inv'
<1> USE DEF Inv, IInv, ParseSource
<1>1. /\ source \notin imported
      /\ imported = ToSet(walked)
      /\ walked = <<>> => source = Root
      /\ walked # <<>> /\ IsAbs(source) => allowAbsoluteImport
  BY DEF AtParse
<1>2. /\ IsSeq(walked')
      /\ walked' # <<>>
      /\ DOMAIN walked' = 1..(Len(walked) + 1)
      /\ walked'[Len(walked) + 1] = source
      /\ \A i \in DOMAIN walked : walked'[i] = walked[i]
      /\ ToSet(walked') = ToSet(walked) \cup {source}
  BY AppendToSeq
<1>3. Len(walked) \in Nat /\ DOMAIN walked = 1..Len(walked)
  BY DomainOfSeq
<1>4. IsSeq(ImportsOf(source))
  BY ImportsOfIsSeq
<1>5. /\ IsSeq(queue')
      /\ ToSet(queue') = ToSet(queue) \cup ToSet(ImportsOf(source))
  BY <1>4, ConcatSeq
<1>6. \A i \in DOMAIN walked : walked[i] \in ToSet(walked)
  BY DEF ToSet
<1>7. SpellingWalkedOnce'
  BY <1>1, <1>2, <1>3, <1>6 DEF SpellingWalkedOnce, IsInjective
<1>8. RootFirst'
  <2>1. CASE walked = <<>>
    BY <1>1, <1>2, <2>1 DEF RootFirst
  <2>2. CASE walked # <<>>
    <3>1. 1 \in DOMAIN walked
      <4>1. PICK S : walked \in Seq(S)
        BY DEF IsSeq
      <4> QED
        BY <4>1, <2>2
    <3> QED
      BY <1>2, <2>2, <3>1 DEF RootFirst
  <2> QED
    BY <2>1, <2>2
<1>9. \A i \in DOMAIN walked' : Opens(walked'[i])
  BY <1>2, <1>3
<1>10. StaysInRoot'
  <2> SUFFICES ASSUME NEW i \in DOMAIN walked'
               PROVE  /\ OpenAllowed(walked'[i])
                      /\ i > 1 /\ IsAbs(walked'[i]) => allowAbsoluteImport
    BY DEF StaysInRoot
  <2>1. CASE i \in DOMAIN walked
    BY <1>2, <2>1 DEF StaysInRoot
  <2>2. CASE i \notin DOMAIN walked
    <3>1. i = Len(walked) + 1 /\ walked'[i] = source
      BY <1>2, <1>3, <2>2
    <3>2. i > 1 => walked # <<>>
      BY <3>1
    <3> QED
      BY <1>1, <3>1, <3>2 DEF Opens
  <2> QED
    BY <2>1, <2>2
<1>11. ImportsAwaited'
  <2>1. SUFFICES ASSUME NEW i \in DOMAIN walked', NEW name \in ToSet(ImportsOf(walked'[i]))
                 PROVE  name \in ToSet(walked') \/ name \in ToSet(queue')
    BY DEF ImportsAwaited, Awaited, ImportsOf
  <2>2. CASE i \in DOMAIN walked
    <3>1. name \in ToSet(ImportsOf(walked[i]))
      BY <1>2, <2>2
    <3>2. Awaited(name)
      BY <2>2, <3>1 DEF ImportsAwaited
    <3> QED
      BY <1>2, <1>5, <3>2 DEF Awaited
  <2>3. CASE i \notin DOMAIN walked
    <3>1. walked'[i] = source
      BY <1>2, <1>3, <2>3
    <3> QED
      BY <1>5, <3>1
  <2> QED
    BY <2>2, <2>3
<1>12. pc' \in {"pop", "done"} /\ imports' \in Projects
  OBVIOUS
<1>13. AtParse' /\ AtPop' /\ AtDone'
  BY <1>1, <1>2 DEF AtParse, AtPop, AtDone, MarkImported
<1>14. (\A i \in DOMAIN walked : Opens(walked[i]))'
  <2>1. \A name : Opens(name)' <=> Opens(name)
    BY DEF Opens
  <2> QED
    BY <1>9, <2>1
<1> QED
  BY <1>2, <1>5, <1>7, <1>8, <1>10, <1>11, <1>12, <1>13, <1>14

LEMMA PopKeepsInv ==
  ASSUME Inv, Pop
  PROVE  Inv'
<1> USE DEF Inv, IInv, Pop
<1>1. walked # <<>> /\ imported = ToSet(walked)
  BY DEF AtPop
<1>2. IsSeq(queue') /\ ToSet(queue) = ToSet(queue') \cup {source'}
  BY PopSeq
<1>3. walked' = walked /\ imported' = imported /\ imports' = imports
  OBVIOUS
<1>4. /\ pc' \in {"parse", "pop", "done", "error"}
      /\ pc' = "parse" => source' \notin imported
      /\ pc' = "parse" => (IsAbs(source') => allowAbsoluteImport)
      /\ pc' = "pop" => queue' # <<>> /\ source' \in imported
      /\ pc' = "done" => queue' = <<>> /\ source' \in imported
  BY DEF AfterPop
<1>5. AtParse' /\ AtPop' /\ AtDone'
  BY <1>1, <1>3, <1>4 DEF AtParse, AtPop, AtDone
<1>6. ImportsAwaited'
  <2> SUFFICES ASSUME pc' # "error", NEW i \in DOMAIN walked,
                      NEW name \in ToSet(ImportsOf(walked[i])')
               PROVE  Awaited(name)'
    BY DEF ImportsAwaited
  <2>1. ImportsOf(walked[i])' = ImportsOf(walked[i])
    BY DEF ImportsOf
  <2>2. name \in ToSet(walked) \/ name \in ToSet(queue)
    BY <2>1 DEF ImportsAwaited, Awaited
  <2>3. name = source' => pc' = "parse" \/ source' \in ToSet(walked)
    BY <1>1, <1>4
  <2> QED
    BY <1>2, <1>3, <2>2, <2>3 DEF Awaited
<1>7. SpellingWalkedOnce' /\ RootFirst' /\ StaysInRoot'
  BY DEF SpellingWalkedOnce, RootFirst, StaysInRoot
<1>8. (\A i \in DOMAIN walked : Opens(walked[i]))'
  BY DEF Opens
<1> QED
  BY <1>2, <1>3, <1>4, <1>5, <1>6, <1>7, <1>8

LEMMA RestKeepsInv ==
  ASSUME Inv, ParseFail \/ UNCHANGED vars
  PROVE  Inv'
<1> USE DEF Inv, IInv, ParseFail, vars
<1>1. AtParse' /\ AtPop' /\ AtDone' /\ RootFirst' /\ SpellingWalkedOnce' /\ StaysInRoot'
  BY DEF AtParse, AtPop, AtDone, RootFirst, SpellingWalkedOnce, StaysInRoot
<1>2. ImportsAwaited'
  BY DEF ImportsAwaited, Awaited, ImportsOf
<1>3. (\A i \in DOMAIN walked : Opens(walked[i]))'
  BY DEF Opens
<1> QED
  BY <1>1, <1>2, <1>3

LEMMA ImportInvariant == Spec => []Inv
<1>1. Inv /\ [Next]_vars => Inv'
  BY ParseSourceKeepsInv, PopKeepsInv, RestKeepsInv DEF Next
<1> QED
  BY InitInv, <1>1, PTL DEF Spec

(* Parse walks no spelling twice and, when it succeeds, has walked every   *)
(* import of every file it walked, whatever diamonds and cycles the        *)
(* imports form.                                                           *)
THEOREM ImportsWalkedOnce == Spec => [](SpellingWalkedOnce /\ AllImportsWalked)
<1>1. Inv => SpellingWalkedOnce /\ AllImportsWalked
  <2> SUFFICES ASSUME Inv PROVE AllImportsWalked
    BY DEF Inv, IInv
  <2>1. ToSet(<<>>) = {}
    BY DEF ToSet
  <2> QED
    BY <2>1 DEF Inv, IInv, AtDone, RootFirst, ImportsAwaited, Awaited, AllImportsWalked
<1> QED
  BY ImportInvariant, <1>1, PTL

(* Without a root nothing is walked that an import names by an absolute    *)
(* path, and nothing outside of the root is ever opened.                   *)
THEOREM ImportsStayInRoot == Spec => []StaysInRoot
<1>1. Inv => StaysInRoot
  BY DEF Inv, IInv
<1> QED
  BY ImportInvariant, <1>1, PTL

(* Types of what no other step depends on: how Parse may go on, and that   *)
(* nothing counts as imported that was not walked, after the end too.      *)
LEMMA TypesKept ==
  ASSUME Inv, allowAbsoluteImport \in BOOLEAN, imported \subseteq ToSet(walked), [Next]_vars
  PROVE  allowAbsoluteImport' \in BOOLEAN /\ imported' \subseteq ToSet(walked')
<1>1. CASE ParseSource
  <2>1. ToSet(walked') = ToSet(walked) \cup {source}
    BY <1>1, AppendToSeq DEF Inv, ParseSource
  <2>2. imported' \subseteq imported \cup {source}
    BY <1>1 DEF ParseSource, MarkImported
  <2> QED
    BY <1>1, <2>1, <2>2 DEF ParseSource
<1>2. CASE ParseFail
  BY <1>2 DEF ParseFail
<1>3. CASE Pop
  BY <1>3 DEF Pop
<1>4. CASE UNCHANGED vars
  BY <1>4 DEF vars
<1> QED
  BY <1>1, <1>2, <1>3, <1>4 DEF Next

(* The inner loop of Parse never takes a definition off an empty queue,    *)
(* and no file counts as imported or is walked that could not be opened.   *)
THEOREM TypeCorrect == Spec => []TypeOK
<1> DEFINE Types == allowAbsoluteImport \in BOOLEAN /\ imported \subseteq ToSet(walked)
<1>1. Init => Types
  BY DEF Init
<1>2. Types /\ Inv /\ [Next]_vars => Types'
  BY TypesKept
<1>3. Types /\ Inv => TypeOK
  <2> SUFFICES ASSUME Types, Inv PROVE TypeOK
    OBVIOUS
  <2>1. DOMAIN imports = File
    BY ProjectsAssumption DEF Inv, IInv
  <2> QED
    BY <2>1 DEF Inv, IInv, AtPop, TypeOK
<1> QED
  BY ImportInvariant, <1>1, <1>2, <1>3, PTL DEF Spec
============================================================================
