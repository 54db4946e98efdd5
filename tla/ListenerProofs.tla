--------------------------- MODULE ListenerProofs ---------------------------
(***************************************************************************)
(* What SyslWalkProofs needs of the callbacks and of the grammar, whatever *)
(* state they find and whatever rules are open: nothing here speaks of a   *)
(* behaviour.                                                              *)
(*                                                                         *)
(* The callbacks: the type of the state; for each stack whether it keeps   *)
(* its shape, gets an entry or loses one, first for each callback, then    *)
(* for the callback of each rule (EnterEffect, ExitEffect); which parts of *)
(* the state they may touch (EnteredTouches, ExitedTouches); what they     *)
(* leave of the field, of the types of an application and of the entries   *)
(* of the scope.  A callback that fails promises nothing but the type, as  *)
(* nothing is called after it.                                             *)
(*                                                                         *)
(* The grammar: which symbols stand in the words of which rule (Alphabet,  *)
(* found from the operators that make the words), in which order and how   *)
(* often where that matters, and how many values the children of a word    *)
(* leave on expr_stack.                                                    *)
(***************************************************************************)
EXTENDS ListenerTerms, FiniteSetTheorems, TLAPS

LEMMA ListenerTypes ==
  ASSUME NEW s \in Listener
  PROVE  /\ s.scope \in Seq(ScopeEntry) /\ s.types \in Seq(TypeEntry) /\ s.typemap \in Nat
         /\ s.field \in FieldEntry /\ s.nativeSet \in BOOLEAN /\ s.exprs \in Seq(AnyExpr)
         /\ s.urlPrefixes \in Nat /\ s.rest_attrs \in Nat
         /\ s.rest_urlparams \in Seq(Nat) /\ s.rest_urlparams_len \in Seq(Nat)
         /\ s.endpoint \in {"", "path", "rest", "plain"} /\ s.pendingDocString \in BOOLEAN
         /\ s.returns \in BOOLEAN /\ s.apps \in Seq(AppEntry) /\ s.app \in Nat /\ s.panic \in {""} \cup Callbacks
  BY DEF Listener

LEMMA StaysItself == \A s \in Listener : Stays(s, s)
  BY DEF Stays, SameScope, SameTypes, SamePaths

LEMMA StaysOn ==
  ASSUME NEW s, NEW t, NEW u, Stays(s, t), Stays(t, u)
  PROVE  Stays(s, u)
  BY DEF Stays, SameScope, SameTypes, SamePaths

LEMMA CallbacksHaveNames == \A c \in Callbacks : c # ""
<1>. SUFFICES "" \notin Callbacks
  OBVIOUS
<1>. QED
  BY SMT DEF Callbacks

LEMMA PanicStays ==
  ASSUME NEW s \in Listener, NEW c \in Callbacks
  PROVE  Stays(s, Panic(s, c)) /\ ~Live(Panic(s, c))
  BY CallbacksHaveNames DEF Panic, Live, Listener, Stays, SameScope, SameTypes, SamePaths

LEMMA ExprsStays ==
  ASSUME NEW s \in Listener, NEW e \in Seq(AnyExpr)
  PROVE  Stays(s, [s EXCEPT !.exprs = e])
  BY DEF Live, Listener, Stays, SameScope, SameTypes, SamePaths

LEMMA FieldStays ==
  ASSUME NEW s \in Listener, NEW f \in FieldEntry
  PROVE  Stays(s, [s EXCEPT !.field = f])
  BY DEF Live, Listener, Stays, SameScope, SameTypes, SamePaths

LEMMA ScopeStays ==
  ASSUME NEW s \in Listener, NEW sc \in Seq(ScopeEntry), Len(sc) = Len(s.scope),
         \A i \in 1..Len(s.scope) : sc[i].by = s.scope[i].by
  PROVE  Stays(s, [s EXCEPT !.scope = sc])
  BY DEF Live, Listener, Stays, SameScope, SameTypes, SamePaths

LEMMA PushExprStays ==
  ASSUME NEW s \in Listener, NEW k \in AnyExpr
  PROVE  Stays(s, PushExpr(s, k))
<1>0. s.exprs \in Seq(AnyExpr)
  BY ListenerTypes
<1>1. Append(s.exprs, k) \in Seq(AnyExpr)
  BY <1>0
<1>. QED
  BY <1>1, ExprsStays DEF PushExpr

LEMMA popExprsStays ==
  ASSUME NEW s \in Listener, NEW n \in Nat, NEW c \in Callbacks
  PROVE  Stays(s, popExprs(s, n, c))
<1>0. s.exprs \in Seq(AnyExpr) /\ Stays(s, Panic(s, c))
  BY ListenerTypes, PanicStays
<1>1. CASE Len(s.exprs) >= n
  <2>1. SubSeq(s.exprs, 1, Len(s.exprs) - n) \in Seq(AnyExpr)
    BY <1>0, <1>1
  <2>. QED
    BY <1>0, <1>1, <2>1, ExprsStays DEF popExprs
<1>. QED
  BY <1>0, <1>1 DEF popExprs

LEMMA TopExprStays ==
  ASSUME NEW s \in Listener, NEW kinds, NEW c \in Callbacks
  PROVE  Stays(s, TopExpr(s, kinds, c))
  BY StaysItself, PanicStays DEF TopExpr

LEMMA CombineStays ==
  ASSUME NEW s \in Listener, NEW n \in Nat, NEW k \in AnyExpr, NEW c \in Callbacks
  PROVE  Stays(s, Combine(s, n, k, c))
<1>1. Stays(s, popExprs(s, n, c))
  BY popExprsStays
<1>2. Stays(popExprs(s, n, c), Combine(s, n, k, c))
  BY <1>1, PushExprStays DEF Stays, Combine
<1>. QED
  BY <1>1, <1>2, StaysOn

LEMMA PutIntoStays ==
  ASSUME NEW s \in Listener, NEW kinds, NEW c \in Callbacks
  PROVE  Stays(s, PutInto(s, kinds, c))
<1>1. Stays(s, popExprs(s, 1, c))
  BY popExprsStays
<1>2. Stays(popExprs(s, 1, c), PutInto(s, kinds, c))
  BY <1>1, TopExprStays DEF Stays, PutInto
<1>. QED
  BY <1>1, <1>2, StaysOn

LEMMA EntryUpdates ==
  ASSUME NEW p \in ScopeEntry
  PROVE  /\ p.by \in Scopers
         /\ \A x \in Statements : /\ [p EXCEPT !.last = x] \in ScopeEntry
                                 /\ [p EXCEPT !.last = x].by = p.by
         /\ \A b \in BOOLEAN : /\ [p EXCEPT !.attrs = b] \in ScopeEntry
                              /\ [p EXCEPT !.attrs = b].by = p.by
  BY DEF ScopeEntry

LEMMA TopOfScope ==
  ASSUME NEW sc \in Seq(ScopeEntry), sc # <<>>, NEW e \in ScopeEntry, e.by = sc[Len(sc)].by
  PROVE  LET new == [sc EXCEPT ![Len(sc)] = e]
         IN  /\ new \in Seq(ScopeEntry) /\ Len(new) = Len(sc)
             /\ \A i \in 1..Len(sc) : new[i].by = sc[i].by
  OBVIOUS

LEMMA addToCurrentScopeStays ==
  ASSUME NEW s \in Listener, NEW x \in Statements
  PROVE  Stays(s, addToCurrentScope(s, x))
<1>0. Stays(s, Panic(s, "addToCurrentScope")) /\ s.scope \in Seq(ScopeEntry)
  <2>1. "addToCurrentScope" \in Callbacks
    BY SMT DEF Callbacks
  <2>. QED
    BY <2>1, PanicStays, ListenerTypes
<1>1. CASE TopKind(s) \in Blocks
  <2>. DEFINE e == [s.scope[Len(s.scope)] EXCEPT !.last = x]
  <2>1. s.scope # <<>> /\ s.scope[Len(s.scope)] \in ScopeEntry
    BY <1>0, <1>1 DEF TopKind, Blocks
  <2>2. e \in ScopeEntry /\ e.by = s.scope[Len(s.scope)].by
    BY <2>1, EntryUpdates
  <2>. HIDE DEF e
  <2>3. Stays(s, [s EXCEPT !.scope = [s.scope EXCEPT ![Len(s.scope)] = e]])
    BY <1>0, <2>1, <2>2, ScopeStays, TopOfScope
  <2>. QED
    BY <1>1, <2>3 DEF addToCurrentScope, e
<1>. QED
  BY <1>0, <1>1 DEF addToCurrentScope

LEMMA FlagsStay ==
  ASSUME NEW s \in Listener, NEW b \in BOOLEAN
  PROVE  /\ Stays(s, [s EXCEPT !.nativeSet = b])
         /\ Stays(s, [s EXCEPT !.pendingDocString = b])
         /\ Stays(s, [s EXCEPT !.returns = b])
  BY DEF Live, Listener, Stays, SameScope, SameTypes, SamePaths

LEMMA StaysThenPushes ==
  ASSUME NEW s, NEW t, NEW u, NEW r, Stays(s, t), Pushes(t, u, r)
  PROVE  Pushes(s, u, r)
  BY DEF Stays, Pushes, SameScope, PushedScope, SameTypes, SamePaths

LEMMA StaysThenDrops ==
  ASSUME NEW s, NEW t, NEW u, Stays(s, t), Drops(t, u)
  PROVE  Drops(s, u)
  BY DEF Stays, Drops, SameScope, PoppedScope, SameTypes, SamePaths

LEMMA pushScopePushes ==
  ASSUME NEW s \in Listener, NEW kind \in Blocks \cup Annotated \cup {"Alt"},
         NEW attrs \in BOOLEAN, NEW rule \in Scopers
  PROVE  Pushes(s, pushScope(s, kind, attrs, rule), rule)
<1>. DEFINE e == [kind |-> kind, attrs |-> attrs, last |-> "", by |-> rule]
<1>1. e \in ScopeEntry /\ e.by = rule
  BY DEF ScopeEntry
<1>2. s.scope \in Seq(ScopeEntry)
  BY ListenerTypes
<1>. HIDE DEF e
<1>. DEFINE sc == Append(s.scope, e)
<1>3. /\ sc \in Seq(ScopeEntry) /\ Len(sc) = Len(s.scope) + 1 /\ sc[Len(s.scope) + 1].by = rule
      /\ \A i \in 1..Len(s.scope) : sc[i].by = s.scope[i].by
  BY <1>1, <1>2
<1>. HIDE DEF sc
<1>4. Pushes(s, [s EXCEPT !.scope = sc], rule)
  BY <1>3 DEF Live, Listener, Pushes, PushedScope, SameTypes, SamePaths
<1>. QED
  BY <1>4 DEF pushScope, sc, e

LEMMA popScopeDrops ==
  ASSUME NEW s \in Listener
  PROVE  Drops(s, popScope(s))
<1>1. s.scope \in Seq(ScopeEntry)
  BY ListenerTypes
<1>2. CASE s.scope = <<>>
  <2>1. Stays(s, popScope(s)) /\ ~Live(popScope(s))
    BY <1>2, PanicStays DEF popScope, Callbacks
  <2>. QED
    BY <2>1 DEF Stays, Drops
<1>3. CASE s.scope # <<>>
  <2>. DEFINE sc == Pop(s.scope)
  <2>1. /\ sc \in Seq(ScopeEntry) /\ Len(s.scope) = Len(sc) + 1
        /\ \A i \in 1..Len(sc) : sc[i] = s.scope[i]
    BY <1>1, <1>3 DEF Pop
  <2>. HIDE DEF sc
  <2>2. Drops(s, [s EXCEPT !.scope = sc])
    BY <2>1 DEF Live, Listener, Drops, PoppedScope, SameTypes, SamePaths
  <2>. QED
    BY <1>3, <2>2 DEF popScope, sc
<1>. QED
  BY <1>2, <1>3

LEMMA lastStatementStays ==
  ASSUME NEW s \in Listener, NEW stmts, NEW c \in Callbacks
  PROVE  Stays(s, lastStatement(s, stmts, c))
  BY StaysItself, PanicStays DEF lastStatement, Callbacks

LEMMA peekAttrsStays ==
  ASSUME NEW s \in Listener
  PROVE  Stays(s, peekAttrs(s)) /\ (Live(peekAttrs(s)) => TopKind(s) \in Annotated)
  BY StaysItself, PanicStays DEF peekAttrs, Callbacks

LEMMA FieldUpdates ==
  ASSUME NEW f \in FieldEntry
  PROVE  /\ \A p \in {"", "sized", "unsized", "nativeSet"} :
              /\ [f EXCEPT !.prim = p] \in FieldEntry
              /\ [f EXCEPT !.prim = p].top = f.top
         /\ \A b \in BOOLEAN : /\ [f EXCEPT !.attrs = b] \in FieldEntry
                              /\ [f EXCEPT !.attrs = b].top = f.top
  BY DEF FieldEntry

LEMMA FieldAdded ==
  ASSUME NEW f \in FieldEntry, NEW n \in Nat
  PROVE  LET g == [NoFields EXCEPT !.top = n, !.all = f.all \cup {n}]
         IN  g \in FieldEntry /\ g.top = n
<1>1. f.all \cup {n} \in SUBSET Nat /\ IsFiniteSet(f.all \cup {n})
  BY FS_AddElement DEF FieldEntry
<1>. QED
  BY <1>1 DEF FieldEntry, NoFields

LEMMA AddFieldStays ==
  ASSUME NEW s \in Listener, NEW c \in Callbacks
  PROVE  /\ Stays(s, AddField(s, c))
         /\ Live(AddField(s, c)) => s.typemap # 0 /\ AddField(s, c).field.top = s.typemap
<1>1. s.field \in FieldEntry /\ s.typemap \in Nat
  BY ListenerTypes
<1>2. CASE s.typemap = 0
  BY <1>2, PanicStays DEF AddField
<1>3. CASE s.typemap # 0
  <2>. DEFINE g == [NoFields EXCEPT !.top = s.typemap, !.all = s.field.all \cup {s.typemap}]
  <2>1. g \in FieldEntry /\ g.top = s.typemap
    BY <1>1, FieldAdded
  <2>. HIDE DEF g
  <2>2. Stays(s, [s EXCEPT !.field = g])
    BY <2>1, FieldStays
  <2>3. [s EXCEPT !.field = g].field = g
    BY DEF Listener
  <2>. QED
    BY <1>3, <2>1, <2>2, <2>3 DEF AddField, g
<1>. QED
  BY <1>2, <1>3

LEMMA CurrentTypeStays ==
  ASSUME NEW s \in Listener, NEW c \in Callbacks
  PROVE  Stays(s, CurrentType(s, c))
  BY StaysItself, PanicStays DEF CurrentType

LEMMA SomeFieldStays ==
  ASSUME NEW s \in Listener, NEW c \in Callbacks
  PROVE  Stays(s, SomeField(s, c))
  BY StaysItself, PanicStays DEF SomeField

LEMMA MakeConstraintStays ==
  ASSUME NEW s \in Listener, NEW asked
  PROVE  Stays(s, MakeConstraint(s, asked))
  BY StaysItself, PanicStays DEF MakeConstraint, Callbacks

LEMMA applyAnnotationsStays ==
  ASSUME NEW s \in Listener, NEW noted
  PROVE  Stays(s, applyAnnotations(s, noted))
  BY StaysItself, PanicStays DEF applyAnnotations, Callbacks

LEMMA PrimStays ==
  ASSUME NEW s \in Listener, NEW p \in {"", "sized", "unsized", "nativeSet"}
  PROVE  Stays(s, [s EXCEPT !.field.prim = p])
<1>1. [s.field EXCEPT !.prim = p] \in FieldEntry
  BY ListenerTypes, FieldUpdates
<1>. QED
  BY <1>1, FieldStays

LEMMA AttrsStays ==
  ASSUME NEW s \in Listener, NEW b \in BOOLEAN
  PROVE  Stays(s, [s EXCEPT !.field.attrs = b])
<1>1. [s.field EXCEPT !.attrs = b] \in FieldEntry
  BY ListenerTypes, FieldUpdates
<1>. QED
  BY <1>1, FieldStays

-----------------------------------------------------------------------------
\* The stack of types

LEMMA StaysThenRemaps ==
  ASSUME NEW s, NEW t, NEW u, Stays(s, t), Remaps(t, u)
  PROVE  Remaps(s, u)
  BY DEF Stays, Remaps, SameScope, SameTypes, SamePaths

\* There is always a map that nobody has: finitely many are in use.
LEMMA NewMapExists ==
  ASSUME NEW s \in Listener
  PROVE  NewMap(s) \in Nat /\ NewMap(s) # 0
<1>. DEFINE maps == {s.types[i].map : i \in 1..Len(s.types)}
            used == s.field.all \cup maps
            mapOf == [i \in 1..Len(s.types) |-> s.types[i].map]
<1>1. s.types \in Seq(TypeEntry) /\ s.field \in FieldEntry
  BY ListenerTypes
<1>2. IsFiniteSet(maps)
  <2>1. mapOf \in Surjection(1..Len(s.types), maps)
    BY DEF Surjection
  <2>2. IsFiniteSet(1..Len(s.types))
    BY <1>1, FS_Interval
  <2>. QED
    BY <2>1, <2>2, FS_Surjection
<1>3. IsFiniteSet(s.field.all)
  BY <1>1 DEF FieldEntry
<1>4. IsFiniteSet(used) /\ Cardinality(used) \in Nat
  BY <1>2, <1>3, FS_Union, FS_CardinalityType
<1>. HIDE DEF used
<1>5. \E n \in 1..(Cardinality(used) + 1) : n \notin used
  <2>1. SUFFICES ASSUME 1..(Cardinality(used) + 1) \subseteq used PROVE FALSE
    OBVIOUS
  <2>2. Cardinality(1..(Cardinality(used) + 1)) = Cardinality(used) + 1
    BY <1>4, FS_Interval
  <2>3. Cardinality(1..(Cardinality(used) + 1)) <= Cardinality(used)
    BY <1>4, <2>1, FS_Subset
  <2>. QED
    BY <1>4, <2>2, <2>3
<1>6. NewMap(s) = CHOOSE n \in 1..(Cardinality(used) + 1) : n \notin used
  BY DEF NewMap, used
<1>. QED
  BY <1>4, <1>5, <1>6

LEMMA NoFieldsTyped == NoFields \in FieldEntry
  BY FS_EmptySet DEF NoFields, FieldEntry

LEMMA FieldAndMap ==
  ASSUME NEW s \in Listener, NEW f \in FieldEntry, NEW m \in Nat
  PROVE  Remaps(s, [s EXCEPT !.field = f, !.typemap = m])
  BY DEF Live, Listener, Remaps, SameScope, SameTypes, SamePaths

LEMMA FreshTypemapRemaps ==
  ASSUME NEW s \in Listener
  PROVE  Remaps(s, FreshTypemap(s))
<1>1. [s EXCEPT !.field = NoFields] \in Listener
  BY NoFieldsTyped, FieldStays DEF Stays
<1>. QED
  BY <1>1, NewMapExists, NoFieldsTyped, FieldAndMap DEF FreshTypemap

LEMMA PushTypePushes ==
  ASSUME NEW s \in Listener, NEW kind \in {"tuple", "relation", "oneof", "empty"}
  PROVE  PushesType(s, PushType(s, kind))
<1>. DEFINE m == NewMap(s)
            e == [kind |-> kind, map |-> m, noted |-> FALSE]
            new == Append(s.types, e)
<1>1. m \in Nat
  BY NewMapExists
<1>. HIDE DEF m
<1>2. e \in TypeEntry /\ e.map = m
  BY <1>1 DEF TypeEntry
<1>3. s.types \in Seq(TypeEntry)
  BY ListenerTypes
<1>. HIDE DEF e
<1>4. /\ new \in Seq(TypeEntry) /\ Len(new) = Len(s.types) + 1
      /\ new[Len(s.types) + 1].map = m
      /\ \A i \in 1..Len(s.types) : new[i].map = s.types[i].map
  BY <1>2, <1>3
<1>. HIDE DEF new
<1>5. PushesType(s, [s EXCEPT !.types = new, !.typemap = m])
  BY <1>1, <1>4 DEF Live, Listener, PushesType, PushedType, SameScope, SamePaths
<1>. QED
  BY <1>5 DEF PushType, new, e, m

LEMMA PopOfTypes ==
  ASSUME NEW ty \in Seq(TypeEntry)
  PROVE  /\ Pop(ty) \in Seq(TypeEntry)
         /\ Len(Pop(ty)) = IF ty = <<>> THEN 0 ELSE Len(ty) - 1
         /\ \A i \in 1..Len(Pop(ty)) : Pop(ty)[i] = ty[i]
  BY DEF Pop

\* The type that was open is over: its fields are forgotten, and the map is m.
LEMMA TypePopped ==
  ASSUME NEW s \in Listener, NEW f \in FieldEntry, NEW m \in Nat
  PROVE  LET t == [s EXCEPT !.types = Pop(@), !.field = f, !.typemap = m]
         IN  /\ t \in Listener
             /\ Live(t) => /\ Live(s)
                           /\ SameScope(s, t)
                           /\ PoppedType(s, t) /\ t.typemap = m
                           /\ SamePaths(s, t) /\ t.endpoint = s.endpoint
<1>. DEFINE new == Pop(s.types)
<1>1. s.types \in Seq(TypeEntry)
  BY ListenerTypes
<1>2. /\ new \in Seq(TypeEntry)
      /\ Len(new) = IF s.types = <<>> THEN 0 ELSE Len(s.types) - 1
      /\ \A i \in 1..Len(new) : new[i] = s.types[i]
  BY <1>1, PopOfTypes
<1>. HIDE DEF new
<1>3. LET t == [s EXCEPT !.types = new, !.field = f, !.typemap = m]
      IN  /\ t \in Listener
          /\ Live(t) => /\ Live(s)
                        /\ SameScope(s, t)
                        /\ PoppedType(s, t) /\ t.typemap = m
                        /\ SamePaths(s, t) /\ t.endpoint = s.endpoint
  BY <1>2 DEF Live, Listener, PoppedType, SameScope, SamePaths
<1>. QED
  BY <1>3 DEF new

\* The innermost type, or scope, changes in what nobody counts.
LEMMA TypesStay ==
  ASSUME NEW s \in Listener, NEW ty \in Seq(TypeEntry), Len(ty) = Len(s.types),
         \A i \in 1..Len(s.types) : ty[i].map = s.types[i].map
  PROVE  Stays(s, [s EXCEPT !.types = ty])
  BY DEF Live, Listener, Stays, SameScope, SameTypes, SamePaths

LEMMA TypeEntryUpdates ==
  ASSUME NEW p \in TypeEntry
  PROVE  /\ \A k \in {"tuple", "relation", "oneof", "empty"} :
              [p EXCEPT !.kind = k] \in TypeEntry /\ [p EXCEPT !.kind = k].map = p.map
         /\ \A b \in BOOLEAN :
              [p EXCEPT !.noted = b] \in TypeEntry /\ [p EXCEPT !.noted = b].map = p.map
  BY DEF TypeEntry

LEMMA TopOfTypes ==
  ASSUME NEW ty \in Seq(TypeEntry), NEW e,
         ty # <<>> => e \in TypeEntry /\ e.map = ty[Len(ty)].map
  PROVE  LET new == [ty EXCEPT ![Len(ty)] = e]
         IN  /\ new \in Seq(TypeEntry) /\ Len(new) = Len(ty)
             /\ \A i \in 1..Len(ty) : new[i].map = ty[i].map
<1>1. CASE ty = <<>>
  <2>1. [ty EXCEPT ![Len(ty)] = e] = ty
    BY <1>1
  <2>. QED
    BY <2>1
<1>2. CASE ty # <<>>
  BY <1>2
<1>. QED
  BY <1>1, <1>2

LEMMA EmptyTypeStays ==
  ASSUME NEW s \in Listener
  PROVE  Stays(s, EmptyType(s))
<1>. DEFINE e == [s.types[Len(s.types)] EXCEPT !.kind = "empty"]
<1>1. s.types \in Seq(TypeEntry)
  BY ListenerTypes
<1>2. s.types # <<>> => e \in TypeEntry /\ e.map = s.types[Len(s.types)].map
  <2>1. SUFFICES ASSUME s.types # <<>> PROVE e \in TypeEntry /\ e.map = s.types[Len(s.types)].map
    OBVIOUS
  <2>2. s.types[Len(s.types)] \in TypeEntry
    BY <1>1, <2>1
  <2>. QED
    BY <2>2, TypeEntryUpdates
<1>. HIDE DEF e
<1>3. Stays(s, [s EXCEPT !.types = [s.types EXCEPT ![Len(s.types)] = e]])
  BY SMTT(60), <1>1, <1>2, TopOfTypes, TypesStay
<1>. QED
  BY <1>3 DEF EmptyType, e

LEMMA NotedStays ==
  ASSUME NEW s \in Listener
  PROVE  Stays(s, [s EXCEPT !.types[Len(s.types)].noted = TRUE])
<1>. DEFINE e == [s.types[Len(s.types)] EXCEPT !.noted = TRUE]
<1>1. s.types \in Seq(TypeEntry)
  BY ListenerTypes
<1>2. s.types # <<>> => e \in TypeEntry /\ e.map = s.types[Len(s.types)].map
  <2>1. SUFFICES ASSUME s.types # <<>> PROVE e \in TypeEntry /\ e.map = s.types[Len(s.types)].map
    OBVIOUS
  <2>2. s.types[Len(s.types)] \in TypeEntry
    BY <1>1, <2>1
  <2>. QED
    BY <2>2, TypeEntryUpdates
<1>. HIDE DEF e
<1>3. Stays(s, [s EXCEPT !.types = [s.types EXCEPT ![Len(s.types)] = e]])
  BY SMTT(60), <1>1, <1>2, TopOfTypes, TypesStay
<1>. QED
  BY <1>3 DEF e

LEMMA TypeAttrsStays ==
  ASSUME NEW s \in Listener
  PROVE  Stays(s, TypeAttrs(s)) /\ TypeAttrs(s).types = s.types
<1>. DEFINE e == [s.scope[Len(s.scope)] EXCEPT !.attrs = TRUE]
            sc == [s.scope EXCEPT ![Len(s.scope)] = e]
<1>1. s.scope \in Seq(ScopeEntry)
  BY ListenerTypes
<1>2. s.scope # <<>> => e \in ScopeEntry /\ e.by = s.scope[Len(s.scope)].by
  <2>1. SUFFICES ASSUME s.scope # <<>> PROVE e \in ScopeEntry /\ e.by = s.scope[Len(s.scope)].by
    OBVIOUS
  <2>2. s.scope[Len(s.scope)] \in ScopeEntry
    BY <1>1, <2>1
  <2>. QED
    BY <2>2, EntryUpdates
<1>. HIDE DEF e
<1>3. /\ sc \in Seq(ScopeEntry) /\ Len(sc) = Len(s.scope)
      /\ \A i \in 1..Len(s.scope) : sc[i].by = s.scope[i].by
  <2>1. CASE s.scope = <<>>
    <3>1. sc = s.scope
      BY <1>1, <2>1
    <3>. QED
      BY <1>1, <3>1
  <2>2. CASE s.scope # <<>>
    BY <1>1, <1>2, <2>2, TopOfScope
  <2>. QED
    BY <2>1, <2>2
<1>. HIDE DEF sc
<1>4. Stays(s, [s EXCEPT !.scope = sc])
  BY <1>3, ScopeStays
<1>5. [s EXCEPT !.scope = sc].types = s.types
  BY DEF Listener
<1>. QED
  BY <1>4, <1>5 DEF TypeAttrs, sc, e

-----------------------------------------------------------------------------
\* The callbacks that leave the stacks as they are

LEMMA TypeCallbacksStay ==
  ASSUME NEW s \in Listener, NEW w
  PROVE  /\ Stays(s, EnterReference(s))
         /\ Stays(s, ExitReference(s))
         /\ Stays(s, EnterTypes(s, w))
         /\ Stays(s, EnterUser_defined_type(s))
         /\ Stays(s, EnterField(s))
         /\ Stays(s, ExitField(s, w))
         /\ Stays(s, EnterTable_stmts(s, w))
         /\ Stays(s, EnterTable_def(s, w))
         /\ Stays(s, EnterAnnotation(s))
         /\ Stays(s, EnterAnnotation_value(s))
         /\ Stays(s, ExitHttp_path_var_with_type(s, w))
         /\ Stays(s, EnterParam(s, w))
         /\ Stays(s, ExitParam(s, w))
<1>1. Stays(s, EnterReference(s))
  BY CurrentTypeStays DEF EnterReference, Callbacks
<1>2. Stays(s, ExitReference(s))
  BY CurrentTypeStays DEF ExitReference, Callbacks
<1>3. Stays(s, EnterTypes(s, w))
  <2>. DEFINE u == CurrentType(s, "EnterTypes")
              prim == IF Has(w, "Sized") THEN "sized" ELSE "unsized"
  <2>1. Stays(s, u)
    BY CurrentTypeStays DEF Callbacks
  <2>2. Stays(s, SomeField(s, "EnterTypes"))
    BY SomeFieldStays DEF Callbacks
  <2>3. prim \in {"", "sized", "unsized", "nativeSet"}
    OBVIOUS
  <2>. HIDE DEF u, prim
  <2>4. Stays(u, [u EXCEPT !.field.prim = prim])
    BY <2>1, <2>3, PrimStays DEF Stays
  <2>5. Stays(s, [u EXCEPT !.field.prim = prim])
    BY <2>1, <2>4, StaysOn
  <2>. QED
    BY <2>2, <2>5 DEF EnterTypes, u, prim
<1>4. Stays(s, EnterUser_defined_type(s))
  BY StaysItself, CurrentTypeStays DEF EnterUser_defined_type, Callbacks
<1>5. Stays(s, EnterField(s))
  BY AddFieldStays DEF EnterField, Callbacks
<1>6. Stays(s, ExitField(s, w))
  <2>1. Stays(s, [s EXCEPT !.field.prim = ""])
    BY PrimStays
  <2>2. "ExitField" \in Callbacks
    BY SMT DEF Callbacks
  <2>. QED
    BY <2>1, <2>2, StaysItself, PanicStays DEF ExitField
<1>7. Stays(s, EnterTable_stmts(s, w))
  <2>. DEFINE a == IF Has(w, "annotation")
                     THEN [TypeAttrs(s) EXCEPT !.types[Len(s.types)].noted = TRUE] ELSE s
  <2>1. Stays(s, a)
    <3>. DEFINE u == TypeAttrs(s)
    <3>1. Stays(s, u) /\ u.types = s.types
      BY TypeAttrsStays
    <3>. HIDE DEF u
    <3>2. Stays(u, [u EXCEPT !.types[Len(u.types)].noted = TRUE])
      BY <3>1, NotedStays DEF Stays
    <3>3. Stays(s, [u EXCEPT !.types[Len(s.types)].noted = TRUE])
      BY <3>1, <3>2, StaysOn
    <3>. QED
      BY <3>3, StaysItself DEF u
  <2>. HIDE DEF a
  <2>2. Stays(s, EmptyType(a))
    BY <2>1, EmptyTypeStays, StaysOn DEF Stays
  <2>. QED
    BY <2>1, <2>2 DEF EnterTable_stmts, a
<1>8. Stays(s, EnterTable_def(s, w))
  <2>. DEFINE a == IF Has(w, "attribs_or_modifiers") THEN TypeAttrs(s) ELSE s
  <2>1. Stays(s, a)
    BY TypeAttrsStays, StaysItself
  <2>. HIDE DEF a
  <2>2. Stays(s, EmptyType(a))
    BY <2>1, EmptyTypeStays, StaysOn DEF Stays
  <2>. QED
    BY <2>1, <2>2 DEF EnterTable_def, a
<1>9. Stays(s, EnterAnnotation(s))
  BY peekAttrsStays, PanicStays DEF EnterAnnotation, Callbacks
<1>10. Stays(s, EnterAnnotation_value(s))
  BY peekAttrsStays DEF EnterAnnotation_value
<1>11. Stays(s, ExitHttp_path_var_with_type(s, w))
  BY StaysItself, CurrentTypeStays DEF ExitHttp_path_var_with_type, Callbacks
<1>12. Stays(s, EnterParam(s, w))
  BY StaysItself, AddFieldStays DEF EnterParam, Callbacks
<1>13. Stays(s, ExitParam(s, w))
  <2>. DEFINE u == IF Has(w, "reference") THEN CurrentType(s, "ExitParam") ELSE SomeField(s, "ExitParam")
              set == u.nativeSet \/ s.field.prim = "nativeSet"
  <2>1. Stays(s, u)
    BY CurrentTypeStays, SomeFieldStays DEF Callbacks
  <2>2. set \in BOOLEAN
    OBVIOUS
  <2>. HIDE DEF u, set
  <2>3. Stays(u, [u EXCEPT !.nativeSet = set])
    BY <2>1, <2>2, FlagsStay DEF Stays
  <2>4. Stays(s, [u EXCEPT !.nativeSet = set])
    BY <2>1, <2>3, StaysOn
  <2>. QED
    BY <2>4 DEF ExitParam, u, set
<1>. QED
  BY <1>1, <1>2, <1>3, <1>4, <1>5, <1>6, <1>7, <1>8, <1>9, <1>10, <1>11, <1>12, <1>13

LEMMA StatementCallbacksStay ==
  ASSUME NEW s \in Listener, NEW w
  PROVE  /\ Stays(s, EnterRet_stmt(s))
         /\ Stays(s, EnterCall_stmt(s))
         /\ Stays(s, ExitTarget(s))
         /\ Stays(s, ExitSubscriber(s))
         /\ Stays(s, EnterCall_arg(s))
         /\ Stays(s, EnterCollector_call_stmt(s))
         /\ Stays(s, EnterCollector_pubsub_call(s))
         /\ Stays(s, EnterCollector_http_stmt(s))
         /\ Stays(s, EnterCollector_action_stmt(s))
         /\ Stays(s, EnterText_stmt(s, w))
         /\ Stays(s, EnterDoc_string(s))
         /\ Stays(s, ExitStatements(s, w))
<1>1. Stays(s, EnterRet_stmt(s))
  BY addToCurrentScopeStays DEF EnterRet_stmt, Statements
<1>2. Stays(s, EnterCall_stmt(s))
  BY addToCurrentScopeStays DEF EnterCall_stmt, Statements
<1>3. Stays(s, ExitTarget(s))
  BY lastStatementStays DEF ExitTarget, Callbacks
<1>4. Stays(s, ExitSubscriber(s))
  BY lastStatementStays DEF ExitSubscriber, Callbacks
<1>5. Stays(s, EnterCall_arg(s))
  BY lastStatementStays DEF EnterCall_arg, Callbacks
<1>6. Stays(s, EnterCollector_call_stmt(s))
  BY addToCurrentScopeStays DEF EnterCollector_call_stmt, Statements
<1>7. Stays(s, EnterCollector_pubsub_call(s))
  BY addToCurrentScopeStays DEF EnterCollector_pubsub_call, Statements
<1>8. Stays(s, EnterCollector_http_stmt(s))
  BY addToCurrentScopeStays DEF EnterCollector_http_stmt, Statements
<1>9. Stays(s, EnterCollector_action_stmt(s))
  BY addToCurrentScopeStays DEF EnterCollector_action_stmt, Statements
<1>10. Stays(s, EnterText_stmt(s, w))
  <2>. DEFINE pending == [s EXCEPT !.pendingDocString = TRUE]
              added == IF TopKind(s) \in Blocks /\ Top(s.scope).last = "text" THEN pending
                       ELSE addToCurrentScope(pending, "text")
              action == addToCurrentScope(s, "action")
  <2>1. Stays(s, pending)
    BY FlagsStay
  <2>2. Stays(s, action)
    BY addToCurrentScopeStays DEF Statements
  <2>. HIDE DEF pending, action
  <2>3. Stays(pending, addToCurrentScope(pending, "text"))
    BY <2>1, addToCurrentScopeStays DEF Stays, Statements
  <2>4. Stays(s, added)
    BY <2>1, <2>3, StaysOn
  <2>. HIDE DEF added
  <2>5. Stays(s, DocStringOf(pending, added, "EnterText_stmt"))
    <3>1. Stays(pending, Panic(pending, "EnterText_stmt"))
      BY <2>1, PanicStays DEF Stays, Callbacks
    <3>2. Stays(s, Panic(pending, "EnterText_stmt"))
      BY <2>1, <3>1, StaysOn
    <3>. QED
      BY <2>1, <2>4, <3>2 DEF DocStringOf
  <2>6. Stays(action, [action EXCEPT !.pendingDocString = FALSE])
    BY <2>2, FlagsStay DEF Stays
  <2>7. Stays(s, [action EXCEPT !.pendingDocString = FALSE])
    BY <2>2, <2>6, StaysOn
  <2>. QED
    BY <2>5, <2>7 DEF EnterText_stmt, pending, added, action
<1>11. Stays(s, EnterDoc_string(s))
  <2>. DEFINE taken == [s EXCEPT !.pendingDocString = FALSE]
              last == lastStatement(taken, {"text", "action"}, "EnterDoc_string")
  <2>1. Stays(s, taken)
    BY FlagsStay
  <2>. HIDE DEF taken
  <2>2. Stays(taken, last) /\ Stays(taken, Panic(taken, "EnterDoc_string"))
    BY <2>1, lastStatementStays, PanicStays DEF Stays, Callbacks
  <2>3. Stays(s, last) /\ Stays(s, Panic(taken, "EnterDoc_string"))
    BY <2>1, <2>2, StaysOn
  <2>. HIDE DEF last
  <2>4. Stays(s, DocStringOf(taken, last, "EnterDoc_string"))
    BY <2>1, <2>3 DEF DocStringOf
  <2>. QED
    BY <2>4, peekAttrsStays DEF EnterDoc_string, taken, last
<1>12. Stays(s, ExitStatements(s, w))
  BY StaysItself, lastStatementStays DEF ExitStatements, Callbacks
<1>. QED
  BY <1>1, <1>2, <1>3, <1>4, <1>5, <1>6, <1>7, <1>8, <1>9, <1>10, <1>11, <1>12

LEMMA RelationalCallbacksStay ==
  ASSUME NEW s \in Listener, NEW w
  PROVE  /\ Stays(s, ExitFunc_arg(s))
         /\ Stays(s, ExitRank_expr(s))
         /\ Stays(s, EnterExpr_rank_func(s))
         /\ Stays(s, ExitExpr_rank_func(s))
         /\ Stays(s, EnterExpr_agg_func(s))
         /\ Stays(s, ExitExpr_agg_func(s))
         /\ Stays(s, ExitE_scope_var(s))
         /\ Stays(s, ExitFirst_func_target(s, w))
         /\ Stays(s, EnterExpr_first_func(s))
         /\ Stays(s, ExitExpr_first_func(s))
         /\ Stays(s, ExitE_single_arg_func(s))
         /\ Stays(s, ExitExpr_single_arg_func(s))
         /\ Stays(s, ExitExpr_any_func(s))
         /\ Stays(s, ExitExpr_single_or_null(s))
         /\ Stays(s, ExitExpr_snapshot(s))
         /\ Stays(s, ExitExpr_count(s))
         /\ Stays(s, ExitExpr_table_of_op(s))
         /\ Stays(s, EnterExpr_navigate(s))
         /\ Stays(s, ExitExpr_navigate_attr(s))
         /\ Stays(s, EnterMatching_rhs(s, w))
         /\ Stays(s, ExitMatching_rhs(s, w))
         /\ Stays(s, EnterSquiggly_args(s))
         /\ Stays(s, EnterExpr_matching(s))
         /\ Stays(s, ExitExpr_matching(s))
<1>1. Stays(s, ExitFunc_arg(s))
  BY PutIntoStays DEF ExitFunc_arg, Callbacks
<1>2. Stays(s, ExitRank_expr(s))
  BY PutIntoStays DEF ExitRank_expr, Callbacks
<1>3. Stays(s, EnterExpr_rank_func(s))
  <2>. DEFINE u == Combine(s, 1, "relexpr", "EnterExpr_rank_func")
  <2>1. Stays(s, u)
    BY CombineStays DEF AnyExpr, Callbacks
  <2>. HIDE DEF u
  <2>2. Stays(u, AddField(u, "EnterExpr_rank_func"))
    BY <2>1, AddFieldStays DEF Stays, Callbacks
  <2>. QED
    BY <2>1, <2>2, StaysOn DEF EnterExpr_rank_func, u
<1>4. Stays(s, ExitExpr_rank_func(s))
  <2>. DEFINE u == SomeField(s, "ExitExpr_rank_func")
  <2>1. Stays(s, u)
    BY SomeFieldStays DEF Callbacks
  <2>. HIDE DEF u
  <2>2. Stays(u, TopExpr(u, {"relexpr"}, "ExitExpr_rank_func"))
    BY <2>1, TopExprStays DEF Stays, Callbacks
  <2>. QED
    BY <2>1, <2>2, StaysOn DEF ExitExpr_rank_func, u
<1>5. Stays(s, EnterExpr_agg_func(s))
  BY CombineStays DEF EnterExpr_agg_func, AnyExpr, Callbacks
<1>6. Stays(s, ExitExpr_agg_func(s))
  BY TopExprStays DEF ExitExpr_agg_func, Callbacks
<1>7. Stays(s, ExitE_scope_var(s))
  BY TopExprStays DEF ExitE_scope_var, Callbacks
<1>8. Stays(s, ExitFirst_func_target(s, w))
  BY TopExprStays, PutIntoStays DEF ExitFirst_func_target, Callbacks
<1>9. Stays(s, EnterExpr_first_func(s))
  BY CombineStays DEF EnterExpr_first_func, AnyExpr, Callbacks
<1>10. Stays(s, ExitExpr_first_func(s))
  BY TopExprStays DEF ExitExpr_first_func, Callbacks
<1>11. Stays(s, ExitE_single_arg_func(s))
  BY PushExprStays DEF ExitE_single_arg_func, AnyExpr
<1>12. Stays(s, ExitExpr_single_arg_func(s))
  <2>. DEFINE c == "ExitExpr_single_arg_func"
              u == popExprs(s, 1, c)
              v == TopExpr(u, {"binexpr"}, c)
  <2>0. c \in Callbacks
    BY DEF Callbacks
  <2>1. Stays(s, u)
    BY <2>0, popExprsStays
  <2>. HIDE DEF u
  <2>2. Stays(u, v)
    BY <2>0, <2>1, TopExprStays DEF Stays
  <2>. HIDE DEF v
  <2>3. Stays(v, Combine(v, 2, "binexpr", c))
    BY <2>0, <2>2, CombineStays DEF Stays, AnyExpr
  <2>4. Stays(s, Combine(v, 2, "binexpr", c))
    BY <2>1, <2>2, <2>3, StaysOn
  <2>. QED
    BY <2>4 DEF ExitExpr_single_arg_func, u, v
<1>13. Stays(s, ExitExpr_any_func(s))
  BY CombineStays DEF ExitExpr_any_func, AnyExpr, Callbacks
<1>14. Stays(s, ExitExpr_single_or_null(s))
  BY CombineStays DEF ExitExpr_single_or_null, AnyExpr, Callbacks
<1>15. Stays(s, ExitExpr_snapshot(s))
  BY CombineStays DEF ExitExpr_snapshot, AnyExpr, Callbacks
<1>16. Stays(s, ExitExpr_count(s))
  BY CombineStays DEF ExitExpr_count, AnyExpr, Callbacks
<1>17. Stays(s, ExitExpr_table_of_op(s))
  BY CombineStays DEF ExitExpr_table_of_op, AnyExpr, Callbacks
<1>18. Stays(s, EnterExpr_navigate(s))
  BY CombineStays DEF EnterExpr_navigate, AnyExpr, Callbacks
<1>19. Stays(s, ExitExpr_navigate_attr(s))
  BY TopExprStays DEF ExitExpr_navigate_attr, Callbacks
<1>20. Stays(s, EnterMatching_rhs(s, w))
  BY StaysItself, PushExprStays DEF EnterMatching_rhs, AnyExpr
<1>21. Stays(s, ExitMatching_rhs(s, w))
  BY StaysItself, PushExprStays DEF ExitMatching_rhs, AnyExpr
<1>22. Stays(s, EnterSquiggly_args(s))
  BY TopExprStays DEF EnterSquiggly_args, Callbacks
<1>23. Stays(s, EnterExpr_matching(s))
  BY CombineStays DEF EnterExpr_matching, AnyExpr, Callbacks
<1>24. Stays(s, ExitExpr_matching(s))
  BY PutIntoStays DEF ExitExpr_matching, Callbacks
<1>. QED
  BY <1>1, <1>2, <1>3, <1>4, <1>5, <1>6, <1>7, <1>8, <1>9, <1>10, <1>11, <1>12, <1>13, <1>14,
     <1>15, <1>16, <1>17, <1>18, <1>19, <1>20, <1>21, <1>22, <1>23, <1>24

LEMMA AtomCallbacksStay ==
  ASSUME NEW s \in Listener, NEW w
  PROVE  /\ Stays(s, ExitLiteral(s))
         /\ Stays(s, EnterExpr_func(s))
         /\ Stays(s, EnterExpr_set(s))
         /\ Stays(s, EnterExpr_atom_list(s))
         /\ Stays(s, ExitList_item(s))
         /\ Stays(s, ExitExpr_list(s))
         /\ Stays(s, ExitEmpty_tuple(s))
         /\ Stays(s, EnterAtomT_implied_dot(s))
         /\ Stays(s, ExitAtomT_name(s))
         /\ Stays(s, ExitPower(s, w))
         /\ Stays(s, ExitUnaryTerm(s, w))
         /\ Stays(s, ExitTermT(s))
         /\ Stays(s, ExitBinexprT(s))
         /\ Stays(s, ExitIf_one_liner(s))
         /\ Stays(s, EnterIf_multiple_lines(s, w))
         /\ Stays(s, ExitIfvar(s))
         /\ Stays(s, ExitControl_item(s))
         /\ Stays(s, ExitElse_block_stmt(s))
         /\ Stays(s, ExitFinal_else(s))
<1>1. Stays(s, ExitLiteral(s))
  BY PushExprStays DEF ExitLiteral, AnyExpr
<1>2. Stays(s, EnterExpr_func(s))
  BY PushExprStays DEF EnterExpr_func, AnyExpr
<1>3. Stays(s, EnterExpr_set(s))
  BY PushExprStays DEF EnterExpr_set, AnyExpr
<1>4. Stays(s, EnterExpr_atom_list(s))
  BY PushExprStays DEF EnterExpr_atom_list, AnyExpr
<1>5. Stays(s, ExitList_item(s))
  BY PutIntoStays DEF ExitList_item, Callbacks
<1>6. Stays(s, ExitExpr_list(s))
  BY TopExprStays DEF ExitExpr_list, Callbacks
<1>7. Stays(s, ExitEmpty_tuple(s))
  BY PushExprStays DEF ExitEmpty_tuple, AnyExpr
<1>8. Stays(s, EnterAtomT_implied_dot(s))
  BY PushExprStays DEF EnterAtomT_implied_dot, AnyExpr
<1>9. Stays(s, ExitAtomT_name(s))
  BY PushExprStays DEF ExitAtomT_name, AnyExpr
<1>10. Stays(s, ExitPower(s, w))
  BY StaysItself, CombineStays DEF ExitPower, AnyExpr, Callbacks
<1>11. Stays(s, ExitUnaryTerm(s, w))
  BY StaysItself, CombineStays DEF ExitUnaryTerm, AnyExpr, Callbacks
<1>12. Stays(s, ExitTermT(s))
  BY CombineStays DEF ExitTermT, AnyExpr, Callbacks
<1>13. Stays(s, ExitBinexprT(s))
  BY CombineStays DEF ExitBinexprT, AnyExpr, Callbacks
<1>14. Stays(s, ExitIf_one_liner(s))
  BY CombineStays DEF ExitIf_one_liner, AnyExpr, Callbacks
<1>15. Stays(s, EnterIf_multiple_lines(s, w))
  BY PushExprStays DEF EnterIf_multiple_lines, AnyExpr
<1>16. Stays(s, ExitIfvar(s))
  <2>. DEFINE u == PutInto(s, {"ifvar", "ifelse"}, "ExitIfvar")
  <2>1. Stays(s, u)
    BY PutIntoStays DEF Callbacks
  <2>. HIDE DEF u
  <2>2. Stays(u, Combine(u, 1, "ifelse", "ExitIfvar"))
    <3>1. u \in Listener
      BY <2>1 DEF Stays
    <3>. QED
      BY <3>1, CombineStays DEF AnyExpr, Callbacks
  <2>. QED
    BY <2>1, <2>2, StaysOn DEF ExitIfvar, u
<1>17. Stays(s, ExitControl_item(s))
  BY PutIntoStays DEF ExitControl_item, Callbacks
<1>18. Stays(s, ExitElse_block_stmt(s))
  BY PutIntoStays DEF ExitElse_block_stmt, Callbacks
<1>19. Stays(s, ExitFinal_else(s))
  BY PutIntoStays DEF ExitFinal_else, Callbacks
<1>. QED
  BY <1>1, <1>2, <1>3, <1>4, <1>5, <1>6, <1>7, <1>8, <1>9, <1>10, <1>11, <1>12, <1>13, <1>14,
     <1>15, <1>16, <1>17, <1>18, <1>19

LEMMA TransformCallbacksStay ==
  ASSUME NEW s \in Listener, NEW w
  PROVE  /\ Stays(s, ExitExpr_simple_assign(s))
         /\ Stays(s, ExitExpr_let_statement(s))
         /\ Stays(s, ExitExpr_table_of_statement(s))
         /\ Stays(s, ExitExpr_dot_assign(s))
         /\ Stays(s, ExitExpr_inject_stmt(s))
         /\ Stays(s, ExitTemplate_expression(s, w))
         /\ Stays(s, EnterTemplate_statement(s, w))
         /\ Stays(s, ExitTemplate_statement(s))
         /\ Stays(s, EnterTransform(s))
         /\ Stays(s, ExitTransform_arg(s))
         /\ Stays(s, EnterTransform_scope_var(s))
         /\ Stays(s, EnterTransform_return_type(s, w))
         /\ Stays(s, ExitTransform_return_type(s, w))
         /\ Stays(s, ExitTransform(s))
         /\ Stays(s, EnterView_param(s))
         /\ Stays(s, ExitView_param(s))
         /\ Stays(s, EnterView_return_type(s))
         /\ Stays(s, ExitView_type_spec(s))
<1>1. Stays(s, ExitExpr_simple_assign(s))
  BY PutIntoStays DEF ExitExpr_simple_assign, Callbacks
<1>2. Stays(s, ExitExpr_let_statement(s))
  BY PutIntoStays DEF ExitExpr_let_statement, Callbacks
<1>3. Stays(s, ExitExpr_table_of_statement(s))
  BY PutIntoStays DEF ExitExpr_table_of_statement, Callbacks
<1>4. Stays(s, ExitExpr_dot_assign(s))
  BY TopExprStays DEF ExitExpr_dot_assign, Callbacks
<1>5. Stays(s, ExitExpr_inject_stmt(s))
  <2>. DEFINE u == TopExpr(s, {"call"}, "ExitExpr_inject_stmt")
  <2>1. Stays(s, u)
    BY TopExprStays DEF Callbacks
  <2>. HIDE DEF u
  <2>2. Stays(u, PutInto(u, {"transform"}, "ExitExpr_inject_stmt"))
    BY <2>1, PutIntoStays DEF Stays, Callbacks
  <2>. QED
    BY <2>1, <2>2, StaysOn DEF ExitExpr_inject_stmt, u
<1>6. Stays(s, ExitTemplate_expression(s, w))
  <2>. DEFINE c == "ExitTemplate_expression"
              u == IF Has(w, "TMPL_TEXT") THEN s ELSE popExprs(s, 1, c)
              v == TopExpr(u, AnyExpr, c)
              x == IF TopIs(v, {"transform"}) THEN v ELSE popExprs(v, 1, c)
  <2>0. c \in Callbacks
    BY DEF Callbacks
  <2>1. Stays(s, u)
    BY <2>0, StaysItself, popExprsStays
  <2>. HIDE DEF u
  <2>2. Stays(u, v)
    BY <2>0, <2>1, TopExprStays DEF Stays
  <2>. HIDE DEF v
  <2>3. Stays(v, x)
    BY <2>0, <2>2, StaysItself, popExprsStays DEF Stays
  <2>. HIDE DEF x
  <2>4. Stays(x, PushExpr(x, "binexpr"))
    BY <2>3, PushExprStays DEF Stays, AnyExpr
  <2>5. Stays(s, PushExpr(x, "binexpr"))
    BY <2>1, <2>2, <2>3, <2>4, StaysOn
  <2>. QED
    BY <2>5 DEF ExitTemplate_expression, u, v, x
<1>7. Stays(s, EnterTemplate_statement(s, w))
  BY StaysItself, PushExprStays DEF EnterTemplate_statement, AnyExpr
<1>8. Stays(s, ExitTemplate_statement(s))
  BY PutIntoStays DEF ExitTemplate_statement, Callbacks
<1>9. Stays(s, EnterTransform(s))
  BY PushExprStays DEF EnterTransform, AnyExpr
<1>10. Stays(s, ExitTransform_arg(s))
  BY PutIntoStays DEF ExitTransform_arg, Callbacks
<1>11. Stays(s, EnterTransform_scope_var(s))
  BY TopExprStays DEF EnterTransform_scope_var, Callbacks
<1>12. Stays(s, EnterTransform_return_type(s, w))
  BY StaysItself, AddFieldStays DEF EnterTransform_return_type, Callbacks
<1>13. Stays(s, ExitTransform_return_type(s, w))
  <2>. DEFINE u == SomeField(s, "ExitTransform_return_type")
  <2>1. Stays(s, u)
    BY SomeFieldStays DEF Callbacks
  <2>. HIDE DEF u
  <2>2. Stays(u, TopExpr(u, AnyExpr, "ExitTransform_return_type"))
    BY <2>1, TopExprStays DEF Stays, Callbacks
  <2>3. Stays(s, TopExpr(u, AnyExpr, "ExitTransform_return_type"))
    BY <2>1, <2>2, StaysOn
  <2>. QED
    BY <2>3, StaysItself DEF ExitTransform_return_type, u
<1>14. Stays(s, ExitTransform(s))
  BY TopExprStays DEF ExitTransform, Callbacks
<1>15. Stays(s, EnterView_param(s))
  BY AddFieldStays DEF EnterView_param, Callbacks
<1>16. Stays(s, ExitView_param(s))
  BY SomeFieldStays DEF ExitView_param, Callbacks
<1>17. Stays(s, EnterView_return_type(s))
  <2>. DEFINE u == AddField(s, "EnterView_return_type")
  <2>1. Stays(s, u)
    BY AddFieldStays DEF Callbacks
  <2>. HIDE DEF u
  <2>2. Stays(u, [u EXCEPT !.returns = TRUE])
    BY <2>1, FlagsStay DEF Stays
  <2>. QED
    BY <2>1, <2>2, StaysOn DEF EnterView_return_type, u
<1>18. Stays(s, ExitView_type_spec(s))
  BY SomeFieldStays DEF ExitView_type_spec, Callbacks
<1>. QED
  BY <1>1, <1>2, <1>3, <1>4, <1>5, <1>6, <1>7, <1>8, <1>9, <1>10, <1>11, <1>12, <1>13, <1>14,
     <1>15, <1>16, <1>17, <1>18

LEMMA reverseOpStays ==
  ASSUME NEW s \in Listener, NEW w, Len(w) \in Nat, NEW c \in Callbacks
  PROVE  Stays(s, reverseOp(s, w, c))
  BY StaysItself, CombineStays DEF reverseOp, AnyExpr

-----------------------------------------------------------------------------
\* The callbacks that open or close a scope or a type

LEMMA StaysThenPushesType ==
  ASSUME NEW s, NEW t, NEW u, Stays(s, t), PushesType(t, u)
  PROVE  PushesType(s, u)
  BY DEF Stays, PushesType, SameScope, PushedType, SameTypes, SamePaths

LEMMA PushesTypeThenStays ==
  ASSUME NEW s, NEW t, NEW u, s \in Listener, PushesType(s, t), Stays(t, u)
  PROVE  PushesType(s, u)
<1>1. s.types \in Seq(TypeEntry)
  BY ListenerTypes
<1>. QED
  BY <1>1 DEF Stays, PushesType, SameScope, PushedType, SameTypes, SamePaths

LEMMA PushesTypeThenPushes ==
  ASSUME NEW s, NEW t, NEW u, NEW r, s \in Listener, PushesType(s, t), Pushes(t, u, r)
  PROVE  PushesBoth(s, u, r)
<1>1. s.types \in Seq(TypeEntry)
  BY ListenerTypes
<1>2. SUFFICES ASSUME Live(u) PROVE PushesBoth(s, u, r)
  BY DEF Pushes, PushesBoth
<1>3. /\ Live(s) /\ SameScope(s, t) /\ PushedType(s, t) /\ SamePaths(s, t) /\ t.endpoint = s.endpoint
      /\ PushedScope(t, u, r) /\ SameTypes(t, u) /\ u.typemap = t.typemap
      /\ SamePaths(t, u) /\ u.endpoint = t.endpoint
  BY <1>2 DEF Pushes, PushesType
<1>4. PushedScope(s, u, r)
  BY <1>3 DEF SameScope, PushedScope
<1>5. PushedType(s, u)
  BY <1>1, <1>3 DEF PushedType, SameTypes
<1>6. SamePaths(s, u) /\ u.endpoint = s.endpoint
  BY <1>3 DEF SamePaths
<1>. QED
  BY <1>3, <1>4, <1>5, <1>6 DEF Pushes, PushesBoth

LEMMA FieldTypeCallbacks ==
  ASSUME NEW s \in Listener, NEW w
  PROVE  /\ IF Has(w, "annotations") THEN Pushes(s, EnterField_type(s, w), "field_type")
                                     ELSE Stays(s, EnterField_type(s, w))
         /\ IF Has(w, "annotations") THEN Drops(s, ExitField_type(s, w))
                                     ELSE Stays(s, ExitField_type(s, w))
<1>. DEFINE u == CurrentType(s, "EnterField_type")
            b == HasAny(w, {"attribs_or_modifiers", "annotations"})
            a == [u EXCEPT !.field.attrs = b]
            c == MakeConstraint(s, HasAny(w, {"size_spec", "array_size"}))
<1>1. Stays(s, u) /\ b \in BOOLEAN
  BY CurrentTypeStays DEF Callbacks, HasAny, Has
<1>2. Stays(s, c)
  BY MakeConstraintStays
<1>. HIDE DEF u, b, c
<1>3. Stays(s, a)
  BY <1>1, AttrsStays, StaysOn DEF Stays
<1>. HIDE DEF a
<1>4. Pushes(a, pushScope(a, "Type", TRUE, "field_type"), "field_type")
  BY <1>3, pushScopePushes DEF Stays, Annotated, Scopers
<1>5. Drops(c, popScope(c))
  BY <1>2, popScopeDrops DEF Stays
<1>6. Pushes(s, pushScope(a, "Type", TRUE, "field_type"), "field_type")
  BY <1>3, <1>4, StaysThenPushes
<1>7. Drops(s, popScope(c))
  BY <1>2, <1>5, StaysThenDrops
<1>. QED
  BY <1>2, <1>3, <1>6, <1>7 DEF EnterField_type, ExitField_type, a, b, c, u

LEMMA InplaceTupleCallbacks ==
  ASSUME NEW s \in Listener
  PROVE  /\ PushesType(s, EnterInplace_tuple(s))
         /\ PopsType(s, ExitInplace_tuple(s))
<1>1. PushesType(s, EnterInplace_tuple(s))
  <2>1. PushesType(s, PushType(s, "tuple"))
    BY PushTypePushes
  <2>2. PushesType(s, Panic(s, "EnterInplace_tuple"))
    BY PanicStays DEF Callbacks, Stays, PushesType
  <2>. QED
    BY <2>1, <2>2 DEF EnterInplace_tuple
<1>2. PopsType(s, ExitInplace_tuple(s))
  <2>. DEFINE outer == Pop(s.types)
              m == IF outer # <<>> /\ Top(outer).kind = "tuple" THEN Top(outer).map ELSE 0
              t == [s EXCEPT !.types = outer, !.typemap = m]
  <2>1. outer \in Seq(TypeEntry)
    BY ListenerTypes, PopOfTypes
  <2>2. m \in Nat
    <3>1. CASE outer = <<>>
      BY <3>1
    <3>2. CASE outer # <<>>
      <4>1. Top(outer) \in TypeEntry
        BY <2>1, <3>2 DEF Top
      <4>. QED
        BY <4>1 DEF TypeEntry
    <3>. QED
      BY <3>1, <3>2
  <2>3. outer # <<>> => m \in {0, Top(outer).map}
    OBVIOUS
  <2>4. s.field \in FieldEntry
    BY ListenerTypes
  <2>. HIDE DEF m
  <2>5. /\ t \in Listener
        /\ Live(t) => /\ Live(s)
                      /\ SameScope(s, t)
                      /\ PoppedType(s, t) /\ t.typemap = m
                      /\ SamePaths(s, t) /\ t.endpoint = s.endpoint
    <3>. DEFINE v == [s EXCEPT !.types = Pop(@), !.field = s.field, !.typemap = m]
    <3>1. /\ v \in Listener
          /\ Live(v) => /\ Live(s)
                        /\ SameScope(s, v)
                        /\ PoppedType(s, v) /\ v.typemap = m
                        /\ SamePaths(s, v) /\ v.endpoint = s.endpoint
      BY ZenonT(60), <2>2, <2>4, TypePopped
    <3>2. t = v
      BY DEF Listener
    <3>. QED
      BY <3>1, <3>2
  <2>6. t.types = outer
    BY DEF Listener
  <2>. QED
    BY <2>3, <2>5, <2>6 DEF PopsType, OuterMap, ExitInplace_tuple, m
<1>. QED
  BY <1>1, <1>2

LEMMA PanicDoesAll ==
  ASSUME NEW s \in Listener, NEW c \in Callbacks, NEW r
  PROVE  LET t == Panic(s, c)
         IN  /\ Stays(s, t) /\ Pushes(s, t, r) /\ Drops(s, t)
             /\ PushesType(s, t) /\ PushesBoth(s, t, r) /\ PopsType(s, t) /\ PopsBoth(s, t)
  BY PanicStays DEF Stays, Pushes, Drops, PushesType, PushesBoth, PopsType, PopsBoth

LEMMA PopTypePops ==
  ASSUME NEW s \in Listener
  PROVE  PopsType(s, PopType(s))
<1>. DEFINE f == NoFields
            m == 0
            t == [s EXCEPT !.types = Pop(@), !.field = f, !.typemap = m]
<1>1. f \in FieldEntry /\ m \in Nat
  BY NoFieldsTyped
<1>. HIDE DEF f, m
<1>2. /\ t \in Listener
      /\ Live(t) => /\ Live(s)
                    /\ SameScope(s, t)
                    /\ PoppedType(s, t) /\ t.typemap = m
                    /\ SamePaths(s, t) /\ t.endpoint = s.endpoint
  BY ZenonT(60), <1>1, TypePopped
<1>. HIDE DEF t
<1>3. PopsType(s, t)
  BY <1>2 DEF PopsType, OuterMap, m
<1>. QED
  BY <1>3 DEF PopType, t, f, m

LEMMA DropsThenPopsType ==
  ASSUME NEW s, NEW t, NEW u, Drops(s, t), PopsType(t, u), s \in Listener
  PROVE  PopsBoth(s, u)
<1>1. SUFFICES ASSUME Live(u) PROVE PopsBoth(s, u)
  BY DEF PopsType, PopsBoth
<1>2. t \in Listener /\ s.types \in Seq(TypeEntry) /\ t.types \in Seq(TypeEntry)
  BY ListenerTypes DEF Drops
<1>3. Len(t.types) = Len(s.types) /\ (t.types = <<>> <=> s.types = <<>>)
  BY <1>1, <1>2 DEF Drops, PopsType, SameTypes
<1>. QED
  BY <1>1, <1>2, <1>3 DEF Drops, PopsType, PopsBoth, SameScope, PoppedScope, SameTypes,
     PoppedType, SamePaths, OuterMap

LEMMA TableCallbacks ==
  ASSUME NEW s \in Listener, NEW w
  PROVE  /\ PushesBoth(s, EnterTable(s, w), "table")
         /\ PopsBoth(s, ExitTable(s))
         /\ PushesBoth(s, EnterUnion(s, w), "union")
         /\ PopsBoth(s, ExitUnion(s, w))
<1>1. ASSUME NEW kind \in {"tuple", "relation", "oneof", "empty"}, NEW attrs \in BOOLEAN,
             NEW r \in Scopers
      PROVE  PushesBoth(s, pushScope(PushType(s, kind), "Type", attrs, r), r)
  <2>. DEFINE u == PushType(s, kind)
  <2>1. PushesType(s, u)
    BY PushTypePushes
  <2>. HIDE DEF u
  <2>2. u \in Listener
    BY <2>1 DEF PushesType
  <2>3. Pushes(u, pushScope(u, "Type", attrs, r), r)
    BY <2>2, pushScopePushes DEF Annotated
  <2>4. PushesBoth(s, pushScope(u, "Type", attrs, r), r)
    BY <2>1, <2>3, PushesTypeThenPushes
  <2>. QED
    BY <2>4 DEF u
<1>2. ASSUME NEW noted
      PROVE  LET a == popScope(applyAnnotations(s, noted))
             IN  PopsBoth(s, IF Live(a) THEN PopType(a) ELSE a)
  <2>. DEFINE u == applyAnnotations(s, noted)
              a == popScope(u)
  <2>1. Stays(s, u)
    BY applyAnnotationsStays
  <2>. HIDE DEF u
  <2>2. Drops(u, a)
    BY <2>1, popScopeDrops DEF Stays
  <2>3. Drops(s, a)
    BY <2>1, <2>2, StaysThenDrops
  <2>. HIDE DEF a
  <2>4. a \in Listener
    BY <2>3 DEF Drops
  <2>5. PopsBoth(s, PopType(a))
    BY <2>3, <2>4, PopTypePops, DropsThenPopsType
  <2>6. ~Live(a) => PopsBoth(s, a)
    BY <2>4 DEF PopsBoth
  <2>. QED
    BY <2>5, <2>6 DEF a, u
<1>3. PushesBoth(s, EnterTable(s, w), "table")
  <2>. DEFINE kind == IF Has(w, "TABLE") THEN "relation" ELSE "tuple"
  <2>1. kind \in {"tuple", "relation", "oneof", "empty"} /\ "table" \in Scopers
    BY DEF Scopers
  <2>. HIDE DEF kind
  <2>2. PushesBoth(s, pushScope(PushType(s, kind), "Type", FALSE, "table"), "table")
    BY <1>1, <2>1
  <2>3. PushesBoth(s, Panic(s, "EnterTable"), "table")
    BY PanicDoesAll DEF Callbacks
  <2>. QED
    BY <2>2, <2>3 DEF EnterTable, kind
<1>4. PushesBoth(s, EnterUnion(s, w), "union")
  <2>. DEFINE attrs == HasAny(w, {"attribs_or_modifiers", "annotation"})
  <2>1. attrs \in BOOLEAN /\ "union" \in Scopers
    BY DEF Scopers, HasAny, Has
  <2>. HIDE DEF attrs
  <2>2. PushesBoth(s, pushScope(PushType(s, "oneof"), "Type", attrs, "union"), "union")
    BY <1>1, <2>1
  <2>3. PushesBoth(s, Panic(s, "EnterUnion"), "union")
    BY PanicDoesAll DEF Callbacks
  <2>. QED
    BY <2>2, <2>3 DEF EnterUnion, attrs
<1>. QED
  BY <1>2, <1>3, <1>4 DEF ExitTable, ExitUnion

\* An alias may have annotations, and only then a scope.  Its fields end the fields of all.
LEMMA AliasCallbacks ==
  ASSUME NEW s \in Listener, NEW w
  PROVE  /\ IF Has(w, "annotation") THEN PushesBoth(s, EnterAlias(s, w), "alias")
                                    ELSE PushesType(s, EnterAlias(s, w))
         /\ LET t == ExitAlias(s, w)
            IN  /\ t \in Listener
                /\ Live(t) => /\ Live(s)
                              /\ IF Has(w, "annotation") THEN PoppedScope(s, t) ELSE SameScope(s, t)
                              /\ PoppedType(s, t)
                              /\ SamePaths(s, t) /\ t.endpoint = s.endpoint
<1>1. IF Has(w, "annotation") THEN PushesBoth(s, EnterAlias(s, w), "alias")
                              ELSE PushesType(s, EnterAlias(s, w))
  <2>. DEFINE u == [s EXCEPT !.field = NoFields]
              v == PushType(u, "empty")
              a == AddField(v, "EnterAlias")
              attrs == HasAny(w, {"attribs_or_modifiers", "annotation"})
              b == [a EXCEPT !.field.attrs = attrs]
  <2>1. Stays(s, u)
    BY NoFieldsTyped, FieldStays
  <2>. HIDE DEF u
  <2>2. PushesType(u, v)
    BY <2>1, PushTypePushes DEF Stays
  <2>. HIDE DEF v
  <2>3. Stays(v, a)
    <3>1. v \in Listener
      BY <2>2 DEF PushesType
    <3>. QED
      BY <3>1, AddFieldStays DEF Callbacks
  <2>. HIDE DEF a
  <2>4. attrs \in BOOLEAN
    BY DEF HasAny, Has
  <2>. HIDE DEF attrs
  <2>5. Stays(v, b)
    BY <2>3, <2>4, AttrsStays, StaysOn DEF Stays
  <2>. HIDE DEF b
  <2>6. PushesType(s, b)
    <3>1. PushesType(s, v)
      BY <2>1, <2>2, StaysThenPushesType
    <3>. QED
      BY <2>5, <3>1, PushesTypeThenStays
  <2>7. PushesBoth(s, pushScope(b, "Type", TRUE, "alias"), "alias")
    <3>1. b \in Listener
      BY <2>6 DEF PushesType
    <3>2. Pushes(b, pushScope(b, "Type", TRUE, "alias"), "alias")
      BY <3>1, pushScopePushes DEF Annotated, Scopers
    <3>. QED
      BY <2>6, <3>2, PushesTypeThenPushes
  <2>8. /\ PushesType(s, Panic(s, "EnterAlias"))
        /\ PushesBoth(s, Panic(s, "EnterAlias"), "alias")
    BY PanicDoesAll DEF Callbacks
  <2>. QED
    BY <2>6, <2>7, <2>8 DEF EnterAlias, a, b, u, v, attrs
<1>2. LET t == ExitAlias(s, w)
      IN  /\ t \in Listener
          /\ Live(t) => /\ Live(s)
                        /\ IF Has(w, "annotation") THEN PoppedScope(s, t) ELSE SameScope(s, t)
                        /\ PoppedType(s, t)
                        /\ SamePaths(s, t) /\ t.endpoint = s.endpoint
  <2>. DEFINE u == [s EXCEPT !.types = Pop(@)]
              a == FreshTypemap(u)
  <2>1. /\ u \in Listener
        /\ Live(u) => /\ Live(s)
                      /\ SameScope(s, u)
                      /\ PoppedType(s, u)
                      /\ SamePaths(s, u) /\ u.endpoint = s.endpoint
    <3>. DEFINE v == [s EXCEPT !.types = Pop(@), !.field = s.field, !.typemap = s.typemap]
    <3>1. s.field \in FieldEntry /\ s.typemap \in Nat
      BY ListenerTypes
    <3>2. /\ v \in Listener
          /\ Live(v) => /\ Live(s)
                        /\ SameScope(s, v)
                        /\ PoppedType(s, v)
                        /\ SamePaths(s, v) /\ v.endpoint = s.endpoint
      BY <3>1, TypePopped
    <3>3. u = v
      BY DEF Listener
    <3>. QED
      BY <3>2, <3>3
  <2>. HIDE DEF u
  <2>2. Remaps(u, a)
    BY <2>1, FreshTypemapRemaps
  <2>. HIDE DEF a
  <2>3. a \in Listener /\ Drops(a, popScope(a))
    BY <2>2, popScopeDrops DEF Remaps
  <2>4. s.types \in Seq(TypeEntry)
    BY ListenerTypes
  <2>5. Live(a) => /\ Live(s)
                   /\ SameScope(s, a)
                   /\ PoppedType(s, a)
                   /\ SamePaths(s, a) /\ a.endpoint = s.endpoint
    BY <2>1, <2>2, <2>4 DEF Remaps, SameScope, SameTypes, PoppedType, SamePaths
  <2>. DEFINE d == popScope(a)
  <2>. HIDE DEF d
  <2>6. d \in Listener /\ (Live(d) => /\ Live(s)
                                     /\ PoppedScope(s, d)
                                     /\ PoppedType(s, d)
                                     /\ SamePaths(s, d) /\ d.endpoint = s.endpoint)
    <3>1. Drops(a, d)
      BY <2>3 DEF d
    <3>. QED
      BY <2>4, <2>5, <3>1
      DEF Drops, SameScope, PoppedScope, SameTypes, PoppedType, SamePaths
  <2>. QED
    BY <2>3, <2>5, <2>6 DEF ExitAlias, a, d, u
<1>. QED
  BY <1>1, <1>2

\* Fields of parameters and views: all maps but that for new fields stay.
LEMMA RemapCallbacks ==
  ASSUME NEW s \in Listener, NEW w
  PROVE  /\ Remaps(s, EnterParams(s))
         /\ (Remaps(s, ExitParams(s)) /\ OuterMap(ExitParams(s))) \/ Stays(s, ExitParams(s))
         /\ Remaps(s, EnterView(s))
         /\ Remaps(s, ExitView(s, w))
<1>0. ASSUME NEW u, NEW v, NEW x, Remaps(u, v), Stays(v, x)
      PROVE  Remaps(u, x)
  BY <1>0 DEF Remaps, Stays, SameScope, SameTypes, SamePaths
<1>1. ASSUME NEW u \in Listener, NEW b \in BOOLEAN
      PROVE  /\ Remaps(u, [FreshTypemap(u) EXCEPT !.nativeSet = b])
             /\ Remaps(u, [FreshTypemap(u) EXCEPT !.returns = b])
  <2>. DEFINE v == FreshTypemap(u)
  <2>1. Remaps(u, v)
    BY FreshTypemapRemaps
  <2>. HIDE DEF v
  <2>2. v \in Listener
    BY <2>1 DEF Remaps
  <2>3. Stays(v, [v EXCEPT !.nativeSet = b]) /\ Stays(v, [v EXCEPT !.returns = b])
    BY <2>2, FlagsStay
  <2>4. Remaps(u, [v EXCEPT !.nativeSet = b]) /\ Remaps(u, [v EXCEPT !.returns = b])
    BY <1>0, <2>1, <2>3
  <2>. QED
    BY <2>4 DEF v
<1>2. Remaps(s, EnterParams(s)) /\ Remaps(s, EnterView(s))
  BY <1>1 DEF EnterParams, EnterView
<1>3. (Remaps(s, ExitParams(s)) /\ OuterMap(ExitParams(s))) \/ Stays(s, ExitParams(s))
  <2>. DEFINE t == [s EXCEPT !.field = NoFields, !.typemap = 0]
  <2>1. Remaps(s, t)
    BY NoFieldsTyped, FieldAndMap
  <2>2. t.typemap = 0
    BY DEF Listener
  <2>3. Stays(s, Panic(s, "ExitParams"))
    BY PanicStays DEF Callbacks
  <2>. HIDE DEF t
  <2>4. ExitParams(s) = Panic(s, "ExitParams") \/ ExitParams(s) = t
    BY DEF ExitParams, t
  <2>. QED
    BY <2>1, <2>2, <2>3, <2>4 DEF OuterMap
<1>4. Remaps(s, ExitView(s, w))
  <2>. DEFINE a == IF Has(w, "abstract_view") THEN s ELSE popExprs(s, 1, "ExitView")
              t == [FreshTypemap(a) EXCEPT !.returns = FALSE]
  <2>1. Stays(s, a)
    BY StaysItself, popExprsStays DEF Callbacks
  <2>. HIDE DEF a
  <2>2. a \in Listener
    BY <2>1 DEF Stays
  <2>3. Remaps(a, t)
    BY <1>1, <2>2
  <2>. HIDE DEF t
  <2>4. Remaps(s, t)
    BY <2>1, <2>3, StaysThenRemaps
  <2>5. Remaps(s, Panic(s, "ExitView"))
    BY PanicStays DEF Callbacks, Stays, Remaps
  <2>. QED
    BY <2>4, <2>5 DEF ExitView, a, t
<1>. QED
  BY <1>2, <1>3, <1>4

\* While no application is named there is none to change.
LEMMA AppEntryIn ==
  ASSUME NEW s \in Listener, NEW a, s.app # 0 => a \in AppEntry
  PROVE  /\ [s.apps EXCEPT ![s.app] = a] \in Seq(AppEntry)
         /\ Len([s.apps EXCEPT ![s.app] = a]) = Len(s.apps)
<1>1. s.apps \in Seq(AppEntry) /\ s.app \in Nat /\ s.app <= Len(s.apps)
  BY ListenerTypes DEF Listener
<1>2. CASE s.app = 0
  <2>1. [s.apps EXCEPT ![s.app] = a] = s.apps
    BY <1>1, <1>2
  <2>. QED
    BY <1>1, <2>1
<1>3. CASE s.app # 0
  BY <1>1, <1>3
<1>. QED
  BY <1>2, <1>3

LEMMA AppAdded ==
  ASSUME NEW s \in Listener, NEW a \in AppEntry
  PROVE  /\ Append(s.apps, a) \in Seq(AppEntry)
         /\ Len(Append(s.apps, a)) = Len(s.apps) + 1
<1>1. s.apps \in Seq(AppEntry)
  BY ListenerTypes
<1>. QED
  BY <1>1

LEMMA AppsStay ==
  ASSUME NEW s \in Listener, NEW apps \in Seq(AppEntry), NEW app \in Nat, app <= Len(apps)
  PROVE  Stays(s, [s EXCEPT !.apps = apps, !.app = app])
  BY DEF Live, Listener, Stays, SameScope, SameTypes, SamePaths

LEMMA SameApp ==
  ASSUME NEW s \in Listener, NEW apps \in Seq(AppEntry), Len(apps) >= Len(s.apps)
  PROVE  Stays(s, [s EXCEPT !.apps = apps])
<1>1. s.app \in Nat /\ s.app <= Len(s.apps) /\ s.apps \in Seq(AppEntry)
  BY ListenerTypes DEF Listener
<1>2. [s EXCEPT !.apps = apps] = [s EXCEPT !.apps = apps, !.app = s.app]
  BY DEF Listener
<1>3. s.app <= Len(apps)
  BY <1>1
<1>. QED
  BY <1>1, <1>2, <1>3, AppsStay

\* The name of a model and of an application say which application it is.
LEMMA NameCallbacksStay ==
  ASSUME NEW s \in Listener
  PROVE  \A t \in EnterName_with_attribs(s) : Stays(s, t)
<1>1. s.apps \in Seq(AppEntry) /\ s.app \in Nat
  BY ListenerTypes
<1>2. NewApp \in AppEntry
  BY DEF NewApp, AppEntry
<1>3. ASSUME NEW i \in 1..Len(s.apps) PROVE Stays(s, [s EXCEPT !.app = i])
  <2>1. [s EXCEPT !.app = i] = [s EXCEPT !.apps = s.apps, !.app = i]
    BY DEF Listener
  <2>2. i \in Nat /\ i <= Len(s.apps)
    BY <1>1
  <2>3. Stays(s, [s EXCEPT !.apps = s.apps, !.app = i])
    BY <1>1, <2>2, AppsStay
  <2>. QED
    BY <2>1, <2>3
<1>4. Stays(s, [s EXCEPT !.apps = Append(@, NewApp), !.app = Len(s.apps) + 1])
  <2>. DEFINE new == Append(s.apps, NewApp)
              n == Len(s.apps) + 1
  <2>1. new \in Seq(AppEntry) /\ n <= Len(new) /\ n \in Nat
    BY <1>1, <1>2, AppAdded
  <2>. HIDE DEF new, n
  <2>2. Stays(s, [s EXCEPT !.apps = new, !.app = n])
    BY <2>1, AppsStay
  <2>. QED
    BY <2>2 DEF new, n
<1>. QED
  BY <1>3, <1>4 DEF EnterName_with_attribs

LEMMA ModelNameStays ==
  ASSUME NEW s \in Listener
  PROVE  Stays(s, EnterModel_name(s))
<1>. DEFINE e == [s.apps[s.app] EXCEPT !.wrapped = "named"]
<1>1. s.apps \in Seq(AppEntry) /\ s.app \in Nat /\ s.app <= Len(s.apps)
  BY ListenerTypes DEF Listener
<1>2. s.app # 0 => e \in AppEntry
  <2>1. SUFFICES ASSUME s.app # 0 PROVE e \in AppEntry
    OBVIOUS
  <2>2. s.apps[s.app] \in AppEntry
    BY <1>1, <2>1
  <2>. QED
    BY <2>2 DEF AppEntry
<1>. HIDE DEF e
<1>. DEFINE new == [s.apps EXCEPT ![s.app] = e]
<1>3. new \in Seq(AppEntry) /\ Len(new) >= Len(s.apps)
  BY <1>1, <1>2, AppEntryIn
<1>. HIDE DEF new
<1>4. Stays(s, [s EXCEPT !.apps = new])
  BY <1>3, SameApp
<1>5. Stays(s, Panic(s, "EnterModel_name"))
  BY PanicStays DEF Callbacks
<1>. QED
  BY <1>4, <1>5 DEF EnterModel_name, new, e

\* An application starts with no attributes of paths.
LEMMA AppCallbacks ==
  ASSUME NEW s \in Listener, NEW w
  PROVE  /\ LET t == EnterApp_decl(s, w)
            IN  /\ t \in Listener
                /\ Live(t) => /\ Live(s)
                              /\ IF Has(w, "annotation") THEN PushedScope(s, t, "app_decl")
                                                        ELSE SameScope(s, t)
                              /\ SameTypes(s, t)
                              /\ t.urlPrefixes = s.urlPrefixes
                              /\ t.rest_attrs = 0
                              /\ t.rest_urlparams = s.rest_urlparams
                              /\ t.rest_urlparams_len = s.rest_urlparams_len
                              /\ t.endpoint = s.endpoint
         /\ IF Has(w, "annotation") THEN Drops(s, ExitApp_decl(s, w))
                                   ELSE Stays(s, ExitApp_decl(s, w))
<1>1. IF Has(w, "annotation") THEN Drops(s, ExitApp_decl(s, w)) ELSE Stays(s, ExitApp_decl(s, w))
  BY popScopeDrops, StaysItself DEF ExitApp_decl
<1>. DEFINE tables == currentApp(s).types \/ HasAny(w, {"table", "alias", "enum"})
            endpoints == \/ currentApp(s).endpoints
                         \/ HasAny(w, {"simple_endpoint", "rest_endpoint", "event", "subscribe",
                                       "collector"})
            wrapped == IF currentApp(s).wrapped = "no" /\ Has(w, "facade")
                         THEN "made" ELSE currentApp(s).wrapped
            e == [types |-> tables, endpoints |-> endpoints, wrapped |-> wrapped]
            apps == [s.apps EXCEPT ![s.app] = e]
            m == NewMap(s)
            a == [s EXCEPT !.apps = apps, !.rest_attrs = 0, !.typemap = m]
<1>2. s.apps \in Seq(AppEntry) /\ s.app \in Nat /\ s.app <= Len(s.apps)
  BY ListenerTypes DEF Listener
<1>3. s.app # 0 => e \in AppEntry
  <2>1. SUFFICES ASSUME s.app # 0 PROVE e \in AppEntry
    OBVIOUS
  <2>2. currentApp(s) \in AppEntry
    BY <1>2, <2>1 DEF currentApp
  <2>3. tables \in BOOLEAN /\ endpoints \in BOOLEAN
    OBVIOUS
  <2>4. wrapped \in {"no", "made", "named"}
    BY <2>2 DEF AppEntry
  <2>. HIDE DEF tables, endpoints, wrapped
  <2>. QED
    BY <2>3, <2>4 DEF AppEntry
<1>4. EnterApp_decl(s, w)
        = IF Has(w, "annotation") THEN pushScope(a, "Application", TRUE, "app_decl") ELSE a
  BY DEF EnterApp_decl
<1>. HIDE DEF e
<1>5. apps \in Seq(AppEntry) /\ Len(apps) = Len(s.apps)
  BY <1>3, AppEntryIn
<1>. HIDE DEF apps
<1>6. m \in Nat
  BY NewMapExists
<1>. HIDE DEF m
<1>7. /\ a \in Listener
      /\ Live(a) => /\ Live(s) /\ SameScope(s, a) /\ SameTypes(s, a)
                    /\ a.urlPrefixes = s.urlPrefixes
                    /\ a.rest_attrs = 0
                    /\ a.rest_urlparams = s.rest_urlparams
                    /\ a.rest_urlparams_len = s.rest_urlparams_len
                    /\ a.endpoint = s.endpoint
  BY <1>5, <1>6 DEF Live, Listener, SameScope, SameTypes
<1>. HIDE DEF a
<1>. DEFINE b == pushScope(a, "Application", TRUE, "app_decl")
<1>8. Pushes(a, b, "app_decl")
  BY <1>7, pushScopePushes DEF Annotated, Scopers
<1>. HIDE DEF b
<1>9. /\ b \in Listener
      /\ Live(b) => /\ Live(s) /\ PushedScope(s, b, "app_decl") /\ SameTypes(s, b)
                    /\ b.urlPrefixes = s.urlPrefixes
                    /\ b.rest_attrs = 0
                    /\ b.rest_urlparams = s.rest_urlparams
                    /\ b.rest_urlparams_len = s.rest_urlparams_len
                    /\ b.endpoint = s.endpoint
  BY <1>7, <1>8 DEF Pushes, SameScope, PushedScope, SameTypes, SamePaths
<1>. QED
  BY <1>1, <1>4, <1>7, <1>9 DEF b

LEMMA EndpointNames ==
  ASSUME NEW s \in Listener, NEW e \in {"", "path", "rest", "plain"}
  PROVE  Names(s, [s EXCEPT !.endpoint = e], e)
  BY DEF Live, Listener, Names, SameScope, SameTypes, SamePaths

LEMMA NamesThen ==
  ASSUME NEW s, NEW t, NEW u, NEW e, Names(s, t, e)
  PROVE  /\ Stays(t, u) => Names(s, u, e)
         /\ \A r : Pushes(t, u, r) => NamesAndPushes(s, u, e, r)
<1>1. Stays(t, u) => Names(s, u, e)
  BY DEF Stays, Names, SameScope, SameTypes, SamePaths
<1>2. ASSUME NEW r, Pushes(t, u, r) PROVE NamesAndPushes(s, u, e, r)
  BY <1>2 DEF Names, Pushes, NamesAndPushes, SameScope, PushedScope, SameTypes, SamePaths
<1>. QED
  BY <1>1, <1>2

LEMMA DropsThenNames ==
  ASSUME NEW s, NEW t, NEW u, NEW e, Drops(s, t), Names(t, u, e)
  PROVE  NamesAndDrops(s, u, e)
  BY DEF Drops, Names, NamesAndDrops, SameScope, PoppedScope, SameTypes, SamePaths

LEMMA MethodCallbacks ==
  ASSUME NEW s \in Listener
  PROVE  /\ NamesAndPushes(s, EnterMethod_def(s), "rest", "method_def")
         /\ NamesAndDrops(s, ExitMethod_def(s), "")
         /\ Names(s, EnterHttp_path(s), "path")
<1>1. NamesAndPushes(s, EnterMethod_def(s), "rest", "method_def")
  <2>. DEFINE u == [s EXCEPT !.endpoint = "rest"]
  <2>1. Names(s, u, "rest")
    BY EndpointNames
  <2>. HIDE DEF u
  <2>2. u \in Listener
    BY <2>1 DEF Names
  <2>3. Pushes(u, pushScope(u, "Endpoint", TRUE, "method_def"), "method_def")
    BY <2>2, pushScopePushes DEF Annotated, Scopers
  <2>. QED
    BY <2>1, <2>3, NamesThen DEF EnterMethod_def, u
<1>2. NamesAndDrops(s, ExitMethod_def(s), "")
  <2>. DEFINE u == popScope(s)
  <2>1. Drops(s, u)
    BY popScopeDrops
  <2>. HIDE DEF u
  <2>2. u \in Listener
    BY <2>1 DEF Drops
  <2>3. Names(u, [u EXCEPT !.endpoint = ""], "")
    BY <2>2, EndpointNames
  <2>. QED
    BY <2>1, <2>3, DropsThenNames DEF ExitMethod_def, u
<1>3. Names(s, EnterHttp_path(s), "path")
  BY EndpointNames DEF EnterHttp_path
<1>. QED
  BY <1>1, <1>2, <1>3

LEMMA EndpointCallbacks ==
  ASSUME NEW s \in Listener, NEW w
  PROVE  /\ IF Has(w, "WHATEVER") THEN Stays(s, EnterSimple_endpoint(s, w))
            ELSE IF Has(w, "statements")
              THEN NamesAndPushes(s, EnterSimple_endpoint(s, w), "plain", "simple_endpoint")
              ELSE Names(s, EnterSimple_endpoint(s, w), "plain")
         /\ IF Has(w, "statements") THEN NamesAndPushes(s, EnterEvent(s, w), "plain", "event")
                                   ELSE Names(s, EnterEvent(s, w), "plain")
         /\ \A t \in EnterSubscribe(s, w) :
              IF Has(w, "statements") THEN NamesAndPushes(s, t, "plain", "subscribe")
                                     ELSE Names(s, t, "plain")
         /\ IF Has(w, "statements") THEN NamesAndDrops(s, ExitEndpoint(s, w), "")
                                   ELSE Names(s, ExitEndpoint(s, w), "")
         /\ IF Has(w, "collector_stmts") THEN /\ Pushes(s, EnterCollector(s, w), "collector")
                                             /\ Drops(s, ExitCollector(s, w))
                                        ELSE /\ Stays(s, EnterCollector(s, w))
                                             /\ Stays(s, ExitCollector(s, w))
<1>. DEFINE a == [s EXCEPT !.endpoint = "plain"]
            attrs == Has(w, "attribs_or_modifiers")
<1>1. Names(s, a, "plain") /\ attrs \in BOOLEAN
  BY EndpointNames DEF Has
<1>. HIDE DEF a, attrs
<1>2. a \in Listener
  BY <1>1 DEF Names
<1>3. /\ Pushes(a, pushScope(a, "Endpoint", TRUE, "simple_endpoint"), "simple_endpoint")
      /\ Pushes(a, pushScope(a, "Endpoint", attrs, "event"), "event")
      /\ Pushes(a, pushScope(a, "Endpoint", attrs, "subscribe"), "subscribe")
      /\ Pushes(s, pushScope(s, "Endpoint", TRUE, "collector"), "collector")
  BY <1>1, <1>2, pushScopePushes DEF Annotated, Scopers
<1>4. /\ NamesAndPushes(s, pushScope(a, "Endpoint", TRUE, "simple_endpoint"), "plain", "simple_endpoint")
      /\ NamesAndPushes(s, pushScope(a, "Endpoint", attrs, "event"), "plain", "event")
      /\ NamesAndPushes(s, pushScope(a, "Endpoint", attrs, "subscribe"), "plain", "subscribe")
  BY <1>1, <1>3, NamesThen
<1>5. IF Has(w, "WHATEVER") THEN Stays(s, EnterSimple_endpoint(s, w))
      ELSE IF Has(w, "statements")
        THEN NamesAndPushes(s, EnterSimple_endpoint(s, w), "plain", "simple_endpoint")
        ELSE Names(s, EnterSimple_endpoint(s, w), "plain")
  BY <1>1, <1>4, StaysItself DEF EnterSimple_endpoint, a
<1>6. IF Has(w, "statements") THEN NamesAndPushes(s, EnterEvent(s, w), "plain", "event")
                             ELSE Names(s, EnterEvent(s, w), "plain")
  BY <1>1, <1>4 DEF EnterEvent, a, attrs
<1>7. \A t \in EnterSubscribe(s, w) :
        IF Has(w, "statements") THEN NamesAndPushes(s, t, "plain", "subscribe")
                               ELSE Names(s, t, "plain")
  <2>. DEFINE b == IF Has(w, "statements") THEN pushScope(a, "Endpoint", attrs, "subscribe") ELSE a
              all == {IF s.apps[i].endpoints THEN b ELSE Panic(b, "EnterSubscribe") : i \in 1..Len(s.apps)}
                       \cup {[b EXCEPT !.apps = Append(@, [NewApp EXCEPT !.endpoints = TRUE])]}
  <2>1. IF Has(w, "statements") THEN NamesAndPushes(s, b, "plain", "subscribe") ELSE Names(s, b, "plain")
    BY <1>1, <1>4
  <2>2. EnterSubscribe(s, w) = all
    BY DEF EnterSubscribe, a, attrs
  <2>. HIDE DEF b
  <2>3. b \in Listener
    BY <2>1 DEF NamesAndPushes, Names
  <2>4. [NewApp EXCEPT !.endpoints = TRUE] \in AppEntry
    BY DEF NewApp, AppEntry
  <2>5. b.apps \in Seq(AppEntry)
    BY <2>3, ListenerTypes
  <2>6. Stays(b, [b EXCEPT !.apps = Append(@, [NewApp EXCEPT !.endpoints = TRUE])])
    <3>. DEFINE e == [NewApp EXCEPT !.endpoints = TRUE]
                new == Append(b.apps, e)
    <3>1. new \in Seq(AppEntry) /\ Len(new) >= Len(b.apps)
      BY <2>4, <2>5
    <3>. HIDE DEF new
    <3>2. Stays(b, [b EXCEPT !.apps = new])
      BY <2>3, <3>1, SameApp
    <3>. QED
      BY <3>2 DEF new
  <2>7. Stays(b, Panic(b, "EnterSubscribe")) /\ Stays(b, b)
    BY <2>3, PanicStays, StaysItself DEF Callbacks
  <2>8. \A t \in all : Stays(b, t)
    BY <2>6, <2>7
  <2>. HIDE DEF all
  <2>9. ASSUME NEW t \in all
        PROVE  IF Has(w, "statements") THEN NamesAndPushes(s, t, "plain", "subscribe")
                                      ELSE Names(s, t, "plain")
    <3>1. Stays(b, t)
      BY <2>8
    <3>. QED
      BY <2>1, <3>1
      DEF NamesAndPushes, Names, Stays, SameScope, PushedScope, SameTypes, SamePaths
  <2>. QED
    BY <2>2, <2>9
<1>8. IF Has(w, "statements") THEN NamesAndDrops(s, ExitEndpoint(s, w), "")
                             ELSE Names(s, ExitEndpoint(s, w), "")
  <2>. DEFINE u == popScope(s)
  <2>1. Drops(s, u)
    BY popScopeDrops
  <2>. HIDE DEF u
  <2>2. u \in Listener
    BY <2>1 DEF Drops
  <2>3. Names(u, [u EXCEPT !.endpoint = ""], "") /\ Names(s, [s EXCEPT !.endpoint = ""], "")
    BY <2>2, EndpointNames
  <2>4. NamesAndDrops(s, [u EXCEPT !.endpoint = ""], "")
    BY <2>1, <2>3, DropsThenNames
  <2>. QED
    BY <2>3, <2>4 DEF ExitEndpoint, u
<1>9. IF Has(w, "collector_stmts") THEN /\ Pushes(s, EnterCollector(s, w), "collector")
                                       /\ Drops(s, ExitCollector(s, w))
                                  ELSE /\ Stays(s, EnterCollector(s, w))
                                       /\ Stays(s, ExitCollector(s, w))
  BY <1>3, popScopeDrops, StaysItself DEF EnterCollector, ExitCollector
<1>. QED
  BY <1>5, <1>6, <1>7, <1>8, <1>9

LEMMA EnterBlockPushes ==
  ASSUME NEW s \in Listener, NEW kind \in Blocks \cup Annotated \cup {"Alt"}, NEW rule \in Scopers
  PROVE  Pushes(s, EnterBlock(s, kind, rule), rule)
<1>. DEFINE a == addToCurrentScope(s, "other")
<1>1. Stays(s, a)
  BY addToCurrentScopeStays DEF Statements
<1>2. EnterBlock(s, kind, rule) = IF Live(a) THEN pushScope(a, kind, FALSE, rule) ELSE a
  BY DEF EnterBlock
<1>. HIDE DEF a
<1>3. a \in Listener
  BY <1>1 DEF Stays
<1>4. Pushes(a, pushScope(a, kind, FALSE, rule), rule)
  BY <1>3, pushScopePushes
<1>5. Pushes(s, pushScope(a, kind, FALSE, rule), rule)
  BY <1>1, <1>4, StaysThenPushes
<1>6. ~Live(a) => Pushes(s, a, rule)
  BY <1>3 DEF Pushes
<1>. QED
  BY <1>2, <1>5, <1>6

LEMMA BlockCallbacks ==
  ASSUME NEW s \in Listener, NEW w
  PROVE  /\ Pushes(s, EnterIf_stmt(s), "if_stmt")
         /\ Pushes(s, EnterElse_stmt(s), "else_stmt")
         /\ Pushes(s, EnterFor_stmt(s, w), "for_stmt")
         /\ Pushes(s, EnterGroup_stmt(s), "group_stmt")
         /\ Pushes(s, EnterOne_of_stmt(s), "one_of_stmt")
         /\ Pushes(s, EnterOne_of_cases(s), "one_of_cases")
         /\ Drops(s, ExitBlock(s))
<1>1. Pushes(s, EnterIf_stmt(s), "if_stmt")
  BY EnterBlockPushes DEF EnterIf_stmt, Blocks, Scopers
<1>2. Pushes(s, EnterElse_stmt(s), "else_stmt")
  BY EnterBlockPushes DEF EnterElse_stmt, Blocks, Scopers
<1>3. Pushes(s, EnterFor_stmt(s, w), "for_stmt")
  <2>. DEFINE kind == IF HasAny(w, {"UNTIL", "WHILE"}) THEN "Loop"
                      ELSE IF Has(w, "FOR_EACH") THEN "Foreach" ELSE "Group"
  <2>1. kind \in Blocks /\ "for_stmt" \in Scopers
    BY DEF Blocks, Scopers
  <2>. HIDE DEF kind
  <2>2. Pushes(s, EnterBlock(s, kind, "for_stmt"), "for_stmt")
    BY <2>1, EnterBlockPushes
  <2>. QED
    BY <2>2 DEF EnterFor_stmt, kind
<1>4. Pushes(s, EnterGroup_stmt(s), "group_stmt")
  BY EnterBlockPushes DEF EnterGroup_stmt, Blocks, Scopers
<1>5. Pushes(s, EnterOne_of_stmt(s), "one_of_stmt")
  BY EnterBlockPushes DEF EnterOne_of_stmt, Scopers
<1>6. Pushes(s, EnterOne_of_cases(s), "one_of_cases")
  <2>1. Pushes(s, pushScope(s, "Choice", FALSE, "one_of_cases"), "one_of_cases")
    BY pushScopePushes DEF Blocks, Scopers
  <2>2. Pushes(s, Panic(s, "EnterOne_of_cases"), "one_of_cases")
    BY PanicDoesAll DEF Callbacks
  <2>. QED
    BY <2>1, <2>2 DEF EnterOne_of_cases
<1>7. Drops(s, ExitBlock(s))
  BY popScopeDrops DEF ExitBlock
<1>. QED
  BY <1>1, <1>2, <1>3, <1>4, <1>5, <1>6, <1>7

LEMMA SetTypeKeeps ==
  ASSUME NEW s \in Listener, NEW w
  PROVE  LET t == exitSetOrSequence_type(s, w)
         IN  /\ t \in Listener
             /\ Live(t) => /\ Live(s)
                           /\ KeptScope(s, t)
                           /\ SameTypes(s, t) /\ t.typemap = s.typemap
                           /\ SamePaths(s, t) /\ t.endpoint = s.endpoint
<1>. DEFINE a == CurrentType(s, "exitSetOrSequence_type")
            p == popScope(a)
            q == pushScope(p, "Type", TRUE, "set_type")
            b == IF s.field.attrs THEN q ELSE a
            c == MakeConstraint(b, Has(w, "size_spec"))
            prim == IF Has(w, "set_of") /\ c.field.prim # "" THEN "nativeSet" ELSE ""
            t == [c EXCEPT !.field.prim = prim]
<1>1. Stays(s, a)
  BY CurrentTypeStays DEF Callbacks
<1>. HIDE DEF a
<1>2. a \in Listener
  BY <1>1 DEF Stays
<1>3. Drops(a, p)
  BY <1>2, popScopeDrops
<1>. HIDE DEF p
<1>4. p \in Listener
  BY <1>3 DEF Drops
<1>5. Pushes(p, q, "set_type")
  BY <1>4, pushScopePushes DEF Annotated, Scopers
<1>. HIDE DEF q
<1>6. /\ b \in Listener
      /\ Live(b) => /\ Live(s) /\ KeptScope(s, b)
                    /\ SameTypes(s, b) /\ b.typemap = s.typemap
                    /\ SamePaths(s, b) /\ b.endpoint = s.endpoint
  <2>1. /\ a \in Listener
        /\ Live(a) => /\ Live(s) /\ KeptScope(s, a)
                      /\ SameTypes(s, a) /\ a.typemap = s.typemap
                      /\ SamePaths(s, a) /\ a.endpoint = s.endpoint
    BY <1>1 DEF Stays, SameScope, KeptScope
  <2>2. q \in Listener
    BY <1>5 DEF Pushes
  <2>3. SUFFICES ASSUME Live(q)
                 PROVE  /\ Live(s) /\ KeptScope(s, q)
                        /\ SameTypes(s, q) /\ q.typemap = s.typemap
                        /\ SamePaths(s, q) /\ q.endpoint = s.endpoint
    BY <2>1, <2>2
  <2>4. /\ Live(s) /\ SameScope(s, a) /\ PoppedScope(a, p) /\ PushedScope(p, q, "set_type")
        /\ SameTypes(s, a) /\ SameTypes(a, p) /\ SameTypes(p, q)
        /\ a.typemap = s.typemap /\ p.typemap = a.typemap /\ q.typemap = p.typemap
        /\ SamePaths(s, a) /\ SamePaths(a, p) /\ SamePaths(p, q)
        /\ a.endpoint = s.endpoint /\ p.endpoint = a.endpoint /\ q.endpoint = p.endpoint
    BY <2>3, <1>1, <1>3, <1>5 DEF Stays, Drops, Pushes
  <2>5. KeptScope(s, q)
    <3>1. p.scope \in Seq(ScopeEntry)
      BY <1>4, ListenerTypes
    <3>. QED
      BY <2>4, <3>1 DEF SameScope, PoppedScope, PushedScope, KeptScope
  <2>6. SameTypes(s, q)
    BY <2>4 DEF SameTypes
  <2>7. SamePaths(s, q)
    BY <2>4 DEF SamePaths
  <2>. QED
    BY <2>4, <2>5, <2>6, <2>7
<1>. HIDE DEF b
<1>7. Stays(b, c)
  BY <1>6, MakeConstraintStays
<1>. HIDE DEF c
<1>8. c \in Listener
  BY <1>7 DEF Stays
<1>9. prim \in {"", "sized", "unsized", "nativeSet"}
  OBVIOUS
<1>. HIDE DEF prim
<1>10. Stays(c, t)
  BY <1>8, <1>9, PrimStays
<1>11. exitSetOrSequence_type(s, w) = t
  BY DEF exitSetOrSequence_type, t, prim, c, b, q, p, a
<1>. HIDE DEF t
<1>12. Stays(b, t)
  BY <1>7, <1>10, StaysOn
<1>13. /\ t \in Listener
       /\ Live(t) => /\ Live(s) /\ KeptScope(s, t)
                     /\ SameTypes(s, t) /\ t.typemap = s.typemap
                     /\ SamePaths(s, t) /\ t.endpoint = s.endpoint
  BY <1>6, <1>12 DEF Stays, SameScope, KeptScope, SameTypes, SamePaths
<1>. QED
  BY <1>11, <1>13

\* The path of a rest endpoint: its variables are put behind those of the endpoints around it.
LEMMA PathCallbacks ==
  ASSUME NEW s \in Listener, NEW w
  PROVE  /\ LET t == EnterHttp_path_var_with_type(s, w)
            IN  /\ t \in Listener
                /\ Live(t) => /\ Live(s) /\ SameScope(s, t)
                              /\ SameTypes(s, t) /\ t.typemap = s.typemap
                              /\ t.urlPrefixes = s.urlPrefixes
                              /\ t.rest_attrs = s.rest_attrs
                              /\ t.rest_urlparams = Append(s.rest_urlparams, Len(s.rest_urlparams_len))
                              /\ t.rest_urlparams_len = s.rest_urlparams_len
                              /\ t.endpoint = s.endpoint
         /\ LET t == ExitHttp_path(s)
            IN  /\ t \in Listener
                /\ Live(t) => /\ Live(s) /\ SameScope(s, t)
                              /\ SameTypes(s, t) /\ t.typemap = s.typemap
                              /\ t.urlPrefixes = s.urlPrefixes + 1
                              /\ t.rest_attrs = s.rest_attrs
                              /\ t.rest_urlparams = s.rest_urlparams
                              /\ t.rest_urlparams_len = s.rest_urlparams_len
                              /\ t.endpoint = s.endpoint
         /\ LET t == EnterRest_endpoint(s)
            IN  /\ t \in Listener
                /\ Live(t) => /\ Live(s) /\ SameScope(s, t)
                              /\ SameTypes(s, t) /\ t.typemap = s.typemap
                              /\ t.urlPrefixes = s.urlPrefixes
                              /\ t.rest_attrs = s.rest_attrs + 1
                              /\ t.rest_urlparams = s.rest_urlparams
                              /\ t.rest_urlparams_len
                                   = Append(s.rest_urlparams_len, Len(s.rest_urlparams))
                              /\ t.endpoint = s.endpoint
<1>0. /\ s.rest_urlparams \in Seq(Nat) /\ s.rest_urlparams_len \in Seq(Nat)
      /\ s.urlPrefixes \in Nat /\ s.rest_attrs \in Nat
  BY ListenerTypes
<1>1. LET t == EnterHttp_path_var_with_type(s, w)
      IN  /\ t \in Listener
          /\ Live(t) => /\ Live(s) /\ SameScope(s, t)
                        /\ SameTypes(s, t) /\ t.typemap = s.typemap
                        /\ t.urlPrefixes = s.urlPrefixes
                        /\ t.rest_attrs = s.rest_attrs
                        /\ t.rest_urlparams = Append(s.rest_urlparams, Len(s.rest_urlparams_len))
                        /\ t.rest_urlparams_len = s.rest_urlparams_len
                        /\ t.endpoint = s.endpoint
  <2>. DEFINE a == IF Has(w, "reference") THEN AddField(s, "EnterHttp_path_var_with_type") ELSE s
              new == Append(a.rest_urlparams, Len(s.rest_urlparams_len))
              t == [a EXCEPT !.rest_urlparams = new]
  <2>1. Stays(s, a)
    BY AddFieldStays, StaysItself DEF Callbacks
  <2>. HIDE DEF a
  <2>2. a \in Listener
    BY <2>1 DEF Stays
  <2>3. new \in Seq(Nat)
    <3>1. a.rest_urlparams \in Seq(Nat)
      BY <2>2, ListenerTypes
    <3>. QED
      BY <3>1, <1>0
  <2>4. Live(a) => new = Append(s.rest_urlparams, Len(s.rest_urlparams_len))
    BY <2>1 DEF Stays, SamePaths
  <2>. HIDE DEF new
  <2>5. /\ t \in Listener
        /\ Live(t) => /\ Live(a) /\ SameScope(a, t)
                      /\ SameTypes(a, t) /\ t.typemap = a.typemap
                      /\ t.urlPrefixes = a.urlPrefixes
                      /\ t.rest_attrs = a.rest_attrs
                      /\ t.rest_urlparams = new
                      /\ t.rest_urlparams_len = a.rest_urlparams_len
                      /\ t.endpoint = a.endpoint
    BY <2>2, <2>3 DEF Live, Listener, SameScope, SameTypes
  <2>. HIDE DEF t
  <2>6. EnterHttp_path_var_with_type(s, w) = t
    BY DEF EnterHttp_path_var_with_type, t, new, a
  <2>7. /\ t \in Listener
        /\ Live(t) => /\ Live(s) /\ SameScope(s, t)
                      /\ SameTypes(s, t) /\ t.typemap = s.typemap
                      /\ t.urlPrefixes = s.urlPrefixes
                      /\ t.rest_attrs = s.rest_attrs
                      /\ t.rest_urlparams = new
                      /\ t.rest_urlparams_len = s.rest_urlparams_len
                      /\ t.endpoint = s.endpoint
    BY <2>1, <2>5 DEF Stays, SameScope, SameTypes, SamePaths
  <2>. QED
    BY <2>4, <2>5, <2>6, <2>7
<1>2. LET t == ExitHttp_path(s)
      IN  /\ t \in Listener
          /\ Live(t) => /\ Live(s) /\ SameScope(s, t)
                        /\ SameTypes(s, t) /\ t.typemap = s.typemap
                        /\ t.urlPrefixes = s.urlPrefixes + 1
                        /\ t.rest_attrs = s.rest_attrs
                        /\ t.rest_urlparams = s.rest_urlparams
                        /\ t.rest_urlparams_len = s.rest_urlparams_len
                        /\ t.endpoint = s.endpoint
  <2>. DEFINE n == s.urlPrefixes + 1
              t == [s EXCEPT !.urlPrefixes = n]
  <2>1. n \in Nat
    BY <1>0
  <2>. HIDE DEF n
  <2>2. /\ t \in Listener
        /\ Live(t) => /\ Live(s) /\ SameScope(s, t)
                      /\ SameTypes(s, t) /\ t.typemap = s.typemap
                      /\ t.urlPrefixes = n
                      /\ t.rest_attrs = s.rest_attrs
                      /\ t.rest_urlparams = s.rest_urlparams
                      /\ t.rest_urlparams_len = s.rest_urlparams_len
                      /\ t.endpoint = s.endpoint
    BY <2>1 DEF Live, Listener, SameScope, SameTypes
  <2>. QED
    BY <2>2 DEF ExitHttp_path, t, n
<1>3. LET t == EnterRest_endpoint(s)
      IN  /\ t \in Listener
          /\ Live(t) => /\ Live(s) /\ SameScope(s, t)
                        /\ SameTypes(s, t) /\ t.typemap = s.typemap
                        /\ t.urlPrefixes = s.urlPrefixes
                        /\ t.rest_attrs = s.rest_attrs + 1
                        /\ t.rest_urlparams = s.rest_urlparams
                        /\ t.rest_urlparams_len
                             = Append(s.rest_urlparams_len, Len(s.rest_urlparams))
                        /\ t.endpoint = s.endpoint
  <2>. DEFINE new == Append(s.rest_urlparams_len, Len(s.rest_urlparams))
              n == s.rest_attrs + 1
              t == [s EXCEPT !.rest_urlparams_len = new, !.rest_attrs = n]
  <2>1. new \in Seq(Nat) /\ n \in Nat
    BY <1>0
  <2>. HIDE DEF new, n
  <2>2. /\ t \in Listener
        /\ Live(t) => /\ Live(s) /\ SameScope(s, t)
                      /\ SameTypes(s, t) /\ t.typemap = s.typemap
                      /\ t.urlPrefixes = s.urlPrefixes
                      /\ t.rest_attrs = n
                      /\ t.rest_urlparams = s.rest_urlparams
                      /\ t.rest_urlparams_len = new
                      /\ t.endpoint = s.endpoint
    BY <2>1 DEF Live, Listener, SameScope, SameTypes
  <2>. QED
    BY <2>2 DEF EnterRest_endpoint, t, new, n
<1>. QED
  BY <1>1, <1>2, <1>3

LEMMA ExitRestPops ==
  ASSUME NEW s \in Listener, s.rest_urlparams_len # <<>>,
         Top(s.rest_urlparams_len) <= Len(s.rest_urlparams)
  PROVE  LET t == ExitRest_endpoint(s)
         IN  /\ t \in Listener
             /\ Live(t) => /\ Live(s) /\ SameScope(s, t)
                           /\ SameTypes(s, t) /\ t.typemap = s.typemap
                           /\ t.urlPrefixes = s.urlPrefixes - 1
                           /\ s.rest_attrs = s.urlPrefixes
                           /\ t.rest_attrs = s.rest_attrs - 1
                           /\ t.rest_urlparams = SubSeq(s.rest_urlparams, 1, Top(s.rest_urlparams_len))
                           /\ t.rest_urlparams_len = Pop(s.rest_urlparams_len)
                           /\ t.endpoint = s.endpoint
<1>0. /\ s.rest_urlparams \in Seq(Nat) /\ s.rest_urlparams_len \in Seq(Nat)
      /\ s.urlPrefixes \in Nat /\ s.rest_attrs \in Nat
  BY ListenerTypes
<1>1. Stays(s, Panic(s, "ExitRest_endpoint")) /\ ~Live(Panic(s, "ExitRest_endpoint"))
  BY PanicStays DEF Callbacks
<1>2. CASE s.urlPrefixes = 0 \/ s.rest_attrs # s.urlPrefixes
  BY <1>1, <1>2 DEF ExitRest_endpoint, Stays
<1>3. CASE ~(s.urlPrefixes = 0 \/ s.rest_attrs # s.urlPrefixes)
  <2>. DEFINE n == s.urlPrefixes - 1
              m == s.rest_attrs - 1
              below == SubSeq(s.rest_urlparams, 1, Top(s.rest_urlparams_len))
              lens == Pop(s.rest_urlparams_len)
              t == [s EXCEPT !.urlPrefixes = n, !.rest_attrs = m, !.rest_urlparams = below,
                             !.rest_urlparams_len = lens]
  <2>1. n \in Nat /\ m \in Nat
    BY <1>0, <1>3
  <2>2. below \in Seq(Nat)
    <3>1. Top(s.rest_urlparams_len) \in Nat
      BY <1>0 DEF Top
    <3>. QED
      BY SMTT(60), <1>0, <3>1
  <2>3. lens \in Seq(Nat)
    BY SMTT(60), <1>0 DEF Pop
  <2>4. ExitRest_endpoint(s) = t
    BY <1>3 DEF ExitRest_endpoint
  <2>. HIDE DEF n, m, below, lens
  <2>5. /\ t \in Listener
        /\ Live(t) => /\ Live(s) /\ SameScope(s, t)
                      /\ SameTypes(s, t) /\ t.typemap = s.typemap
                      /\ t.urlPrefixes = n
                      /\ t.rest_attrs = m
                      /\ t.rest_urlparams = below
                      /\ t.rest_urlparams_len = lens
                      /\ t.endpoint = s.endpoint
    BY <2>1, <2>2, <2>3 DEF Live, Listener, SameScope, SameTypes
  <2>. QED
    BY <1>3, <2>4, <2>5 DEF n, m, below, lens
<1>. QED
  BY <1>2, <1>3

\* A field goes to the map that fields go to.
LEMMA FieldGoesToTypemap ==
  ASSUME NEW s \in Listener, Live(EnterField(s))
  PROVE  s.typemap # 0 /\ EnterField(s).field.top = s.typemap
  BY AddFieldStays DEF EnterField, Callbacks

-----------------------------------------------------------------------------
\* The stack of expressions

\* No helper but those of expressions touches the stack of expressions.
LEMMA HelpersQuiet ==
  ASSUME NEW s, NEW t, Quiet(s, t), NEW c
  PROVE  /\ Quiet(s, Panic(t, c)) /\ Quiet(s, popScope(t)) /\ Quiet(s, peekAttrs(t))
         /\ \A k, a, r : Quiet(s, pushScope(t, k, a, r))
         /\ \A x : Quiet(s, addToCurrentScope(t, x)) /\ Quiet(s, lastStatement(t, x, c))
         /\ Quiet(s, FreshTypemap(t)) /\ Quiet(s, AddField(t, c)) /\ Quiet(s, CurrentType(t, c))
         /\ Quiet(s, SomeField(t, c)) /\ \A k : Quiet(s, PushType(t, k))
         /\ \A x : Quiet(s, applyAnnotations(t, x)) /\ Quiet(s, MakeConstraint(t, x))
         /\ Quiet(s, PopType(t)) /\ Quiet(s, EmptyType(t)) /\ Quiet(s, TypeAttrs(t))
<1>1. \A x : Quiet(s, Panic(t, x))
  BY DEF Quiet, Panic
<1>2. \A k, a, r : Quiet(s, pushScope(t, k, a, r))
  BY DEF Quiet, pushScope
<1>3. Quiet(s, popScope(t)) /\ Quiet(s, peekAttrs(t))
  BY <1>1 DEF Quiet, popScope, peekAttrs
<1>4. \A x : Quiet(s, addToCurrentScope(t, x)) /\ Quiet(s, lastStatement(t, x, c))
  BY <1>1 DEF Quiet, addToCurrentScope, lastStatement
<1>5. Quiet(s, FreshTypemap(t)) /\ Quiet(s, AddField(t, c)) /\ Quiet(s, CurrentType(t, c))
  BY <1>1 DEF Quiet, FreshTypemap, AddField, CurrentType
<1>6. Quiet(s, SomeField(t, c)) /\ \A k : Quiet(s, PushType(t, k))
  BY <1>1 DEF Quiet, SomeField, PushType
<1>7. \A x : Quiet(s, applyAnnotations(t, x)) /\ Quiet(s, MakeConstraint(t, x))
  BY <1>1 DEF Quiet, applyAnnotations, MakeConstraint
<1>8. Quiet(s, PopType(t)) /\ Quiet(s, EmptyType(t)) /\ Quiet(s, TypeAttrs(t))
  BY DEF Quiet, PopType, EmptyType, TypeAttrs
<1>. QED
  BY <1>1, <1>2, <1>3, <1>4, <1>5, <1>6, <1>7, <1>8

\* Nor do the callbacks of types, applications, endpoints, statements and view headers.
LEMMA TypeCallbacksQuiet ==
  ASSUME NEW s, "exprs" \in DOMAIN s, NEW w
  PROVE  /\ Quiet(s, EnterReference(s)) /\ Quiet(s, ExitReference(s)) /\ Quiet(s, EnterTypes(s, w))
         /\ Quiet(s, exitSetOrSequence_type(s, w)) /\ Quiet(s, EnterUser_defined_type(s))
         /\ Quiet(s, EnterField_type(s, w)) /\ Quiet(s, ExitField_type(s, w))
         /\ Quiet(s, EnterInplace_tuple(s)) /\ Quiet(s, ExitInplace_tuple(s))
         /\ Quiet(s, EnterField(s)) /\ Quiet(s, ExitField(s, w))
         /\ Quiet(s, EnterTable_stmts(s, w)) /\ Quiet(s, EnterTable_def(s, w))
         /\ Quiet(s, EnterTable(s, w)) /\ Quiet(s, ExitTable(s)) /\ Quiet(s, EnterUnion(s, w))
         /\ Quiet(s, ExitUnion(s, w)) /\ Quiet(s, EnterAlias(s, w)) /\ Quiet(s, ExitAlias(s, w))
         /\ Quiet(s, EnterAnnotation(s)) /\ Quiet(s, EnterAnnotation_value(s))
<1>0. Quiet(s, s)
  BY DEF Quiet
<1>1. Quiet(s, EnterReference(s)) /\ Quiet(s, ExitReference(s)) /\ Quiet(s, EnterTypes(s, w))
  BY <1>0, HelpersQuiet DEF Quiet, EnterReference, ExitReference, EnterTypes
<1>2. Quiet(s, exitSetOrSequence_type(s, w)) /\ Quiet(s, EnterUser_defined_type(s))
  <2>. DEFINE a == CurrentType(s, "exitSetOrSequence_type")
              b == IF s.field.attrs THEN pushScope(popScope(a), "Type", TRUE, "set_type") ELSE a
              c == MakeConstraint(b, Has(w, "size_spec"))
  <2>1. Quiet(s, a) /\ Quiet(s, CurrentType(s, "EnterUser_defined_type"))
    BY <1>0, HelpersQuiet
  <2>. HIDE DEF a
  <2>2. Quiet(s, popScope(a))
    BY <2>1, HelpersQuiet
  <2>3. Quiet(s, b)
    BY <2>1, <2>2, HelpersQuiet
  <2>. HIDE DEF b
  <2>4. Quiet(s, c)
    BY <2>3, HelpersQuiet
  <2>. HIDE DEF c
  <2>5. \A x : Quiet(s, [c EXCEPT !.field.prim = x])
    BY <2>4 DEF Quiet
  <2>6. Quiet(s, exitSetOrSequence_type(s, w))
    BY <2>5 DEF exitSetOrSequence_type, a, b, c
  <2>. QED
    BY <1>0, <2>1, <2>6 DEF EnterUser_defined_type
<1>3. Quiet(s, EnterField_type(s, w)) /\ Quiet(s, ExitField_type(s, w))
  <2>. DEFINE a == [CurrentType(s, "EnterField_type") EXCEPT
                     !.field.attrs = HasAny(w, {"attribs_or_modifiers", "annotations"})]
              b == MakeConstraint(s, HasAny(w, {"size_spec", "array_size"}))
  <2>1. Quiet(s, CurrentType(s, "EnterField_type")) /\ Quiet(s, b)
    BY <1>0, HelpersQuiet
  <2>2. Quiet(s, a)
    BY <2>1 DEF Quiet
  <2>3. Quiet(s, pushScope(a, "Type", TRUE, "field_type")) /\ Quiet(s, popScope(b))
    BY <2>1, <2>2, HelpersQuiet
  <2>. QED
    BY <2>1, <2>2, <2>3 DEF EnterField_type, ExitField_type
<1>4. Quiet(s, EnterInplace_tuple(s)) /\ Quiet(s, ExitInplace_tuple(s))
  BY <1>0, HelpersQuiet DEF Quiet, EnterInplace_tuple, ExitInplace_tuple
<1>5. Quiet(s, EnterField(s)) /\ Quiet(s, ExitField(s, w))
  BY <1>0, HelpersQuiet DEF Quiet, EnterField, ExitField
<1>6. Quiet(s, EnterTable_stmts(s, w)) /\ Quiet(s, EnterTable_def(s, w))
  BY <1>0, HelpersQuiet DEF Quiet, EnterTable_stmts, EnterTable_def
<1>7. Quiet(s, EnterTable(s, w)) /\ Quiet(s, EnterUnion(s, w))
  <2>1. \A k : Quiet(s, PushType(s, k)) /\ Quiet(s, Panic(s, k))
    BY <1>0, HelpersQuiet
  <2>2. \A k, x : /\ Quiet(s, pushScope(PushType(s, k), "Type", x, "table"))
                  /\ Quiet(s, pushScope(PushType(s, k), "Type", x, "union"))
    BY <2>1, HelpersQuiet
  <2>. QED
    BY <2>1, <2>2 DEF EnterTable, EnterUnion
<1>8. Quiet(s, ExitTable(s)) /\ Quiet(s, ExitUnion(s, w))
  <2>1. \A x : Quiet(s, applyAnnotations(s, x))
    BY <1>0, HelpersQuiet
  <2>2. \A x : Quiet(s, popScope(applyAnnotations(s, x)))
    BY <2>1, HelpersQuiet
  <2>3. \A x : Quiet(s, PopType(popScope(applyAnnotations(s, x))))
    BY <2>2, HelpersQuiet
  <2>. QED
    BY <2>2, <2>3 DEF ExitTable, ExitUnion
<1>9. Quiet(s, EnterAlias(s, w))
  <2>. DEFINE n == [s EXCEPT !.field = NoFields]
              a == AddField(PushType(n, "empty"), "EnterAlias")
              b == [a EXCEPT !.field.attrs = HasAny(w, {"attribs_or_modifiers", "annotation"})]
  <2>1. Quiet(s, n) /\ Quiet(s, Panic(s, "EnterAlias"))
    BY <1>0, HelpersQuiet DEF Quiet
  <2>. HIDE DEF n
  <2>2. Quiet(s, PushType(n, "empty"))
    BY <2>1, HelpersQuiet
  <2>3. Quiet(s, a)
    BY <2>2, HelpersQuiet
  <2>. HIDE DEF a
  <2>4. Quiet(s, b)
    BY <2>3 DEF Quiet
  <2>5. Quiet(s, pushScope(b, "Type", TRUE, "alias"))
    BY <2>4, HelpersQuiet
  <2>. QED
    BY <2>1, <2>4, <2>5 DEF EnterAlias, n, a
<1>10. Quiet(s, ExitAlias(s, w))
  <2>. DEFINE n == [s EXCEPT !.types = Pop(@)]
  <2>1. Quiet(s, n)
    BY <1>0 DEF Quiet
  <2>. HIDE DEF n
  <2>2. Quiet(s, FreshTypemap(n))
    BY <2>1, HelpersQuiet
  <2>3. Quiet(s, popScope(FreshTypemap(n)))
    BY <2>2, HelpersQuiet
  <2>. QED
    BY <2>2, <2>3 DEF ExitAlias, n
<1>11. Quiet(s, EnterAnnotation(s)) /\ Quiet(s, EnterAnnotation_value(s))
  BY <1>0, HelpersQuiet DEF Quiet, EnterAnnotation, EnterAnnotation_value
<1>. QED
  BY <1>1, <1>2, <1>3, <1>4, <1>5, <1>6, <1>7, <1>8, <1>9, <1>10, <1>11

LEMMA AppCallbacksQuiet ==
  ASSUME NEW s, "exprs" \in DOMAIN s, NEW w
  PROVE  /\ \A t \in EnterName_with_attribs(s) : Quiet(s, t)
         /\ Quiet(s, EnterApp_decl(s, w)) /\ Quiet(s, ExitApp_decl(s, w))
         /\ Quiet(s, EnterModel_name(s))
<1>0. Quiet(s, s)
  BY DEF Quiet
<1>1. \A t \in EnterName_with_attribs(s) : Quiet(s, t)
  <2>1. \A i : Quiet(s, [s EXCEPT !.app = i])
    BY <1>0 DEF Quiet
  <2>2. \A i : Quiet(s, [s EXCEPT !.apps = Append(@, NewApp), !.app = i])
    BY <1>0 DEF Quiet
  <2>. QED
    BY <2>1, <2>2 DEF EnterName_with_attribs
<1>2. Quiet(s, EnterApp_decl(s, w))
  <2>1. \A e, m : Quiet(s, [s EXCEPT !.apps[s.app] = e, !.rest_attrs = 0, !.typemap = m])
    BY <1>0 DEF Quiet
  <2>2. \A e, m : Quiet(s, pushScope([s EXCEPT !.apps[s.app] = e, !.rest_attrs = 0, !.typemap = m],
                                     "Application", TRUE, "app_decl"))
    BY <2>1, HelpersQuiet
  <2>. QED
    BY <2>1, <2>2 DEF EnterApp_decl
<1>3. Quiet(s, ExitApp_decl(s, w)) /\ Quiet(s, EnterModel_name(s))
  BY <1>0, HelpersQuiet DEF Quiet, ExitApp_decl, EnterModel_name
<1>. QED
  BY <1>1, <1>2, <1>3

LEMMA EndpointCallbacksQuiet ==
  ASSUME NEW s, "exprs" \in DOMAIN s, NEW w
  PROVE  /\ Quiet(s, EnterHttp_path_var_with_type(s, w)) /\ Quiet(s, ExitHttp_path_var_with_type(s, w))
         /\ Quiet(s, EnterHttp_path(s)) /\ Quiet(s, ExitHttp_path(s))
         /\ Quiet(s, EnterRest_endpoint(s)) /\ Quiet(s, ExitRest_endpoint(s))
         /\ Quiet(s, EnterMethod_def(s)) /\ Quiet(s, ExitMethod_def(s))
         /\ Quiet(s, EnterSimple_endpoint(s, w)) /\ Quiet(s, ExitEndpoint(s, w))
         /\ Quiet(s, EnterCollector(s, w)) /\ Quiet(s, ExitCollector(s, w))
         /\ Quiet(s, EnterEvent(s, w)) /\ \A t \in EnterSubscribe(s, w) : Quiet(s, t)
         /\ Quiet(s, EnterParams(s)) /\ Quiet(s, EnterParam(s, w)) /\ Quiet(s, ExitParam(s, w))
         /\ Quiet(s, ExitParams(s))
<1>0. Quiet(s, s)
  BY DEF Quiet
<1>. DEFINE at(e) == [s EXCEPT !.endpoint = e]
<1>1. \A e : Quiet(s, at(e))
  BY <1>0 DEF Quiet
<1>. HIDE DEF at
<1>2. /\ Quiet(s, EnterHttp_path_var_with_type(s, w)) /\ Quiet(s, ExitHttp_path_var_with_type(s, w))
      /\ Quiet(s, EnterParam(s, w))
  <2>1. /\ Quiet(s, AddField(s, "EnterHttp_path_var_with_type"))
        /\ Quiet(s, CurrentType(s, "ExitHttp_path_var_with_type"))
        /\ Quiet(s, AddField(s, "EnterParam"))
    BY <1>0, HelpersQuiet
  <2>2. \A t, x : Quiet(s, t) => Quiet(s, [t EXCEPT !.rest_urlparams = Append(@, x)])
    BY DEF Quiet
  <2>. QED
    BY <1>0, <2>1, <2>2 DEF EnterHttp_path_var_with_type, ExitHttp_path_var_with_type, EnterParam
<1>3. Quiet(s, EnterHttp_path(s)) /\ Quiet(s, ExitHttp_path(s))
  BY <1>0 DEF Quiet, EnterHttp_path, ExitHttp_path
<1>4. Quiet(s, EnterRest_endpoint(s)) /\ Quiet(s, ExitRest_endpoint(s))
  BY <1>0, HelpersQuiet DEF Quiet, EnterRest_endpoint, ExitRest_endpoint
<1>5. Quiet(s, EnterMethod_def(s)) /\ Quiet(s, EnterSimple_endpoint(s, w)) /\ Quiet(s, EnterEvent(s, w))
  <2>1. \A e, x, r : Quiet(s, pushScope(at(e), "Endpoint", x, r))
    BY <1>1, HelpersQuiet
  <2>. QED
    BY <1>0, <1>1, <2>1 DEF EnterMethod_def, EnterSimple_endpoint, EnterEvent, at
<1>6. Quiet(s, ExitMethod_def(s)) /\ Quiet(s, ExitEndpoint(s, w))
  <2>1. Quiet(s, popScope(s))
    BY <1>0, HelpersQuiet
  <2>2. \A t, e : Quiet(s, t) => Quiet(s, [t EXCEPT !.endpoint = e])
    BY DEF Quiet
  <2>. QED
    BY <1>0, <2>1, <2>2 DEF ExitMethod_def, ExitEndpoint
<1>7. Quiet(s, EnterCollector(s, w)) /\ Quiet(s, ExitCollector(s, w))
  BY <1>0, HelpersQuiet DEF EnterCollector, ExitCollector
<1>8. \A t \in EnterSubscribe(s, w) : Quiet(s, t)
  <2>. DEFINE b == IF Has(w, "statements")
                     THEN pushScope(at("plain"), "Endpoint", Has(w, "attribs_or_modifiers"), "subscribe")
                     ELSE at("plain")
  <2>1. Quiet(s, b)
    BY <1>1, HelpersQuiet
  <2>. HIDE DEF b
  <2>2. Quiet(s, Panic(b, "EnterSubscribe"))
    BY <2>1, HelpersQuiet
  <2>3. \A x : Quiet(s, [b EXCEPT !.apps = Append(@, x)])
    BY <2>1 DEF Quiet
  <2>. QED
    BY <2>1, <2>2, <2>3 DEF EnterSubscribe, b, at
<1>9. Quiet(s, EnterParams(s)) /\ Quiet(s, ExitParam(s, w)) /\ Quiet(s, ExitParams(s))
  <2>1. /\ Quiet(s, FreshTypemap(s)) /\ Quiet(s, CurrentType(s, "ExitParam"))
        /\ Quiet(s, SomeField(s, "ExitParam")) /\ Quiet(s, Panic(s, "ExitParams"))
    BY <1>0, HelpersQuiet
  <2>2. \A t, x : Quiet(s, t) => Quiet(s, [t EXCEPT !.nativeSet = x])
    BY DEF Quiet
  <2>3. Quiet(s, [s EXCEPT !.field = NoFields, !.typemap = 0])
    BY <1>0 DEF Quiet
  <2>. QED
    BY <2>1, <2>2, <2>3 DEF EnterParams, ExitParam, ExitParams
<1>. QED
  BY <1>1, <1>2, <1>3, <1>4, <1>5, <1>6, <1>7, <1>8, <1>9

LEMMA StatementCallbacksQuiet ==
  ASSUME NEW s, "exprs" \in DOMAIN s, NEW w
  PROVE  /\ Quiet(s, EnterRet_stmt(s)) /\ Quiet(s, EnterCall_stmt(s)) /\ Quiet(s, ExitTarget(s))
         /\ Quiet(s, ExitSubscriber(s)) /\ Quiet(s, EnterCall_arg(s))
         /\ Quiet(s, EnterCollector_call_stmt(s)) /\ Quiet(s, EnterCollector_pubsub_call(s))
         /\ Quiet(s, EnterCollector_http_stmt(s)) /\ Quiet(s, EnterCollector_action_stmt(s))
         /\ Quiet(s, EnterIf_stmt(s)) /\ Quiet(s, EnterElse_stmt(s)) /\ Quiet(s, EnterFor_stmt(s, w))
         /\ Quiet(s, EnterGroup_stmt(s)) /\ Quiet(s, EnterOne_of_stmt(s)) /\ Quiet(s, ExitBlock(s))
         /\ Quiet(s, EnterOne_of_cases(s)) /\ Quiet(s, EnterText_stmt(s, w))
         /\ Quiet(s, EnterDoc_string(s)) /\ Quiet(s, ExitStatements(s, w))
<1>0. Quiet(s, s)
  BY DEF Quiet
<1>1. /\ Quiet(s, EnterRet_stmt(s)) /\ Quiet(s, EnterCall_stmt(s)) /\ Quiet(s, ExitTarget(s))
      /\ Quiet(s, ExitSubscriber(s)) /\ Quiet(s, EnterCall_arg(s))
  BY <1>0, HelpersQuiet DEF EnterRet_stmt, EnterCall_stmt, ExitTarget, ExitSubscriber, EnterCall_arg
<1>2. /\ Quiet(s, EnterCollector_call_stmt(s)) /\ Quiet(s, EnterCollector_pubsub_call(s))
      /\ Quiet(s, EnterCollector_http_stmt(s)) /\ Quiet(s, EnterCollector_action_stmt(s))
  BY <1>0, HelpersQuiet
  DEF EnterCollector_call_stmt, EnterCollector_pubsub_call, EnterCollector_http_stmt,
      EnterCollector_action_stmt
<1>3. \A kind, rule : Quiet(s, EnterBlock(s, kind, rule))
  <2>1. Quiet(s, addToCurrentScope(s, "other"))
    BY <1>0, HelpersQuiet
  <2>2. \A kind, rule : Quiet(s, pushScope(addToCurrentScope(s, "other"), kind, FALSE, rule))
    BY <2>1, HelpersQuiet
  <2>. QED
    BY <2>1, <2>2 DEF EnterBlock
<1>4. /\ Quiet(s, EnterIf_stmt(s)) /\ Quiet(s, EnterElse_stmt(s)) /\ Quiet(s, EnterFor_stmt(s, w))
      /\ Quiet(s, EnterGroup_stmt(s)) /\ Quiet(s, EnterOne_of_stmt(s))
  BY <1>3 DEF EnterIf_stmt, EnterElse_stmt, EnterFor_stmt, EnterGroup_stmt, EnterOne_of_stmt
<1>5. Quiet(s, ExitBlock(s)) /\ Quiet(s, EnterOne_of_cases(s)) /\ Quiet(s, ExitStatements(s, w))
  BY <1>0, HelpersQuiet DEF ExitBlock, EnterOne_of_cases, ExitStatements
<1>6. \A t, u, c : Quiet(s, t) /\ Quiet(s, u) => Quiet(s, DocStringOf(t, u, c))
  BY HelpersQuiet DEF DocStringOf
<1>. DEFINE to(p) == [s EXCEPT !.pendingDocString = p]
<1>7. \A p : Quiet(s, to(p))
  BY <1>0 DEF Quiet
<1>. HIDE DEF to
<1>8. Quiet(s, EnterText_stmt(s, w))
  <2>. DEFINE added == IF TopKind(s) \in Blocks /\ Top(s.scope).last = "text" THEN to(TRUE)
                       ELSE addToCurrentScope(to(TRUE), "text")
  <2>1. Quiet(s, added) /\ Quiet(s, addToCurrentScope(s, "action"))
    BY <1>0, <1>7, HelpersQuiet
  <2>. HIDE DEF added
  <2>2. Quiet(s, [addToCurrentScope(s, "action") EXCEPT !.pendingDocString = FALSE])
    BY <2>1 DEF Quiet
  <2>3. Quiet(s, DocStringOf(to(TRUE), added, "EnterText_stmt"))
    BY <1>6, <1>7, <2>1
  <2>. QED
    BY <2>2, <2>3 DEF EnterText_stmt, added, to
<1>9. Quiet(s, EnterDoc_string(s))
  <2>1. \A x, c : Quiet(s, lastStatement(to(FALSE), x, c))
    BY <1>7, HelpersQuiet
  <2>2. Quiet(s, peekAttrs(s))
    BY <1>0, HelpersQuiet
  <2>3. \A x, c : Quiet(s, DocStringOf(to(FALSE), lastStatement(to(FALSE), x, c), c))
    BY <1>6, <1>7, <2>1
  <2>. QED
    BY <2>2, <2>3 DEF EnterDoc_string, to
<1>. QED
  BY <1>1, <1>2, <1>4, <1>5, <1>8, <1>9

LEMMA ViewCallbacksQuiet ==
  ASSUME NEW s, "exprs" \in DOMAIN s, NEW w
  PROVE  /\ Quiet(s, EnterView(s)) /\ Quiet(s, EnterView_param(s)) /\ Quiet(s, ExitView_param(s))
         /\ Quiet(s, EnterView_return_type(s)) /\ Quiet(s, ExitView_type_spec(s))
<1>0. Quiet(s, s)
  BY DEF Quiet
<1>1. Quiet(s, FreshTypemap(s)) /\ \A c : Quiet(s, AddField(s, c)) /\ Quiet(s, SomeField(s, c))
  BY <1>0, HelpersQuiet
<1>2. \A t, x : Quiet(s, t) => Quiet(s, [t EXCEPT !.returns = x])
  BY DEF Quiet
<1>. QED
  BY <1>1, <1>2 DEF EnterView, EnterView_param, ExitView_param, EnterView_return_type, ExitView_type_spec

\* Steps that follow each other.
LEMMA SettlesOn ==
  ASSUME NEW s, NEW t, NEW u, Settles(s, t), Settles(t, u)
  PROVE  Settles(s, u)
<1>1. SUFFICES ASSUME NEW k, Stacked(s.exprs, k) PROVE \E m \in 0..k : Stacked(u.exprs, m)
  BY DEF Settles
<1>2. k \in Nat
  BY <1>1 DEF Stacked
<1>3. PICK l \in 0..k : Stacked(t.exprs, l)
  BY <1>1 DEF Settles
<1>4. PICK m \in 0..l : Stacked(u.exprs, m)
  BY <1>3 DEF Settles
<1>. QED
  BY <1>2, <1>3, <1>4

LEMMA ShiftsOn ==
  ASSUME NEW s \in Listener, NEW t, NEW u, NEW a \in Int, NEW b \in Int, Shifts(s, t, a), Shifts(t, u, b)
  PROVE  Shifts(s, u, a + b)
<1>1. s.exprs \in Seq(AnyExpr)
  BY ListenerTypes
<1>2. Len(s.exprs) \in Nat
  BY <1>1
<1>3. SUFFICES ASSUME Live(u) PROVE Live(s) /\ Len(u.exprs) = Len(s.exprs) + (a + b) /\ Settles(s, u)
  BY DEF Shifts
<1>4. Live(t) /\ Len(u.exprs) = Len(t.exprs) + b /\ Settles(t, u)
  BY <1>3 DEF Shifts
<1>5. Live(s) /\ Len(t.exprs) = Len(s.exprs) + a /\ Settles(s, t)
  BY <1>4 DEF Shifts
<1>6. Len(u.exprs) = Len(s.exprs) + (a + b)
  <2>1. \A x, y, z : x \in Nat /\ y = x + a /\ z = y + b => z = x + (a + b)
    OBVIOUS
  <2>. QED
    BY <1>2, <1>4, <1>5, <2>1
<1>. QED
  BY <1>4, <1>5, <1>6, SettlesOn

\* What the helpers of the stack of expressions do to it.
LEMMA SameShifts ==
  ASSUME NEW s \in Listener, NEW t, t.exprs = s.exprs, Live(t) => Live(s)
  PROVE  Shifts(s, t, 0)
<1>1. s.exprs \in Seq(AnyExpr)
  BY ListenerTypes
<1>2. Len(s.exprs) \in Nat
  BY <1>1
<1>3. Len(t.exprs) = Len(s.exprs) + 0
  BY <1>2
<1>4. Settles(s, t)
  <2>1. \A n \in Nat : n \in 0..n
    OBVIOUS
  <2>2. \A k : Stacked(s.exprs, k) => k \in Nat
    BY <1>2 DEF Stacked
  <2>. QED
    BY <2>1, <2>2 DEF Settles
<1>. QED
  BY <1>3, <1>4 DEF Shifts

LEMMA PanicShifts ==
  ASSUME NEW s \in Listener, NEW c \in Callbacks, NEW n
  PROVE  Shifts(s, Panic(s, c), n)
  BY PanicStays DEF Shifts

LEMMA PushExprShifts ==
  ASSUME NEW s \in Listener, NEW k \in AnyExpr \ {"transform"}
  PROVE  Shifts(s, PushExpr(s, k), 1)
<1>1. s.exprs \in Seq(AnyExpr)
  BY ListenerTypes
<1>. DEFINE e == s.exprs
            f == Append(e, k)
            t == PushExpr(s, k)
<1>2. Len(f) = Len(e) + 1 /\ Len(e) \in Nat /\ f[Len(e) + 1] = k /\ \A i \in 1..Len(e) : f[i] = e[i]
  BY <1>1
<1>3. t.exprs = f /\ (Live(t) => Live(s))
  BY DEF PushExpr, Live, Listener
<1>. HIDE DEF e, f, t
<1>4. ASSUME NEW m, Stacked(e, m) PROVE Stacked(f, m)
  <2>1. m \in 0..Len(f) /\ m <= Len(e)
    BY <1>2, <1>4 DEF Stacked
  <2>2. ASSUME NEW i \in 1..Len(f) PROVE f[i] = "transform" <=> i <= m
    BY <1>2, <1>4, <2>1, <2>2 DEF Stacked
  <2>. QED
    BY <2>1, <2>2 DEF Stacked
<1>5. \A m : Stacked(e, m) => m \in 0..m
  BY DEF Stacked
<1>. QED
  BY <1>2, <1>3, <1>4, <1>5 DEF Shifts, Settles, e, t

LEMMA popExprsShifts ==
  ASSUME NEW s \in Listener, NEW n \in Nat, NEW c \in Callbacks
  PROVE  Shifts(s, popExprs(s, n, c), -n)
<1>1. s.exprs \in Seq(AnyExpr)
  BY ListenerTypes
<1>. DEFINE e == s.exprs
            f == SubSeq(e, 1, Len(e) - n)
            t == popExprs(s, n, c)
<1>0. Len(e) \in Nat
  BY <1>1
<1>2. CASE Len(e) < n
  BY <1>2, PanicShifts DEF popExprs
<1>3. CASE Len(e) >= n
  <2>1. Len(f) = Len(e) - n /\ \A i \in 1..(Len(e) - n) : f[i] = e[i]
    BY <1>1, <1>3
  <2>2. t.exprs = f /\ (Live(t) => Live(s))
    <3>1. t = [s EXCEPT !.exprs = f]
      BY <1>0, <1>3 DEF popExprs
    <3>. HIDE DEF e, f, t
    <3>. QED
      BY <3>1 DEF Live, Listener
  <2>. HIDE DEF e, f, t
  <2>3. ASSUME NEW k, Stacked(e, k) PROVE \E m \in 0..k : Stacked(f, m)
    <3>1. k \in 0..Len(e) /\ \A i \in 1..Len(e) : e[i] = "transform" <=> i <= k
      BY <2>3 DEF Stacked
    <3>2. CASE k <= Len(f)
      <4>1. Stacked(f, k)
        BY <1>0, <1>3, <2>1, <3>1, <3>2 DEF Stacked
      <4>. QED
        BY <3>1, <4>1
    <3>3. CASE k > Len(f)
      <4>1. Stacked(f, Len(f)) /\ Len(f) \in 0..k
        BY <1>0, <1>3, <2>1, <3>1, <3>3 DEF Stacked
      <4>. QED
        BY <4>1
    <3>. QED
      BY <1>0, <1>3, <2>1, <3>1, <3>2, <3>3
  <2>. QED
    BY <1>0, <2>1, <2>2, <2>3 DEF Shifts, Settles, e, t
<1>. QED
  BY <1>0, <1>2, <1>3

\* Looking at the top adds nothing; combining operands takes them and adds one.
LEMMA TopExprShifts ==
  ASSUME NEW s \in Listener, NEW kinds, NEW c \in Callbacks
  PROVE  Shifts(s, TopExpr(s, kinds, c), 0)
  BY SameShifts, PanicShifts DEF TopExpr

LEMMA CombineShifts ==
  ASSUME NEW s \in Listener, NEW n \in Nat, NEW k \in AnyExpr \ {"transform"}, NEW c \in Callbacks
  PROVE  Shifts(s, Combine(s, n, k, c), 1 - n)
<1>1. Shifts(s, popExprs(s, n, c), -n)
  BY popExprsShifts
<1>2. popExprs(s, n, c) \in Listener
  BY popExprsStays DEF Stays
<1>3. Shifts(popExprs(s, n, c), Combine(s, n, k, c), 1)
  BY <1>2, PushExprShifts DEF Combine
<1>4. Shifts(s, Combine(s, n, k, c), (-n) + 1)
  BY <1>1, <1>3, ShiftsOn
<1>5. (-n) + 1 = 1 - n
  OBVIOUS
<1>. QED
  BY <1>4, <1>5

LEMMA PutIntoShifts ==
  ASSUME NEW s \in Listener, NEW kinds, NEW c \in Callbacks
  PROVE  Shifts(s, PutInto(s, kinds, c), -1)
<1>1. Shifts(s, popExprs(s, 1, c), -1)
  BY popExprsShifts
<1>2. popExprs(s, 1, c) \in Listener
  BY popExprsStays DEF Stays
<1>3. Shifts(popExprs(s, 1, c), PutInto(s, kinds, c), 0)
  BY <1>2, TopExprShifts DEF PutInto
<1>4. Shifts(s, PutInto(s, kinds, c), (-1) + 0)
  BY <1>1, <1>3, ShiftsOn
<1>. QED
  BY <1>4

\* After it, a transform is on top.
LEMMA TransformOnTop ==
  ASSUME NEW s \in Listener, NEW c \in Callbacks
  PROVE  /\ Live(TopExpr(s, {"transform"}, c)) => TopIs(TopExpr(s, {"transform"}, c), {"transform"})
         /\ Live(PutInto(s, {"transform"}, c)) => TopIs(PutInto(s, {"transform"}, c), {"transform"})
<1>1. ASSUME NEW u \in Listener, Live(TopExpr(u, {"transform"}, c))
      PROVE  TopIs(TopExpr(u, {"transform"}, c), {"transform"})
  BY <1>1, PanicStays DEF TopExpr
<1>2. popExprs(s, 1, c) \in Listener
  BY popExprsStays DEF Stays
<1>. QED
  BY <1>1, <1>2 DEF PutInto

\* A callback that leaves the stack alone adds nothing.
LEMMA QuietShifts ==
  ASSUME NEW s \in Listener, NEW t, Quiet(s, t), Live(t) => Live(s)
  PROVE  Shifts(s, t, 0)
  BY SameShifts DEF Quiet

\* Adding a field to a type leaves the stack alone.
LEMMA FieldsShift ==
  ASSUME NEW s \in Listener, NEW c \in Callbacks
  PROVE  Shifts(s, AddField(s, c), 0) /\ Shifts(s, SomeField(s, c), 0)
<1>1. Quiet(s, s)
  BY DEF Quiet, Listener
<1>2. Quiet(s, AddField(s, c)) /\ Quiet(s, SomeField(s, c))
  BY <1>1, HelpersQuiet
<1>3. (Live(AddField(s, c)) => Live(s)) /\ (Live(SomeField(s, c)) => Live(s))
  BY AddFieldStays, SomeFieldStays DEF Stays
<1>. QED
  BY <1>2, <1>3, QuietShifts

\* The callbacks of relational functions.
LEMMA RelationalCallbacksShift ==
  ASSUME NEW s \in Listener, NEW w
  PROVE  /\ Shifts(s, ExitFunc_arg(s), -1) /\ Shifts(s, ExitRank_expr(s), -1)
         /\ Shifts(s, EnterExpr_rank_func(s), 0) /\ Shifts(s, ExitExpr_rank_func(s), 0)
         /\ Shifts(s, EnterExpr_agg_func(s), 0) /\ Shifts(s, ExitExpr_agg_func(s), 0)
         /\ Shifts(s, ExitE_scope_var(s), 0)
         /\ Shifts(s, ExitFirst_func_target(s, w), IF Has(w, "E_NULL") THEN 0 ELSE -1)
         /\ Shifts(s, EnterExpr_first_func(s), 0) /\ Shifts(s, ExitExpr_first_func(s), 0)
         /\ Shifts(s, ExitE_single_arg_func(s), 1) /\ Shifts(s, ExitExpr_single_arg_func(s), -2)
         /\ Shifts(s, ExitExpr_any_func(s), -1) /\ Shifts(s, ExitExpr_single_or_null(s), 0)
         /\ Shifts(s, ExitExpr_snapshot(s), 0) /\ Shifts(s, ExitExpr_count(s), 0)
         /\ Shifts(s, ExitExpr_table_of_op(s), 0) /\ Shifts(s, EnterExpr_navigate(s), 0)
         /\ Shifts(s, ExitExpr_navigate_attr(s), 0)
         /\ Shifts(s, EnterMatching_rhs(s, w), IF HasAny(w, {"E_Name", "atomT_paren"}) THEN 0 ELSE 1)
         /\ Shifts(s, ExitMatching_rhs(s, w), IF Has(w, "E_Name") THEN 1 ELSE 0)
         /\ Shifts(s, EnterSquiggly_args(s), 0) /\ Shifts(s, EnterExpr_matching(s), 0)
         /\ Shifts(s, ExitExpr_matching(s), -1)
<1>0. /\ "value" \in AnyExpr \ {"transform"} /\ "call" \in AnyExpr \ {"transform"}
      /\ "relexpr" \in AnyExpr \ {"transform"} /\ "binexpr" \in AnyExpr \ {"transform"}
      /\ "navigate" \in AnyExpr \ {"transform"}
  BY DEF AnyExpr
<1>1. /\ "ExitFunc_arg" \in Callbacks /\ "ExitRank_expr" \in Callbacks
      /\ "EnterExpr_rank_func" \in Callbacks /\ "ExitExpr_rank_func" \in Callbacks
      /\ "EnterExpr_agg_func" \in Callbacks /\ "ExitExpr_agg_func" \in Callbacks
      /\ "ExitE_scope_var" \in Callbacks /\ "ExitFirst_func_target" \in Callbacks
      /\ "EnterExpr_first_func" \in Callbacks /\ "ExitExpr_first_func" \in Callbacks
      /\ "ExitExpr_single_arg_func" \in Callbacks /\ "ExitExpr_any_func" \in Callbacks
      /\ "ExitExpr_single_or_null" \in Callbacks /\ "ExitExpr_snapshot" \in Callbacks
      /\ "ExitExpr_count" \in Callbacks /\ "ExitExpr_table_of_op" \in Callbacks
      /\ "EnterExpr_navigate" \in Callbacks /\ "ExitExpr_navigate_attr" \in Callbacks
      /\ "EnterSquiggly_args" \in Callbacks /\ "EnterExpr_matching" \in Callbacks
      /\ "ExitExpr_matching" \in Callbacks
  BY DEF Callbacks
<1>2. Shifts(s, s, 0)
  BY SameShifts
<1>3. 1 - 1 = 0 /\ 1 - 2 = -1 /\ 1 \in Nat /\ 2 \in Nat
  OBVIOUS
<1>4. Shifts(s, ExitFunc_arg(s), -1) /\ Shifts(s, ExitRank_expr(s), -1) /\ Shifts(s, ExitExpr_matching(s), -1)
  BY <1>1, PutIntoShifts DEF ExitFunc_arg, ExitRank_expr, ExitExpr_matching
<1>5. /\ Shifts(s, ExitExpr_agg_func(s), 0) /\ Shifts(s, ExitE_scope_var(s), 0)
      /\ Shifts(s, ExitExpr_first_func(s), 0) /\ Shifts(s, ExitExpr_navigate_attr(s), 0)
      /\ Shifts(s, EnterSquiggly_args(s), 0)
  BY <1>1, TopExprShifts
  DEF ExitExpr_agg_func, ExitE_scope_var, ExitExpr_first_func, ExitExpr_navigate_attr, EnterSquiggly_args
<1>6. /\ Shifts(s, EnterExpr_agg_func(s), 1 - 1) /\ Shifts(s, EnterExpr_first_func(s), 1 - 1)
      /\ Shifts(s, ExitExpr_single_or_null(s), 1 - 1) /\ Shifts(s, ExitExpr_snapshot(s), 1 - 1)
      /\ Shifts(s, ExitExpr_count(s), 1 - 1) /\ Shifts(s, ExitExpr_table_of_op(s), 1 - 1)
      /\ Shifts(s, EnterExpr_navigate(s), 1 - 1) /\ Shifts(s, EnterExpr_matching(s), 1 - 1)
      /\ Shifts(s, ExitExpr_any_func(s), 1 - 2)
  BY <1>0, <1>1, <1>3, CombineShifts
  DEF EnterExpr_agg_func, EnterExpr_first_func, ExitExpr_single_or_null, ExitExpr_snapshot,
      ExitExpr_count, ExitExpr_table_of_op, EnterExpr_navigate, EnterExpr_matching, ExitExpr_any_func
<1>7. /\ Shifts(s, ExitE_single_arg_func(s), 1)
      /\ Shifts(s, EnterMatching_rhs(s, w), IF HasAny(w, {"E_Name", "atomT_paren"}) THEN 0 ELSE 1)
      /\ Shifts(s, ExitMatching_rhs(s, w), IF Has(w, "E_Name") THEN 1 ELSE 0)
  BY <1>0, <1>2, PushExprShifts DEF ExitE_single_arg_func, EnterMatching_rhs, ExitMatching_rhs
<1>8. Shifts(s, ExitFirst_func_target(s, w), IF Has(w, "E_NULL") THEN 0 ELSE -1)
  BY <1>1, PutIntoShifts, TopExprShifts DEF ExitFirst_func_target
<1>9. Shifts(s, EnterExpr_rank_func(s), 0)
  <2>. DEFINE a == Combine(s, 1, "relexpr", "EnterExpr_rank_func")
  <2>1. Shifts(s, a, 1 - 1) /\ a \in Listener
    BY <1>0, <1>1, <1>3, CombineShifts, CombineStays DEF Stays
  <2>. HIDE DEF a
  <2>2. Shifts(a, AddField(a, "EnterExpr_rank_func"), 0)
    BY <1>1, <2>1, FieldsShift
  <2>3. Shifts(s, AddField(a, "EnterExpr_rank_func"), (1 - 1) + 0)
    BY <2>1, <2>2, ShiftsOn
  <2>. QED
    BY <2>3 DEF EnterExpr_rank_func, a
<1>10. Shifts(s, ExitExpr_rank_func(s), 0)
  <2>. DEFINE a == SomeField(s, "ExitExpr_rank_func")
  <2>1. Shifts(s, a, 0) /\ a \in Listener
    BY <1>1, FieldsShift, SomeFieldStays DEF Stays
  <2>. HIDE DEF a
  <2>2. Shifts(a, TopExpr(a, {"relexpr"}, "ExitExpr_rank_func"), 0)
    BY <1>1, <2>1, TopExprShifts
  <2>3. Shifts(s, TopExpr(a, {"relexpr"}, "ExitExpr_rank_func"), 0 + 0)
    BY <2>1, <2>2, ShiftsOn
  <2>. QED
    BY <2>3 DEF ExitExpr_rank_func, a
<1>11. Shifts(s, ExitExpr_single_arg_func(s), -2)
  <2>. DEFINE c == "ExitExpr_single_arg_func"
              a == popExprs(s, 1, c)
              b == TopExpr(a, {"binexpr"}, c)
              t == Combine(b, 2, "binexpr", c)
  <2>0. c \in Callbacks
    BY <1>1
  <2>1. Shifts(s, a, -1) /\ a \in Listener
    BY <1>3, <2>0, popExprsShifts, popExprsStays DEF Stays
  <2>2. Shifts(a, b, 0) /\ b \in Listener
    BY <2>0, <2>1, TopExprShifts, TopExprStays DEF Stays
  <2>3. Shifts(b, t, 1 - 2)
    BY <1>0, <1>3, <2>0, <2>2, CombineShifts
  <2>4. t = ExitExpr_single_arg_func(s)
    BY DEF ExitExpr_single_arg_func
  <2>. HIDE DEF a, b, t
  <2>5. Shifts(s, b, (-1) + 0)
    BY <2>1, <2>2, ShiftsOn
  <2>6. Shifts(s, t, ((-1) + 0) + (1 - 2))
    BY <2>3, <2>5, ShiftsOn
  <2>. QED
    BY <2>4, <2>6
<1>. QED
  BY <1>3, <1>4, <1>5, <1>6, <1>7, <1>8, <1>9, <1>10, <1>11

\* The callbacks of atoms, literals and one-operand rules.
LEMMA AtomCallbacksShift ==
  ASSUME NEW s \in Listener, NEW w
  PROVE  /\ Shifts(s, ExitLiteral(s), 1) /\ Shifts(s, EnterExpr_func(s), 1)
         /\ Shifts(s, EnterExpr_set(s), 1) /\ Shifts(s, EnterExpr_atom_list(s), 1)
         /\ Shifts(s, ExitList_item(s), -1) /\ Shifts(s, ExitExpr_list(s), 0)
         /\ Shifts(s, ExitEmpty_tuple(s), 1) /\ Shifts(s, EnterAtomT_implied_dot(s), 1)
         /\ Shifts(s, ExitAtomT_name(s), 1)
         /\ Shifts(s, ExitPower(s, w), IF Has(w, "powerT") THEN -1 ELSE 0)
         /\ Shifts(s, ExitUnaryTerm(s, w), 0)
         /\ Shifts(s, ExitTermT(s), -1) /\ Shifts(s, ExitBinexprT(s), -1)
         /\ Shifts(s, ExitIf_one_liner(s), -2) /\ Shifts(s, EnterIf_multiple_lines(s, w), 1)
         /\ Shifts(s, ExitIfvar(s), -1) /\ Shifts(s, ExitControl_item(s), -1)
         /\ Shifts(s, ExitElse_block_stmt(s), -1) /\ Shifts(s, ExitFinal_else(s), -1)
<1>0. /\ "value" \in AnyExpr \ {"transform"} /\ "call" \in AnyExpr \ {"transform"}
      /\ "binexpr" \in AnyExpr \ {"transform"} /\ "set" \in AnyExpr \ {"transform"}
      /\ "list" \in AnyExpr \ {"transform"} /\ "ifelse" \in AnyExpr \ {"transform"}
      /\ "ifvar" \in AnyExpr \ {"transform"}
  BY DEF AnyExpr
<1>1. /\ "ExitList_item" \in Callbacks /\ "ExitExpr_list" \in Callbacks /\ "ExitPower" \in Callbacks
      /\ "ExitUnaryTerm" \in Callbacks /\ "ExitTermT" \in Callbacks /\ "ExitBinexprT" \in Callbacks
      /\ "ExitIf_one_liner" \in Callbacks /\ "ExitIfvar" \in Callbacks
      /\ "ExitControl_item" \in Callbacks /\ "ExitElse_block_stmt" \in Callbacks
      /\ "ExitFinal_else" \in Callbacks
  BY DEF Callbacks
<1>2. Shifts(s, s, 0)
  BY SameShifts
<1>3. 1 - 1 = 0 /\ 1 - 2 = -1 /\ 1 - 3 = -2 /\ 1 \in Nat /\ 2 \in Nat /\ 3 \in Nat
  OBVIOUS
<1>4. /\ Shifts(s, ExitLiteral(s), 1) /\ Shifts(s, EnterExpr_func(s), 1)
      /\ Shifts(s, EnterExpr_set(s), 1) /\ Shifts(s, EnterExpr_atom_list(s), 1)
      /\ Shifts(s, ExitEmpty_tuple(s), 1) /\ Shifts(s, EnterAtomT_implied_dot(s), 1)
      /\ Shifts(s, ExitAtomT_name(s), 1)
  BY <1>0, PushExprShifts
  DEF ExitLiteral, EnterExpr_func, EnterExpr_set, EnterExpr_atom_list, ExitEmpty_tuple,
      EnterAtomT_implied_dot, ExitAtomT_name
<1>5. Shifts(s, EnterIf_multiple_lines(s, w), 1)
  BY <1>0, PushExprShifts DEF EnterIf_multiple_lines
<1>6. /\ Shifts(s, ExitList_item(s), -1) /\ Shifts(s, ExitControl_item(s), -1)
      /\ Shifts(s, ExitElse_block_stmt(s), -1) /\ Shifts(s, ExitFinal_else(s), -1)
  BY <1>1, PutIntoShifts DEF ExitList_item, ExitControl_item, ExitElse_block_stmt, ExitFinal_else
<1>7. Shifts(s, ExitExpr_list(s), 0)
  BY <1>1, TopExprShifts DEF ExitExpr_list
<1>8. /\ Shifts(s, ExitTermT(s), 1 - 2) /\ Shifts(s, ExitBinexprT(s), 1 - 2)
      /\ Shifts(s, ExitIf_one_liner(s), 1 - 3)
  BY <1>0, <1>1, <1>3, CombineShifts DEF ExitTermT, ExitBinexprT, ExitIf_one_liner
<1>9. Shifts(s, ExitPower(s, w), IF Has(w, "powerT") THEN -1 ELSE 0)
  <2>1. Shifts(s, Combine(s, 2, "binexpr", "ExitPower"), 1 - 2)
    BY <1>0, <1>1, <1>3, CombineShifts
  <2>. QED
    BY <1>2, <1>3, <2>1 DEF ExitPower
<1>10. Shifts(s, ExitUnaryTerm(s, w), 0)
  <2>1. Shifts(s, Combine(s, 1, "value", "ExitUnaryTerm"), 1 - 1)
    BY <1>0, <1>1, <1>3, CombineShifts
  <2>. QED
    BY <1>2, <1>3, <2>1 DEF ExitUnaryTerm
<1>11. Shifts(s, ExitIfvar(s), -1)
  <2>. DEFINE a == PutInto(s, {"ifvar", "ifelse"}, "ExitIfvar")
  <2>1. Shifts(s, a, -1) /\ a \in Listener
    BY <1>1, PutIntoShifts, PutIntoStays DEF Stays
  <2>. HIDE DEF a
  <2>2. Shifts(a, Combine(a, 1, "ifelse", "ExitIfvar"), 1 - 1)
    BY <1>0, <1>1, <1>3, <2>1, CombineShifts
  <2>3. Shifts(s, Combine(a, 1, "ifelse", "ExitIfvar"), (-1) + (1 - 1))
    BY <2>1, <2>2, ShiftsOn
  <2>. QED
    BY <2>3 DEF ExitIfvar, a
<1>. QED
  BY <1>3, <1>4, <1>5, <1>6, <1>7, <1>8, <1>9, <1>10, <1>11

\* reverseOp takes the operands of a chain and pushes one expression.
LEMMA reverseOpShifts ==
  ASSUME NEW s \in Listener, NEW w, Len(w) \in Nat, NEW r \in Callbacks
  PROVE  Shifts(s, reverseOp(s, w, r), IF Len(w) > 1 THEN 1 - Len(w) ELSE 0)
<1>1. "binexpr" \in AnyExpr \ {"transform"}
  BY DEF AnyExpr
<1>2. Shifts(s, Combine(s, Len(w), "binexpr", r), 1 - Len(w)) /\ Shifts(s, s, 0)
  BY <1>1, CombineShifts, SameShifts
<1>. QED
  BY <1>2 DEF reverseOp

\* The callbacks of transforms and their statements.
LEMMA TransformCallbacksShift ==
  ASSUME NEW s \in Listener, NEW w
  PROVE  /\ OnTransform(s, ExitExpr_simple_assign(s), -1)
         /\ OnTransform(s, ExitExpr_let_statement(s), -1)
         /\ OnTransform(s, ExitExpr_table_of_statement(s), -1)
         /\ OnTransform(s, ExitExpr_dot_assign(s), 0) /\ OnTransform(s, ExitExpr_inject_stmt(s), -1)
         /\ OnTransform(s, ExitTemplate_statement(s), -1) /\ OnTransform(s, ExitTransform_arg(s), -1)
         /\ OnTransform(s, ExitTransform(s), 0)
         /\ Live(ExitTemplate_expression(s, w)) => Settles(s, ExitTemplate_expression(s, w))
         /\ Live(EnterTemplate_statement(s, w)) => Settles(s, EnterTemplate_statement(s, w))
         /\ Shifts(s, EnterTransform_scope_var(s), 0)
         /\ Shifts(s, EnterTransform_return_type(s, w), 0)
         /\ Shifts(s, ExitTransform_return_type(s, w), 0)
<1>0. "value" \in AnyExpr \ {"transform"} /\ "binexpr" \in AnyExpr \ {"transform"} /\ 1 \in Nat
  BY DEF AnyExpr
<1>1. /\ "ExitExpr_simple_assign" \in Callbacks /\ "ExitExpr_let_statement" \in Callbacks
      /\ "ExitExpr_table_of_statement" \in Callbacks /\ "ExitExpr_dot_assign" \in Callbacks
      /\ "ExitExpr_inject_stmt" \in Callbacks /\ "ExitTemplate_statement" \in Callbacks
      /\ "ExitTransform_arg" \in Callbacks /\ "ExitTransform" \in Callbacks
      /\ "ExitTemplate_expression" \in Callbacks /\ "EnterTransform_scope_var" \in Callbacks
      /\ "EnterTransform_return_type" \in Callbacks /\ "ExitTransform_return_type" \in Callbacks
  BY DEF Callbacks
<1>2. Shifts(s, s, 0)
  BY SameShifts
<1>3. /\ OnTransform(s, ExitExpr_simple_assign(s), -1) /\ OnTransform(s, ExitExpr_let_statement(s), -1)
      /\ OnTransform(s, ExitExpr_table_of_statement(s), -1)
      /\ OnTransform(s, ExitTemplate_statement(s), -1) /\ OnTransform(s, ExitTransform_arg(s), -1)
  BY <1>1, PutIntoShifts, TransformOnTop
  DEF OnTransform, ExitExpr_simple_assign, ExitExpr_let_statement, ExitExpr_table_of_statement,
      ExitTemplate_statement, ExitTransform_arg
<1>4. /\ OnTransform(s, ExitExpr_dot_assign(s), 0) /\ OnTransform(s, ExitTransform(s), 0)
      /\ Shifts(s, EnterTransform_scope_var(s), 0)
  BY <1>1, TopExprShifts, TransformOnTop
  DEF OnTransform, ExitExpr_dot_assign, ExitTransform, EnterTransform_scope_var
<1>5. OnTransform(s, ExitExpr_inject_stmt(s), -1)
  <2>. DEFINE a == TopExpr(s, {"call"}, "ExitExpr_inject_stmt")
              t == PutInto(a, {"transform"}, "ExitExpr_inject_stmt")
  <2>1. Shifts(s, a, 0) /\ a \in Listener
    BY <1>1, TopExprShifts, TopExprStays DEF Stays
  <2>. HIDE DEF a
  <2>2. Shifts(a, t, -1) /\ (Live(t) => TopIs(t, {"transform"}))
    BY <1>1, <2>1, PutIntoShifts, TransformOnTop
  <2>3. t = ExitExpr_inject_stmt(s)
    BY DEF ExitExpr_inject_stmt, a
  <2>. HIDE DEF t
  <2>4. Shifts(s, t, 0 + (-1))
    BY <2>1, <2>2, ShiftsOn
  <2>. QED
    BY <2>2, <2>3, <2>4 DEF OnTransform
<1>6. /\ Live(EnterTemplate_statement(s, w)) => Settles(s, EnterTemplate_statement(s, w))
  <2>1. Shifts(s, PushExpr(s, "value"), 1)
    BY <1>0, PushExprShifts
  <2>. QED
    BY <1>2, <2>1 DEF EnterTemplate_statement, Shifts
<1>7. Live(ExitTemplate_expression(s, w)) => Settles(s, ExitTemplate_expression(s, w))
  <2>. DEFINE c == "ExitTemplate_expression"
              a == IF Has(w, "TMPL_TEXT") THEN s ELSE popExprs(s, 1, c)
              b == TopExpr(a, AnyExpr, c)
              d == IF TopIs(b, {"transform"}) THEN b ELSE popExprs(b, 1, c)
              t == PushExpr(d, "binexpr")
  <2>0. c \in Callbacks
    BY <1>1
  <2>1. a \in Listener /\ \E n \in Int : Shifts(s, a, n)
    <3>1. Shifts(s, popExprs(s, 1, c), -1) /\ popExprs(s, 1, c) \in Listener
      BY <1>0, <2>0, popExprsShifts, popExprsStays DEF Stays
    <3>2. -1 \in Int /\ 0 \in Int
      OBVIOUS
    <3>. QED
      BY <1>2, <3>1, <3>2
  <2>2. b \in Listener /\ Shifts(a, b, 0)
    BY <2>0, <2>1, TopExprShifts, TopExprStays DEF Stays
  <2>3. d \in Listener /\ \E n \in Int : Shifts(b, d, n)
    <3>1. Shifts(b, popExprs(b, 1, c), -1) /\ popExprs(b, 1, c) \in Listener
      BY <1>0, <2>0, <2>2, popExprsShifts, popExprsStays DEF Stays
    <3>2. -1 \in Int /\ 0 \in Int /\ Shifts(b, b, 0)
      BY <2>2, SameShifts
    <3>. QED
      BY <2>2, <3>1, <3>2
  <2>4. Shifts(d, t, 1)
    BY <1>0, <2>3, PushExprShifts
  <2>5. t = ExitTemplate_expression(s, w)
    BY DEF ExitTemplate_expression
  <2>. HIDE DEF a, b, d, t
  <2>6. SUFFICES ASSUME Live(t) PROVE Settles(s, t)
    BY <2>5
  <2>7. Live(d) /\ Settles(d, t)
    BY <2>4, <2>6 DEF Shifts
  <2>8. Live(b) /\ Settles(b, d)
    BY <2>3, <2>7 DEF Shifts
  <2>9. Live(a) /\ Settles(a, b)
    BY <2>2, <2>8 DEF Shifts
  <2>10. Settles(s, a)
    BY <2>1, <2>9 DEF Shifts
  <2>. QED
    BY <2>7, <2>8, <2>9, <2>10, SettlesOn
<1>8. Shifts(s, EnterTransform_return_type(s, w), 0)
  BY <1>1, <1>2, FieldsShift DEF EnterTransform_return_type
<1>9. Shifts(s, ExitTransform_return_type(s, w), 0)
  <2>. DEFINE c == "ExitTransform_return_type"
              a == SomeField(s, c)
  <2>1. Shifts(s, a, 0) /\ a \in Listener
    BY <1>1, FieldsShift, SomeFieldStays DEF Stays
  <2>. HIDE DEF a
  <2>2. Shifts(a, TopExpr(a, AnyExpr, c), 0)
    BY <1>1, <2>1, TopExprShifts
  <2>3. Shifts(s, TopExpr(a, AnyExpr, c), 0 + 0)
    BY <2>1, <2>2, ShiftsOn
  <2>. QED
    BY <1>2, <2>3 DEF ExitTransform_return_type, a
<1>. QED
  BY <1>3, <1>4, <1>5, <1>6, <1>7, <1>8, <1>9

\* A transform is entered on a stack of transforms alone.
LEMMA EnterTransformStacks ==
  ASSUME NEW s \in Listener, Stacked(s.exprs, Len(s.exprs))
  PROVE  LET e == EnterTransform(s).exprs
         IN  Len(e) = Len(s.exprs) + 1 /\ Stacked(e, Len(e))
<1>1. s.exprs \in Seq(AnyExpr)
  BY ListenerTypes
<1>. DEFINE e == s.exprs
            f == Append(e, "transform")
<1>2. Len(f) = Len(e) + 1 /\ Len(e) \in Nat /\ f[Len(e) + 1] = "transform" /\ \A i \in 1..Len(e) : f[i] = e[i]
  BY <1>1
<1>3. EnterTransform(s).exprs = f
  BY DEF EnterTransform, PushExpr, Listener
<1>4. \A i \in 1..Len(e) : e[i] = "transform"
  BY DEF Stacked
<1>. HIDE DEF e, f
<1>5. Stacked(f, Len(f))
  BY <1>2, <1>4 DEF Stacked
<1>. QED
  BY <1>2, <1>3, <1>5 DEF e

\* A view that is not abstract pops its expression.
LEMMA ExitViewPops ==
  ASSUME NEW s \in Listener, NEW w, Live(ExitView(s, w))
  PROVE  Len(ExitView(s, w).exprs) = Len(s.exprs) - (IF Has(w, "abstract_view") THEN 0 ELSE 1)
<1>0. s.exprs \in Seq(AnyExpr)
  BY ListenerTypes
<1>. DEFINE a == IF Has(w, "abstract_view") THEN s ELSE popExprs(s, 1, "ExitView")
            t == ExitView(s, w)
<1>1. "ExitView" \in Callbacks
  BY DEF Callbacks
<1>2. a \in Listener /\ (Live(a) => Len(a.exprs) = Len(s.exprs) - (IF Has(w, "abstract_view") THEN 0 ELSE 1))
  <2>1. popExprs(s, 1, "ExitView") \in Listener /\ Shifts(s, popExprs(s, 1, "ExitView"), -1)
    BY <1>1, popExprsStays, popExprsShifts DEF Stays
  <2>2. Len(s.exprs) \in Nat
    BY <1>0
  <2>. QED
    BY <2>1, <2>2 DEF Shifts
<1>. HIDE DEF a
<1>3. Quiet(a, a)
  BY <1>2 DEF Quiet, Listener
<1>4. Quiet(a, FreshTypemap(a))
  BY <1>3, HelpersQuiet
<1>5. Quiet(a, [FreshTypemap(a) EXCEPT !.returns = FALSE])
  BY <1>4 DEF Quiet
<1>6. t = IF Has(w, "abstract_view") /\ ~s.returns THEN Panic(s, "ExitView")
          ELSE [FreshTypemap(a) EXCEPT !.returns = FALSE]
  BY DEF ExitView, a
<1>7. t = [FreshTypemap(a) EXCEPT !.returns = FALSE]
  BY <1>1, <1>6, PanicStays
<1>8. Live([FreshTypemap(a) EXCEPT !.returns = FALSE]) => Live(a)
  BY <1>2 DEF FreshTypemap, Live, Listener
<1>. QED
  BY <1>2, <1>5, <1>7, <1>8 DEF Quiet

-----------------------------------------------------------------------------
\* The words of the grammar

LEMMA EmptyIn == \A S : {<<>>} \subseteq Seq(S)
  OBVIOUS

LEMMA WordIn ==
  ASSUME NEW S
  PROVE  /\ \A a \in S : <<a>> \in Seq(S)
         /\ \A a, b \in S : <<a, b>> \in Seq(S)
         /\ \A a, b, c \in S : <<a, b, c>> \in Seq(S)
  OBVIOUS

LEMMA OneIn == ASSUME NEW S, NEW A, A \subseteq S PROVE One(A) \subseteq Seq(S)
<1>1. ASSUME NEW a \in A PROVE <<a>> \in Seq(S)
  BY WordIn
<1>. QED
  BY <1>1 DEF One

LEMMA OptIn == ASSUME NEW S, NEW a \in S PROVE Opt(a) \subseteq Seq(S)
  BY WordIn DEF Opt

LEMMA CatIn ==
  ASSUME NEW S, NEW V, NEW W, V \subseteq Seq(S), W \subseteq Seq(S)
  PROVE  V ** W \subseteq Seq(S)
<1>1. ASSUME NEW x \in V ** W PROVE x \in Seq(S)
  <2>1. PICK v \in V, w \in W : x = v \o w
    BY DEF **
  <2>2. v \in Seq(S) /\ w \in Seq(S)
    OBVIOUS
  <2>. QED
    BY <2>1, <2>2
<1>. QED
  BY <1>1

LEMMA SomeIn == ASSUME NEW S, NEW A, A \subseteq S PROVE Some(A) \subseteq Seq(S)
<1>1. ASSUME NEW n \in 1..Reps, NEW w \in [1..n -> A]
      PROVE  w \in Seq(S)
  <2>1. w \in [1..n -> S]
    OBVIOUS
  <2>. QED
    BY <2>1, RepsAssumption
<1>. QED
  BY <1>1 DEF Some

LEMMA ManyIn == ASSUME NEW S, NEW A, A \subseteq S PROVE Many(A) \subseteq Seq(S)
<1>1. Some(A) \subseteq Seq(S) /\ <<>> \in Seq(S)
  BY SomeIn
<1>. QED
  BY <1>1 DEF Many

LEMMA ChainIn == ASSUME NEW S, NEW a \in S PROVE Chain(a) \subseteq Seq(S)
<1>1. ASSUME NEW n \in 1..(Reps + 1), NEW w \in [1..n -> {a}]
      PROVE  w \in Seq(S)
  <2>1. w \in [1..n -> S]
    OBVIOUS
  <2>. QED
    BY <2>1, RepsAssumption
<1>. QED
  BY <1>1 DEF Chain

LEMMA InAlphabet == \A r \in Rules : Grammar[r] \subseteq Seq(Alphabet[r])
<1>1. modifier \subseteq Seq({})
  BY EmptyIn DEF modifier
<1>2. size_spec \subseteq Seq({})
  BY EmptyIn DEF size_spec
<1>3. name_str \subseteq Seq({})
  BY EmptyIn DEF name_str
<1>4. reference \subseteq Seq({"app_name", "name_str"})
  <2>. DEFINE A == {"app_name", "name_str"}
  <2>0. "app_name" \in A /\ "name_str" \in A
    OBVIOUS
  <2>. HIDE DEF A
  <2>1. {<<"app_name">>} \subseteq Seq(A)
    BY <2>0, WordIn
  <2>2. Some({"name_str"}) \subseteq Seq(A)
    BY <2>0, SomeIn
  <2>3. {<<"app_name">>} ** Some({"name_str"}) \subseteq Seq(A)
    BY <2>1, <2>2, CatIn
  <2>. QED
    BY <2>3 DEF reference, A
<1>5. doc_string \subseteq Seq({})
  BY EmptyIn DEF doc_string
<1>6. quoted_string \subseteq Seq({})
  BY EmptyIn DEF quoted_string
<1>7. array_of_strings \subseteq Seq({"quoted_string"})
  BY SomeIn DEF array_of_strings
<1>8. array_of_arrays \subseteq Seq({"array_of_strings"})
  BY SomeIn DEF array_of_arrays
<1>9. nvp \subseteq Seq({"quoted_string", "array_of_strings", "array_of_arrays"})
  BY OneIn DEF nvp
<1>10. entry \subseteq Seq({"nvp", "modifier"})
  BY OneIn DEF entry
<1>11. attribs_or_modifiers \subseteq Seq({"entry"})
  BY SomeIn DEF attribs_or_modifiers
<1>12. user_defined_type \subseteq Seq({"name_str"})
  BY WordIn DEF user_defined_type
<1>13. types \subseteq Seq({"user_defined_type", "reference", "Sized", "Unsized"})
  BY OneIn DEF types
<1>14. set_of \subseteq Seq({})
  BY EmptyIn DEF set_of
<1>15. set_type \subseteq Seq({"set_of", "types", "size_spec"})
  <2>. DEFINE A == {"set_of", "types", "size_spec"}
  <2>0. "set_of" \in A /\ "types" \in A /\ "size_spec" \in A
    OBVIOUS
  <2>. HIDE DEF A
  <2>1. {<<"set_of", "types">>} \subseteq Seq(A)
    BY <2>0, WordIn
  <2>2. Opt("size_spec") \subseteq Seq(A)
    BY <2>0, OptIn
  <2>3. {<<"set_of", "types">>} ** Opt("size_spec") \subseteq Seq(A)
    BY <2>1, <2>2, CatIn
  <2>. QED
    BY <2>3 DEF set_type, A
<1>16. sequence_of \subseteq Seq({})
  BY EmptyIn DEF sequence_of
<1>17. sequence_type \subseteq Seq({"sequence_of", "types", "size_spec"})
  <2>. DEFINE A == {"sequence_of", "types", "size_spec"}
  <2>0. "sequence_of" \in A /\ "types" \in A /\ "size_spec" \in A
    OBVIOUS
  <2>. HIDE DEF A
  <2>1. {<<"sequence_of", "types">>} \subseteq Seq(A)
    BY <2>0, WordIn
  <2>2. Opt("size_spec") \subseteq Seq(A)
    BY <2>0, OptIn
  <2>3. {<<"sequence_of", "types">>} ** Opt("size_spec") \subseteq Seq(A)
    BY <2>1, <2>2, CatIn
  <2>. QED
    BY <2>3 DEF sequence_type, A
<1>18. collection_type \subseteq Seq({"set_type", "sequence_type"})
  BY OneIn DEF collection_type
<1>19. multi_line_docstring \subseteq Seq({"doc_string"})
  BY SomeIn DEF multi_line_docstring
<1>20. annotation_value \subseteq Seq({"QSTRING", "array_of_strings", "multi_line_docstring"})
  BY OneIn DEF annotation_value
<1>21. annotation \subseteq Seq({"annotation_value"})
  BY WordIn DEF annotation
<1>22. annotations \subseteq Seq({"annotation"})
  BY SomeIn DEF annotations
<1>23. array_size \subseteq Seq({})
  BY EmptyIn DEF array_size
<1>24. field_type \subseteq Seq({"collection_type", "types", "array_size", "size_spec",
  "attribs_or_modifiers", "annotations"})
  <2>. DEFINE A == {"collection_type", "types", "array_size", "size_spec", "attribs_or_modifiers", "annotations"}
  <2>0. "collection_type" \in A /\ "types" \in A /\ "array_size" \in A /\ "size_spec" \in A /\
    "attribs_or_modifiers" \in A /\ "annotations" \in A
    OBVIOUS
  <2>. HIDE DEF A
  <2>1. {<<"collection_type">>} \subseteq Seq(A)
    BY <2>0, WordIn
  <2>2. {<<"types">>} \subseteq Seq(A)
    BY <2>0, WordIn
  <2>3. {<<>>} \subseteq Seq(A)
    BY <2>0, EmptyIn
  <2>4. One({"array_size", "size_spec"}) \subseteq Seq(A)
    BY <2>0, OneIn
  <2>5. {<<>>} \cup One({"array_size", "size_spec"}) \subseteq Seq(A)
    BY <2>3, <2>4
  <2>6. {<<"types">>} ** ({<<>>} \cup One({"array_size", "size_spec"})) \subseteq Seq(A)
    BY <2>2, <2>5, CatIn
  <2>7. {<<"collection_type">>} \cup ({<<"types">>} ** ({<<>>} \cup One({"array_size",
    "size_spec"}))) \subseteq Seq(A)
    BY <2>1, <2>6
  <2>8. Opt("attribs_or_modifiers") \subseteq Seq(A)
    BY <2>0, OptIn
  <2>9. ({<<"collection_type">>} \cup ({<<"types">>} ** ({<<>>} \cup One({"array_size",
    "size_spec"})))) ** Opt("attribs_or_modifiers") \subseteq Seq(A)
    BY <2>7, <2>8, CatIn
  <2>10. Opt("annotations") \subseteq Seq(A)
    BY <2>0, OptIn
  <2>11. ({<<"collection_type">>} \cup ({<<"types">>} ** ({<<>>} \cup One({"array_size",
    "size_spec"})))) ** Opt("attribs_or_modifiers") ** Opt("annotations") \subseteq Seq(A)
    BY <2>9, <2>10, CatIn
  <2>. QED
    BY <2>11 DEF field_type, A
<1>25. inplace_tuple \subseteq Seq({"field"})
  BY SomeIn DEF inplace_tuple
<1>26. field \subseteq Seq({"name_str", "array_size", "field_type", "inplace_tuple"})
  <2>. DEFINE A == {"name_str", "array_size", "field_type", "inplace_tuple"}
  <2>0. "name_str" \in A /\ "array_size" \in A /\ "field_type" \in A /\ "inplace_tuple" \in A
    OBVIOUS
  <2>. HIDE DEF A
  <2>1. {<<"name_str">>} \subseteq Seq(A)
    BY <2>0, WordIn
  <2>2. {<<>>} \subseteq Seq(A)
    BY <2>0, EmptyIn
  <2>3. Opt("array_size") \subseteq Seq(A)
    BY <2>0, OptIn
  <2>4. One({"field_type", "inplace_tuple"}) \subseteq Seq(A)
    BY <2>0, OneIn
  <2>5. Opt("array_size") ** One({"field_type", "inplace_tuple"}) \subseteq Seq(A)
    BY <2>3, <2>4, CatIn
  <2>6. {<<>>} \cup (Opt("array_size") ** One({"field_type", "inplace_tuple"})) \subseteq Seq(A)
    BY <2>2, <2>5
  <2>7. {<<"name_str">>} ** ({<<>>} \cup (Opt("array_size") ** One({"field_type",
    "inplace_tuple"}))) \subseteq Seq(A)
    BY <2>1, <2>6, CatIn
  <2>. QED
    BY <2>7 DEF field, A
<1>27. inplace_table \subseteq Seq({"table"})
  BY WordIn DEF inplace_table
<1>28. table_stmts \subseteq Seq({"field", "annotation", "inplace_table", "WHATEVER"})
  BY SomeIn DEF table_stmts
<1>29. table_def \subseteq Seq({"attribs_or_modifiers", "WHATEVER", "table_stmts"})
  <2>. DEFINE A == {"attribs_or_modifiers", "WHATEVER", "table_stmts"}
  <2>0. "attribs_or_modifiers" \in A /\ "WHATEVER" \in A /\ "table_stmts" \in A
    OBVIOUS
  <2>. HIDE DEF A
  <2>1. Opt("attribs_or_modifiers") \subseteq Seq(A)
    BY <2>0, OptIn
  <2>2. One({"WHATEVER", "table_stmts"}) \subseteq Seq(A)
    BY <2>0, OneIn
  <2>3. Opt("attribs_or_modifiers") ** One({"WHATEVER", "table_stmts"}) \subseteq Seq(A)
    BY <2>1, <2>2, CatIn
  <2>. QED
    BY <2>3 DEF table_def, A
<1>30. table \subseteq Seq({"TYPE", "TABLE", "name_str", "table_def"})
  <2>. DEFINE A == {"TYPE", "TABLE", "name_str", "table_def"}
  <2>0. "TYPE" \in A /\ "TABLE" \in A /\ "name_str" \in A /\ "table_def" \in A
    OBVIOUS
  <2>. HIDE DEF A
  <2>1. One({"TYPE", "TABLE"}) \subseteq Seq(A)
    BY <2>0, OneIn
  <2>2. {<<"name_str", "table_def">>} \subseteq Seq(A)
    BY <2>0, WordIn
  <2>3. One({"TYPE", "TABLE"}) ** {<<"name_str", "table_def">>} \subseteq Seq(A)
    BY <2>1, <2>2, CatIn
  <2>. QED
    BY <2>3 DEF table, A
<1>31. union \subseteq Seq({"name_str", "attribs_or_modifiers", "WHATEVER", "user_defined_type",
  "annotation"})
  <2>. DEFINE A == {"name_str", "attribs_or_modifiers", "WHATEVER", "user_defined_type", "annotation"}
  <2>0. "name_str" \in A /\ "attribs_or_modifiers" \in A /\ "WHATEVER" \in A /\
    "user_defined_type" \in A /\ "annotation" \in A
    OBVIOUS
  <2>. HIDE DEF A
  <2>1. {<<"name_str">>} \subseteq Seq(A)
    BY <2>0, WordIn
  <2>2. Opt("attribs_or_modifiers") \subseteq Seq(A)
    BY <2>0, OptIn
  <2>3. {<<"name_str">>} ** Opt("attribs_or_modifiers") \subseteq Seq(A)
    BY <2>1, <2>2, CatIn
  <2>4. {<<"WHATEVER">>} \subseteq Seq(A)
    BY <2>0, WordIn
  <2>5. Some({"user_defined_type", "annotation", "WHATEVER"}) \subseteq Seq(A)
    BY <2>0, SomeIn
  <2>6. {<<"WHATEVER">>} \cup Some({"user_defined_type", "annotation", "WHATEVER"}) \subseteq
    Seq(A)
    BY <2>4, <2>5
  <2>7. {<<"name_str">>} ** Opt("attribs_or_modifiers") ** ({<<"WHATEVER">>} \cup
    Some({"user_defined_type", "annotation", "WHATEVER"})) \subseteq Seq(A)
    BY <2>3, <2>6, CatIn
  <2>. QED
    BY <2>7 DEF union, A
<1>32. package_name \subseteq Seq({"name_str"})
  BY WordIn DEF package_name
<1>33. sub_package \subseteq Seq({"package_name"})
  BY WordIn DEF sub_package
<1>34. app_name \subseteq Seq({"package_name", "sub_package"})
  <2>. DEFINE A == {"package_name", "sub_package"}
  <2>0. "package_name" \in A /\ "sub_package" \in A
    OBVIOUS
  <2>. HIDE DEF A
  <2>1. {<<"package_name">>} \subseteq Seq(A)
    BY <2>0, WordIn
  <2>2. Many({"sub_package"}) \subseteq Seq(A)
    BY <2>0, ManyIn
  <2>3. {<<"package_name">>} ** Many({"sub_package"}) \subseteq Seq(A)
    BY <2>1, <2>2, CatIn
  <2>. QED
    BY <2>3 DEF app_name, A
<1>35. name_with_attribs \subseteq Seq({"app_name", "attribs_or_modifiers"})
  <2>. DEFINE A == {"app_name", "attribs_or_modifiers"}
  <2>0. "app_name" \in A /\ "attribs_or_modifiers" \in A
    OBVIOUS
  <2>. HIDE DEF A
  <2>1. {<<"app_name">>} \subseteq Seq(A)
    BY <2>0, WordIn
  <2>2. Opt("attribs_or_modifiers") \subseteq Seq(A)
    BY <2>0, OptIn
  <2>3. {<<"app_name">>} ** Opt("attribs_or_modifiers") \subseteq Seq(A)
    BY <2>1, <2>2, CatIn
  <2>. QED
    BY <2>3 DEF name_with_attribs, A
<1>36. model_name \subseteq Seq({})
  BY EmptyIn DEF model_name
<1>37. inplace_table_def \subseteq Seq({"attribs_or_modifiers"})
  BY ManyIn DEF inplace_table_def
<1>38. table_refs \subseteq Seq({"inplace_table_def"})
  BY OptIn DEF table_refs
<1>39. facade \subseteq Seq({"model_name", "table_refs"})
  <2>. DEFINE A == {"model_name", "table_refs"}
  <2>0. "model_name" \in A /\ "table_refs" \in A
    OBVIOUS
  <2>. HIDE DEF A
  <2>1. {<<"model_name">>} \subseteq Seq(A)
    BY <2>0, WordIn
  <2>2. Some({"table_refs"}) \subseteq Seq(A)
    BY <2>0, SomeIn
  <2>3. {<<"model_name">>} ** Some({"table_refs"}) \subseteq Seq(A)
    BY <2>1, <2>2, CatIn
  <2>. QED
    BY <2>3 DEF facade, A
<1>40. var_in_curly \subseteq Seq({})
  BY EmptyIn DEF var_in_curly
<1>41. query_var \subseteq Seq({"NativeDataTypes", "name_str", "var_in_curly"})
  BY OneIn DEF query_var
<1>42. query_param \subseteq Seq({"query_var"})
  BY SomeIn DEF query_param
<1>43. http_path_part \subseteq Seq({"name_str"})
  BY OptIn DEF http_path_part
<1>44. http_path_var_with_type \subseteq Seq({"http_path_part", "NativeDataTypes", "name_str",
  "reference"})
  <2>. DEFINE A == {"http_path_part", "NativeDataTypes", "name_str", "reference"}
  <2>0. "http_path_part" \in A /\ "NativeDataTypes" \in A /\ "name_str" \in A /\ "reference" \in A
    OBVIOUS
  <2>. HIDE DEF A
  <2>1. {<<"http_path_part">>} \subseteq Seq(A)
    BY <2>0, WordIn
  <2>2. One({"NativeDataTypes", "name_str", "reference"}) \subseteq Seq(A)
    BY <2>0, OneIn
  <2>3. {<<"http_path_part">>} ** One({"NativeDataTypes", "name_str", "reference"}) \subseteq
    Seq(A)
    BY <2>1, <2>2, CatIn
  <2>. QED
    BY <2>3 DEF http_path_var_with_type, A
<1>45. http_path_static \subseteq Seq({"http_path_part"})
  BY WordIn DEF http_path_static
<1>46. http_path_suffix \subseteq Seq({"http_path_static", "http_path_var_with_type"})
  BY OneIn DEF http_path_suffix
<1>47. http_path \subseteq Seq({"FORWARD_SLASH", "http_path_suffix"})
  <2>. DEFINE A == {"FORWARD_SLASH", "http_path_suffix"}
  <2>0. "FORWARD_SLASH" \in A /\ "http_path_suffix" \in A
    OBVIOUS
  <2>. HIDE DEF A
  <2>1. {<<"FORWARD_SLASH">>} \subseteq Seq(A)
    BY <2>0, WordIn
  <2>2. Some({"http_path_suffix"}) \subseteq Seq(A)
    BY <2>0, SomeIn
  <2>3. {<<"FORWARD_SLASH">>} \cup Some({"http_path_suffix"}) \subseteq Seq(A)
    BY <2>1, <2>2
  <2>. QED
    BY <2>3 DEF http_path, A
<1>48. endpoint_name \subseteq Seq({"name_str"})
  BY SomeIn DEF endpoint_name
<1>49. ret_stmt \subseteq Seq({})
  BY EmptyIn DEF ret_stmt
<1>50. target \subseteq Seq({"app_name"})
  BY WordIn DEF target
<1>51. target_endpoint \subseteq Seq({"name_str"})
  BY WordIn DEF target_endpoint
<1>52. call_arg \subseteq Seq({"name_str"})
  <2>. DEFINE A == {"name_str"}
  <2>0. "name_str" \in A
    OBVIOUS
  <2>. HIDE DEF A
  <2>1. {<<>>} \subseteq Seq(A)
    BY <2>0, EmptyIn
  <2>2. Some({"name_str"}) \subseteq Seq(A)
    BY <2>0, SomeIn
  <2>3. {<<>>} \cup Some({"name_str"}) \subseteq Seq(A)
    BY <2>1, <2>2
  <2>. QED
    BY <2>3 DEF call_arg, A
<1>53. call_args \subseteq Seq({"call_arg"})
  BY SomeIn DEF call_args
<1>54. call_stmt \subseteq Seq({"target", "target_endpoint", "call_args"})
  <2>. DEFINE A == {"target", "target_endpoint", "call_args"}
  <2>0. "target" \in A /\ "target_endpoint" \in A /\ "call_args" \in A
    OBVIOUS
  <2>. HIDE DEF A
  <2>1. Opt("target") \subseteq Seq(A)
    BY <2>0, OptIn
  <2>2. {<<"target_endpoint">>} \subseteq Seq(A)
    BY <2>0, WordIn
  <2>3. Opt("target") ** {<<"target_endpoint">>} \subseteq Seq(A)
    BY <2>1, <2>2, CatIn
  <2>4. Opt("call_args") \subseteq Seq(A)
    BY <2>0, OptIn
  <2>5. Opt("target") ** {<<"target_endpoint">>} ** Opt("call_args") \subseteq Seq(A)
    BY <2>3, <2>4, CatIn
  <2>. QED
    BY <2>5 DEF call_stmt, A
<1>55. if_stmt \subseteq Seq({"statements"})
  BY ManyIn DEF if_stmt
<1>56. else_stmt \subseteq Seq({"statements"})
  BY ManyIn DEF else_stmt
<1>57. if_else \subseteq Seq({"if_stmt", "else_stmt"})
  <2>. DEFINE A == {"if_stmt", "else_stmt"}
  <2>0. "if_stmt" \in A /\ "else_stmt" \in A
    OBVIOUS
  <2>. HIDE DEF A
  <2>1. {<<"if_stmt">>} \subseteq Seq(A)
    BY <2>0, WordIn
  <2>2. Many({"else_stmt"}) \subseteq Seq(A)
    BY <2>0, ManyIn
  <2>3. {<<"if_stmt">>} ** Many({"else_stmt"}) \subseteq Seq(A)
    BY <2>1, <2>2, CatIn
  <2>. QED
    BY <2>3 DEF if_else, A
<1>58. for_stmt \subseteq Seq({"ALT", "UNTIL", "FOR_EACH", "FOR", "LOOP", "WHILE", "statements"})
  <2>. DEFINE A == {"ALT", "UNTIL", "FOR_EACH", "FOR", "LOOP", "WHILE", "statements"}
  <2>0. "ALT" \in A /\ "UNTIL" \in A /\ "FOR_EACH" \in A /\ "FOR" \in A /\ "LOOP" \in A /\ "WHILE"
    \in A /\ "statements" \in A
    OBVIOUS
  <2>. HIDE DEF A
  <2>1. One({"ALT", "UNTIL", "FOR_EACH", "FOR", "LOOP", "WHILE"}) \subseteq Seq(A)
    BY <2>0, OneIn
  <2>2. Many({"statements"}) \subseteq Seq(A)
    BY <2>0, ManyIn
  <2>3. One({"ALT", "UNTIL", "FOR_EACH", "FOR", "LOOP", "WHILE"}) ** Many({"statements"})
    \subseteq Seq(A)
    BY <2>1, <2>2, CatIn
  <2>. QED
    BY <2>3 DEF for_stmt, A
<1>59. http_method_comment \subseteq Seq({})
  BY EmptyIn DEF http_method_comment
<1>60. group_stmt \subseteq Seq({"name_str", "statements"})
  <2>. DEFINE A == {"name_str", "statements"}
  <2>0. "name_str" \in A /\ "statements" \in A
    OBVIOUS
  <2>. HIDE DEF A
  <2>1. {<<"name_str">>} \subseteq Seq(A)
    BY <2>0, WordIn
  <2>2. Some({"statements"}) \subseteq Seq(A)
    BY <2>0, SomeIn
  <2>3. {<<"name_str">>} ** Some({"statements"}) \subseteq Seq(A)
    BY <2>1, <2>2, CatIn
  <2>. QED
    BY <2>3 DEF group_stmt, A
<1>61. one_of_case_label \subseteq Seq({})
  BY EmptyIn DEF one_of_case_label
<1>62. one_of_cases \subseteq Seq({"one_of_case_label", "statements"})
  <2>. DEFINE A == {"one_of_case_label", "statements"}
  <2>0. "one_of_case_label" \in A /\ "statements" \in A
    OBVIOUS
  <2>. HIDE DEF A
  <2>1. Opt("one_of_case_label") \subseteq Seq(A)
    BY <2>0, OptIn
  <2>2. Some({"statements"}) \subseteq Seq(A)
    BY <2>0, SomeIn
  <2>3. Opt("one_of_case_label") ** Some({"statements"}) \subseteq Seq(A)
    BY <2>1, <2>2, CatIn
  <2>. QED
    BY <2>3 DEF one_of_cases, A
<1>63. one_of_stmt \subseteq Seq({"one_of_cases"})
  BY SomeIn DEF one_of_stmt
<1>64. text_stmt \subseteq Seq({"doc_string", "QSTRING", "WHATEVER", "app_name", "name_str"})
  <2>. DEFINE A == {"doc_string", "QSTRING", "WHATEVER", "app_name", "name_str"}
  <2>0. "doc_string" \in A /\ "QSTRING" \in A /\ "WHATEVER" \in A /\ "app_name" \in A /\
    "name_str" \in A
    OBVIOUS
  <2>. HIDE DEF A
  <2>1. One({"doc_string", "QSTRING", "WHATEVER"}) \subseteq Seq(A)
    BY <2>0, OneIn
  <2>2. {<<"app_name">>} \subseteq Seq(A)
    BY <2>0, WordIn
  <2>3. Opt("name_str") \subseteq Seq(A)
    BY <2>0, OptIn
  <2>4. {<<"app_name">>} ** Opt("name_str") \subseteq Seq(A)
    BY <2>2, <2>3, CatIn
  <2>5. One({"doc_string", "QSTRING", "WHATEVER"}) \cup ({<<"app_name">>} ** Opt("name_str"))
    \subseteq Seq(A)
    BY <2>1, <2>4
  <2>. QED
    BY <2>5 DEF text_stmt, A
<1>65. mixin \subseteq Seq({"app_name"})
  BY WordIn DEF mixin
<1>66. param \subseteq Seq({"reference", "field"})
  BY OneIn DEF param
<1>67. param_list \subseteq Seq({"param"})
  BY SomeIn DEF param_list
<1>68. params \subseteq Seq({"param_list"})
  BY WordIn DEF params
<1>69. statements \subseteq Seq({"if_else", "for_stmt", "ret_stmt", "call_stmt", "one_of_stmt",
  "http_method_comment", "group_stmt", "text_stmt", "annotation", "attribs_or_modifiers"})
  <2>. DEFINE A == {"if_else", "for_stmt", "ret_stmt", "call_stmt", "one_of_stmt", "http_method_comment", "group_stmt", "text_stmt", "annotation", "attribs_or_modifiers"}
  <2>0. "if_else" \in A /\ "for_stmt" \in A /\ "ret_stmt" \in A /\ "call_stmt" \in A /\
    "one_of_stmt" \in A /\ "http_method_comment" \in A /\ "group_stmt" \in A /\ "text_stmt" \in A
    /\ "annotation" \in A /\ "attribs_or_modifiers" \in A
    OBVIOUS
  <2>. HIDE DEF A
  <2>1. One({"if_else", "for_stmt", "ret_stmt", "call_stmt", "one_of_stmt", "http_method_comment",
    "group_stmt", "text_stmt", "annotation"}) \subseteq Seq(A)
    BY <2>0, OneIn
  <2>2. Opt("attribs_or_modifiers") \subseteq Seq(A)
    BY <2>0, OptIn
  <2>3. One({"if_else", "for_stmt", "ret_stmt", "call_stmt", "one_of_stmt", "http_method_comment",
    "group_stmt", "text_stmt", "annotation"}) ** Opt("attribs_or_modifiers") \subseteq Seq(A)
    BY <2>1, <2>2, CatIn
  <2>. QED
    BY <2>3 DEF statements, A
<1>70. method_def \subseteq Seq({"params", "query_param", "attribs_or_modifiers", "statements"})
  <2>. DEFINE A == {"params", "query_param", "attribs_or_modifiers", "statements"}
  <2>0. "params" \in A /\ "query_param" \in A /\ "attribs_or_modifiers" \in A /\ "statements" \in
    A
    OBVIOUS
  <2>. HIDE DEF A
  <2>1. Opt("params") \subseteq Seq(A)
    BY <2>0, OptIn
  <2>2. Opt("query_param") \subseteq Seq(A)
    BY <2>0, OptIn
  <2>3. Opt("params") ** Opt("query_param") \subseteq Seq(A)
    BY <2>1, <2>2, CatIn
  <2>4. Opt("attribs_or_modifiers") \subseteq Seq(A)
    BY <2>0, OptIn
  <2>5. Opt("params") ** Opt("query_param") ** Opt("attribs_or_modifiers") \subseteq Seq(A)
    BY <2>3, <2>4, CatIn
  <2>6. Some({"statements"}) \subseteq Seq(A)
    BY <2>0, SomeIn
  <2>7. Opt("params") ** Opt("query_param") ** Opt("attribs_or_modifiers") ** Some({"statements"})
    \subseteq Seq(A)
    BY <2>5, <2>6, CatIn
  <2>. QED
    BY <2>7 DEF method_def, A
<1>71. shortcut \subseteq Seq({"WHATEVER"})
  BY WordIn DEF shortcut
<1>72. simple_endpoint \subseteq Seq({"WHATEVER", "endpoint_name", "params",
  "attribs_or_modifiers", "shortcut", "statements"})
  <2>. DEFINE A == {"WHATEVER", "endpoint_name", "params", "attribs_or_modifiers", "shortcut", "statements"}
  <2>0. "WHATEVER" \in A /\ "endpoint_name" \in A /\ "params" \in A /\ "attribs_or_modifiers" \in
    A /\ "shortcut" \in A /\ "statements" \in A
    OBVIOUS
  <2>. HIDE DEF A
  <2>1. {<<"WHATEVER">>} \subseteq Seq(A)
    BY <2>0, WordIn
  <2>2. {<<"endpoint_name">>} \subseteq Seq(A)
    BY <2>0, WordIn
  <2>3. Opt("params") \subseteq Seq(A)
    BY <2>0, OptIn
  <2>4. {<<"endpoint_name">>} ** Opt("params") \subseteq Seq(A)
    BY <2>2, <2>3, CatIn
  <2>5. Opt("attribs_or_modifiers") \subseteq Seq(A)
    BY <2>0, OptIn
  <2>6. {<<"endpoint_name">>} ** Opt("params") ** Opt("attribs_or_modifiers") \subseteq Seq(A)
    BY <2>4, <2>5, CatIn
  <2>7. {<<"shortcut">>} \subseteq Seq(A)
    BY <2>0, WordIn
  <2>8. Some({"statements"}) \subseteq Seq(A)
    BY <2>0, SomeIn
  <2>9. {<<"shortcut">>} \cup Some({"statements"}) \subseteq Seq(A)
    BY <2>7, <2>8
  <2>10. {<<"endpoint_name">>} ** Opt("params") ** Opt("attribs_or_modifiers") **
    ({<<"shortcut">>} \cup Some({"statements"})) \subseteq Seq(A)
    BY <2>6, <2>9, CatIn
  <2>11. {<<"WHATEVER">>} \cup ({<<"endpoint_name">>} ** Opt("params") **
    Opt("attribs_or_modifiers") ** ({<<"shortcut">>} \cup Some({"statements"}))) \subseteq Seq(A)
    BY <2>1, <2>10
  <2>. QED
    BY <2>11 DEF simple_endpoint, A
<1>73. rest_endpoint \subseteq Seq({"http_path", "attribs_or_modifiers", "method_def",
  "rest_endpoint"})
  <2>. DEFINE A == {"http_path", "attribs_or_modifiers", "method_def", "rest_endpoint"}
  <2>0. "http_path" \in A /\ "attribs_or_modifiers" \in A /\ "method_def" \in A /\ "rest_endpoint"
    \in A
    OBVIOUS
  <2>. HIDE DEF A
  <2>1. {<<"http_path">>} \subseteq Seq(A)
    BY <2>0, WordIn
  <2>2. Opt("attribs_or_modifiers") \subseteq Seq(A)
    BY <2>0, OptIn
  <2>3. {<<"http_path">>} ** Opt("attribs_or_modifiers") \subseteq Seq(A)
    BY <2>1, <2>2, CatIn
  <2>4. Some({"method_def", "rest_endpoint"}) \subseteq Seq(A)
    BY <2>0, SomeIn
  <2>5. {<<"http_path">>} ** Opt("attribs_or_modifiers") ** Some({"method_def", "rest_endpoint"})
    \subseteq Seq(A)
    BY <2>3, <2>4, CatIn
  <2>. QED
    BY <2>5 DEF rest_endpoint, A
<1>74. collector_query_var \subseteq Seq({"name_str", "NativeDataTypes"})
  <2>. DEFINE A == {"name_str", "NativeDataTypes"}
  <2>0. "name_str" \in A /\ "NativeDataTypes" \in A
    OBVIOUS
  <2>. HIDE DEF A
  <2>1. {<<"name_str">>} \subseteq Seq(A)
    BY <2>0, WordIn
  <2>2. One({"NativeDataTypes", "name_str"}) \subseteq Seq(A)
    BY <2>0, OneIn
  <2>3. {<<"name_str">>} ** One({"NativeDataTypes", "name_str"}) \subseteq Seq(A)
    BY <2>1, <2>2, CatIn
  <2>. QED
    BY <2>3 DEF collector_query_var, A
<1>75. collector_query_param \subseteq Seq({"collector_query_var"})
  BY SomeIn DEF collector_query_param
<1>76. collector_call_stmt \subseteq Seq({"target", "target_endpoint"})
  BY WordIn DEF collector_call_stmt
<1>77. collector_http_stmt_part \subseteq Seq({"name_str"})
  BY WordIn DEF collector_http_stmt_part
<1>78. collector_http_stmt_suffix \subseteq Seq({"collector_http_stmt_part",
  "collector_query_param"})
  <2>. DEFINE A == {"collector_http_stmt_part", "collector_query_param"}
  <2>0. "collector_http_stmt_part" \in A /\ "collector_query_param" \in A
    OBVIOUS
  <2>. HIDE DEF A
  <2>1. Some({"collector_http_stmt_part"}) \subseteq Seq(A)
    BY <2>0, SomeIn
  <2>2. Opt("collector_query_param") \subseteq Seq(A)
    BY <2>0, OptIn
  <2>3. Some({"collector_http_stmt_part"}) ** Opt("collector_query_param") \subseteq Seq(A)
    BY <2>1, <2>2, CatIn
  <2>. QED
    BY <2>3 DEF collector_http_stmt_suffix, A
<1>79. collector_http_stmt \subseteq Seq({"collector_http_stmt_suffix"})
  BY WordIn DEF collector_http_stmt
<1>80. publisher \subseteq Seq({"app_name"})
  BY WordIn DEF publisher
<1>81. subscriber \subseteq Seq({"app_name"})
  BY WordIn DEF subscriber
<1>82. collector_pubsub_call \subseteq Seq({"subscriber", "publisher", "name_str"})
  BY WordIn DEF collector_pubsub_call
<1>83. collector_action_stmt \subseteq Seq({"name_str"})
  BY WordIn DEF collector_action_stmt
<1>84. collector_stmts \subseteq Seq({"collector_action_stmt", "collector_call_stmt",
  "collector_http_stmt", "collector_pubsub_call", "attribs_or_modifiers"})
  <2>. DEFINE A == {"collector_action_stmt", "collector_call_stmt", "collector_http_stmt", "collector_pubsub_call", "attribs_or_modifiers"}
  <2>0. "collector_action_stmt" \in A /\ "collector_call_stmt" \in A /\ "collector_http_stmt" \in
    A /\ "collector_pubsub_call" \in A /\ "attribs_or_modifiers" \in A
    OBVIOUS
  <2>. HIDE DEF A
  <2>1. One({"collector_action_stmt", "collector_call_stmt", "collector_http_stmt",
    "collector_pubsub_call"}) \subseteq Seq(A)
    BY <2>0, OneIn
  <2>2. {<<"attribs_or_modifiers">>} \subseteq Seq(A)
    BY <2>0, WordIn
  <2>3. One({"collector_action_stmt", "collector_call_stmt", "collector_http_stmt",
    "collector_pubsub_call"}) ** {<<"attribs_or_modifiers">>} \subseteq Seq(A)
    BY <2>1, <2>2, CatIn
  <2>. QED
    BY <2>3 DEF collector_stmts, A
<1>85. collector \subseteq Seq({"WHATEVER", "collector_stmts"})
  <2>. DEFINE A == {"WHATEVER", "collector_stmts"}
  <2>0. "WHATEVER" \in A /\ "collector_stmts" \in A
    OBVIOUS
  <2>. HIDE DEF A
  <2>1. {<<"WHATEVER">>} \subseteq Seq(A)
    BY <2>0, WordIn
  <2>2. Some({"collector_stmts"}) \subseteq Seq(A)
    BY <2>0, SomeIn
  <2>3. {<<"WHATEVER">>} \cup Some({"collector_stmts"}) \subseteq Seq(A)
    BY <2>1, <2>2
  <2>. QED
    BY <2>3 DEF collector, A
<1>86. event \subseteq Seq({"name_str", "params", "attribs_or_modifiers", "WHATEVER",
  "statements"})
  <2>. DEFINE A == {"name_str", "params", "attribs_or_modifiers", "WHATEVER", "statements"}
  <2>0. "name_str" \in A /\ "params" \in A /\ "attribs_or_modifiers" \in A /\ "WHATEVER" \in A /\
    "statements" \in A
    OBVIOUS
  <2>. HIDE DEF A
  <2>1. {<<"name_str">>} \subseteq Seq(A)
    BY <2>0, WordIn
  <2>2. Opt("params") \subseteq Seq(A)
    BY <2>0, OptIn
  <2>3. {<<"name_str">>} ** Opt("params") \subseteq Seq(A)
    BY <2>1, <2>2, CatIn
  <2>4. Opt("attribs_or_modifiers") \subseteq Seq(A)
    BY <2>0, OptIn
  <2>5. {<<"name_str">>} ** Opt("params") ** Opt("attribs_or_modifiers") \subseteq Seq(A)
    BY <2>3, <2>4, CatIn
  <2>6. {<<"WHATEVER">>} \subseteq Seq(A)
    BY <2>0, WordIn
  <2>7. Some({"statements"}) \subseteq Seq(A)
    BY <2>0, SomeIn
  <2>8. {<<"WHATEVER">>} \cup Some({"statements"}) \subseteq Seq(A)
    BY <2>6, <2>7
  <2>9. {<<"name_str">>} ** Opt("params") ** Opt("attribs_or_modifiers") ** ({<<"WHATEVER">>} \cup
    Some({"statements"})) \subseteq Seq(A)
    BY <2>5, <2>8, CatIn
  <2>. QED
    BY <2>9 DEF event, A
<1>87. subscribe \subseteq Seq({"app_name", "name_str", "attribs_or_modifiers", "WHATEVER",
  "statements"})
  <2>. DEFINE A == {"app_name", "name_str", "attribs_or_modifiers", "WHATEVER", "statements"}
  <2>0. "app_name" \in A /\ "name_str" \in A /\ "attribs_or_modifiers" \in A /\ "WHATEVER" \in A
    /\ "statements" \in A
    OBVIOUS
  <2>. HIDE DEF A
  <2>1. {<<"app_name", "name_str">>} \subseteq Seq(A)
    BY <2>0, WordIn
  <2>2. Opt("attribs_or_modifiers") \subseteq Seq(A)
    BY <2>0, OptIn
  <2>3. {<<"app_name", "name_str">>} ** Opt("attribs_or_modifiers") \subseteq Seq(A)
    BY <2>1, <2>2, CatIn
  <2>4. {<<"WHATEVER">>} \subseteq Seq(A)
    BY <2>0, WordIn
  <2>5. Some({"statements"}) \subseteq Seq(A)
    BY <2>0, SomeIn
  <2>6. {<<"WHATEVER">>} \cup Some({"statements"}) \subseteq Seq(A)
    BY <2>4, <2>5
  <2>7. {<<"app_name", "name_str">>} ** Opt("attribs_or_modifiers") ** ({<<"WHATEVER">>} \cup
    Some({"statements"})) \subseteq Seq(A)
    BY <2>3, <2>6, CatIn
  <2>. QED
    BY <2>7 DEF subscribe, A
<1>88. view_type_spec \subseteq Seq({"collection_type", "types"})
  BY OneIn DEF view_type_spec
<1>89. literal \subseteq Seq({})
  BY EmptyIn DEF literal
<1>90. expr_table_of_op \subseteq Seq({})
  BY EmptyIn DEF expr_table_of_op
<1>91. func_arg \subseteq Seq({"expr"})
  BY WordIn DEF func_arg
<1>92. func_args \subseteq Seq({"func_arg"})
  BY SomeIn DEF func_args
<1>93. expr_func \subseteq Seq({"func_args"})
  BY OptIn DEF expr_func
<1>94. rank_expr \subseteq Seq({"expr"})
  BY WordIn DEF rank_expr
<1>95. rank_expr_list \subseteq Seq({"rank_expr"})
  BY SomeIn DEF rank_expr_list
<1>96. expr_rank_func \subseteq Seq({"view_type_spec", "rank_expr_list"})
  <2>. DEFINE A == {"view_type_spec", "rank_expr_list"}
  <2>0. "view_type_spec" \in A /\ "rank_expr_list" \in A
    OBVIOUS
  <2>. HIDE DEF A
  <2>1. Opt("view_type_spec") \subseteq Seq(A)
    BY <2>0, OptIn
  <2>2. {<<"rank_expr_list">>} \subseteq Seq(A)
    BY <2>0, WordIn
  <2>3. Opt("view_type_spec") ** {<<"rank_expr_list">>} \subseteq Seq(A)
    BY <2>1, <2>2, CatIn
  <2>. QED
    BY <2>3 DEF expr_rank_func, A
<1>97. expr_agg_func \subseteq Seq({"e_scope_var", "func_args"})
  <2>. DEFINE A == {"e_scope_var", "func_args"}
  <2>0. "e_scope_var" \in A /\ "func_args" \in A
    OBVIOUS
  <2>. HIDE DEF A
  <2>1. Opt("e_scope_var") \subseteq Seq(A)
    BY <2>0, OptIn
  <2>2. {<<"func_args">>} \subseteq Seq(A)
    BY <2>0, WordIn
  <2>3. Opt("e_scope_var") ** {<<"func_args">>} \subseteq Seq(A)
    BY <2>1, <2>2, CatIn
  <2>. QED
    BY <2>3 DEF expr_agg_func, A
<1>98. e_scope_var \subseteq Seq({})
  BY EmptyIn DEF e_scope_var
<1>99. first_func_target \subseteq Seq({"E_NULL", "expr"})
  BY WordIn DEF first_func_target
<1>100. expr_first_func \subseteq Seq({"first_func_target", "e_scope_var", "rank_expr_list"})
  <2>. DEFINE A == {"first_func_target", "e_scope_var", "rank_expr_list"}
  <2>0. "first_func_target" \in A /\ "e_scope_var" \in A /\ "rank_expr_list" \in A
    OBVIOUS
  <2>. HIDE DEF A
  <2>1. {<<"first_func_target">>} \subseteq Seq(A)
    BY <2>0, WordIn
  <2>2. Opt("e_scope_var") \subseteq Seq(A)
    BY <2>0, OptIn
  <2>3. {<<"first_func_target">>} ** Opt("e_scope_var") \subseteq Seq(A)
    BY <2>1, <2>2, CatIn
  <2>4. {<<"rank_expr_list">>} \subseteq Seq(A)
    BY <2>0, WordIn
  <2>5. {<<"first_func_target">>} ** Opt("e_scope_var") ** {<<"rank_expr_list">>} \subseteq Seq(A)
    BY <2>3, <2>4, CatIn
  <2>. QED
    BY <2>5 DEF expr_first_func, A
<1>101. e_single_arg_func \subseteq Seq({})
  BY EmptyIn DEF e_single_arg_func
<1>102. expr_single_arg_func \subseteq Seq({"e_single_arg_func", "e_scope_var", "expr"})
  <2>. DEFINE A == {"e_single_arg_func", "e_scope_var", "expr"}
  <2>0. "e_single_arg_func" \in A /\ "e_scope_var" \in A /\ "expr" \in A
    OBVIOUS
  <2>. HIDE DEF A
  <2>1. {<<"e_single_arg_func">>} \subseteq Seq(A)
    BY <2>0, WordIn
  <2>2. Opt("e_scope_var") \subseteq Seq(A)
    BY <2>0, OptIn
  <2>3. {<<"e_single_arg_func">>} ** Opt("e_scope_var") \subseteq Seq(A)
    BY <2>1, <2>2, CatIn
  <2>4. {<<"expr">>} \subseteq Seq(A)
    BY <2>0, WordIn
  <2>5. {<<"e_single_arg_func">>} ** Opt("e_scope_var") ** {<<"expr">>} \subseteq Seq(A)
    BY <2>3, <2>4, CatIn
  <2>. QED
    BY <2>5 DEF expr_single_arg_func, A
<1>103. expr_any_func \subseteq Seq({"expr"})
  BY WordIn DEF expr_any_func
<1>104. expr_single_or_null \subseteq Seq({})
  BY EmptyIn DEF expr_single_or_null
<1>105. expr_snapshot \subseteq Seq({})
  BY EmptyIn DEF expr_snapshot
<1>106. expr_count \subseteq Seq({})
  BY EmptyIn DEF expr_count
<1>107. expr_navigate_attr \subseteq Seq({})
  BY EmptyIn DEF expr_navigate_attr
<1>108. expr_navigate \subseteq Seq({"expr_navigate_attr"})
  BY WordIn DEF expr_navigate
<1>109. matching_rhs \subseteq Seq({"expr_table_of_op", "expr_navigate", "atomT_paren", "E_Name"})
  BY OneIn DEF matching_rhs
<1>110. squiggly_args \subseteq Seq({})
  BY EmptyIn DEF squiggly_args
<1>111. expr_matching \subseteq Seq({"squiggly_args", "matching_rhs"})
  <2>. DEFINE A == {"squiggly_args", "matching_rhs"}
  <2>0. "squiggly_args" \in A /\ "matching_rhs" \in A
    OBVIOUS
  <2>. HIDE DEF A
  <2>1. Opt("squiggly_args") \subseteq Seq(A)
    BY <2>0, OptIn
  <2>2. {<<"matching_rhs">>} \subseteq Seq(A)
    BY <2>0, WordIn
  <2>3. Opt("squiggly_args") ** {<<"matching_rhs">>} \subseteq Seq(A)
    BY <2>1, <2>2, CatIn
  <2>. QED
    BY <2>3 DEF expr_matching, A
<1>112. relop \subseteq Seq({"expr_table_of_op", "expr_rank_func", "expr_agg_func",
  "expr_single_arg_func", "expr_any_func", "expr_count", "expr_single_or_null", "expr_snapshot",
  "expr_first_func", "expr_navigate", "expr_matching"})
  BY OneIn DEF relop
<1>113. list_item \subseteq Seq({"expr"})
  BY WordIn DEF list_item
<1>114. expr_list \subseteq Seq({"list_item"})
  BY SomeIn DEF expr_list
<1>115. expr_set \subseteq Seq({"expr_list"})
  BY WordIn DEF expr_set
<1>116. empty_tuple \subseteq Seq({})
  BY EmptyIn DEF empty_tuple
<1>117. atom_dot_relop \subseteq Seq({"expr_rank_func", "expr_agg_func", "expr_single_arg_func",
  "expr_any_func", "expr_count", "expr_single_or_null", "expr_snapshot", "expr_first_func",
  "expr_navigate", "expr_matching"})
  BY OneIn DEF atom_dot_relop
<1>118. atomT_implied_dot \subseteq Seq({"atom_dot_relop", "expr_navigate", "expr_matching",
  "expr_table_of_op"})
  BY OneIn DEF atomT_implied_dot
<1>119. atomT_name \subseteq Seq({})
  BY EmptyIn DEF atomT_name
<1>120. atomT_paren \subseteq Seq({"expr"})
  BY WordIn DEF atomT_paren
<1>121. expr_atom_list \subseteq Seq({"expr_list"})
  BY WordIn DEF expr_atom_list
<1>122. atomT \subseteq Seq({"expr_func", "expr_set", "expr_atom_list", "empty_tuple",
  "atomT_paren", "literal", "atomT_implied_dot", "atomT_name"})
  BY OneIn DEF atomT
<1>123. atom \subseteq Seq({"atomT", "relop"})
  <2>. DEFINE A == {"atomT", "relop"}
  <2>0. "atomT" \in A /\ "relop" \in A
    OBVIOUS
  <2>. HIDE DEF A
  <2>1. {<<"atomT">>} \subseteq Seq(A)
    BY <2>0, WordIn
  <2>2. Many({"relop"}) \subseteq Seq(A)
    BY <2>0, ManyIn
  <2>3. {<<"atomT">>} ** Many({"relop"}) \subseteq Seq(A)
    BY <2>1, <2>2, CatIn
  <2>. QED
    BY <2>3 DEF atom, A
<1>124. powerT \subseteq Seq({"unaryTerm"})
  BY WordIn DEF powerT
<1>125. power \subseteq Seq({"atom", "powerT"})
  <2>. DEFINE A == {"atom", "powerT"}
  <2>0. "atom" \in A /\ "powerT" \in A
    OBVIOUS
  <2>. HIDE DEF A
  <2>1. {<<"atom">>} \subseteq Seq(A)
    BY <2>0, WordIn
  <2>2. Opt("powerT") \subseteq Seq(A)
    BY <2>0, OptIn
  <2>3. {<<"atom">>} ** Opt("powerT") \subseteq Seq(A)
    BY <2>1, <2>2, CatIn
  <2>. QED
    BY <2>3 DEF power, A
<1>126. unaryTerm \subseteq Seq({"power", "OP"})
  BY WordIn DEF unaryTerm
<1>127. termT \subseteq Seq({"unaryTerm"})
  BY WordIn DEF termT
<1>128. term \subseteq Seq({"unaryTerm", "termT"})
  <2>. DEFINE A == {"unaryTerm", "termT"}
  <2>0. "unaryTerm" \in A /\ "termT" \in A
    OBVIOUS
  <2>. HIDE DEF A
  <2>1. {<<"unaryTerm">>} \subseteq Seq(A)
    BY <2>0, WordIn
  <2>2. Many({"termT"}) \subseteq Seq(A)
    BY <2>0, ManyIn
  <2>3. {<<"unaryTerm">>} ** Many({"termT"}) \subseteq Seq(A)
    BY <2>1, <2>2, CatIn
  <2>. QED
    BY <2>3 DEF term, A
<1>129. binexprT \subseteq Seq({"term"})
  BY WordIn DEF binexprT
<1>130. binexpr \subseteq Seq({"term", "binexprT"})
  <2>. DEFINE A == {"term", "binexprT"}
  <2>0. "term" \in A /\ "binexprT" \in A
    OBVIOUS
  <2>. HIDE DEF A
  <2>1. {<<"term">>} \subseteq Seq(A)
    BY <2>0, WordIn
  <2>2. Many({"binexprT"}) \subseteq Seq(A)
    BY <2>0, ManyIn
  <2>3. {<<"term">>} ** Many({"binexprT"}) \subseteq Seq(A)
    BY <2>1, <2>2, CatIn
  <2>. QED
    BY <2>3 DEF binexpr, A
<1>131. e_compare_ops \subseteq Seq({})
  BY EmptyIn DEF e_compare_ops
<1>132. expr_rel \subseteq Seq({"binexpr"})
  BY ChainIn DEF expr_rel
<1>133. expr_bitand \subseteq Seq({"expr_rel"})
  BY ChainIn DEF expr_bitand
<1>134. expr_bitxor \subseteq Seq({"expr_bitand"})
  BY ChainIn DEF expr_bitxor
<1>135. expr_bitor \subseteq Seq({"expr_bitxor"})
  BY ChainIn DEF expr_bitor
<1>136. expr_and \subseteq Seq({"expr_bitor"})
  BY ChainIn DEF expr_and
<1>137. expr_or \subseteq Seq({"expr_and"})
  BY ChainIn DEF expr_or
<1>138. expr_but_not \subseteq Seq({"expr_or"})
  BY ChainIn DEF expr_but_not
<1>139. expr_coalesce \subseteq Seq({"expr_but_not"})
  BY ChainIn DEF expr_coalesce
<1>140. if_one_liner \subseteq Seq({"expr"})
  BY WordIn DEF if_one_liner
<1>141. else_block_stmt \subseteq Seq({"expr"})
  BY WordIn DEF else_block_stmt
<1>142. control_item \subseteq Seq({"expr"})
  BY WordIn DEF control_item
<1>143. if_controls \subseteq Seq({"control_item"})
  BY SomeIn DEF if_controls
<1>144. cond_block \subseteq Seq({"if_controls", "else_block_stmt"})
  BY WordIn DEF cond_block
<1>145. final_else \subseteq Seq({"expr"})
  BY WordIn DEF final_else
<1>146. ifvar \subseteq Seq({"expr"})
  BY WordIn DEF ifvar
<1>147. if_multiple_lines \subseteq Seq({"ifvar", "cond_block", "final_else"})
  <2>. DEFINE A == {"ifvar", "cond_block", "final_else"}
  <2>0. "ifvar" \in A /\ "cond_block" \in A /\ "final_else" \in A
    OBVIOUS
  <2>. HIDE DEF A
  <2>1. Opt("ifvar") \subseteq Seq(A)
    BY <2>0, OptIn
  <2>2. Some({"cond_block"}) \subseteq Seq(A)
    BY <2>0, SomeIn
  <2>3. Opt("ifvar") ** Some({"cond_block"}) \subseteq Seq(A)
    BY <2>1, <2>2, CatIn
  <2>4. Opt("final_else") \subseteq Seq(A)
    BY <2>0, OptIn
  <2>5. Opt("ifvar") ** Some({"cond_block"}) ** Opt("final_else") \subseteq Seq(A)
    BY <2>3, <2>4, CatIn
  <2>. QED
    BY <2>5 DEF if_multiple_lines, A
<1>148. expr_if_else \subseteq Seq({"if_one_liner", "if_multiple_lines"})
  BY OneIn DEF expr_if_else
<1>149. expr \subseteq Seq({"expr_if_else", "expr_coalesce"})
  BY OneIn DEF expr
<1>150. expr_assign \subseteq Seq({"expr", "transform"})
  BY OneIn DEF expr_assign
<1>151. expr_simple_assign \subseteq Seq({"expr_assign"})
  BY WordIn DEF expr_simple_assign
<1>152. expr_let_statement \subseteq Seq({"expr_assign"})
  BY WordIn DEF expr_let_statement
<1>153. expr_table_of_statement \subseteq Seq({"expr_assign"})
  BY WordIn DEF expr_table_of_statement
<1>154. expr_dot_assign \subseteq Seq({})
  BY EmptyIn DEF expr_dot_assign
<1>155. expr_statement_no_nl \subseteq Seq({"expr_dot_assign"})
  BY WordIn DEF expr_statement_no_nl
<1>156. template_expression \subseteq Seq({"TMPL_TEXT", "expr"})
  <2>. DEFINE A == {"TMPL_TEXT", "expr"}
  <2>0. "TMPL_TEXT" \in A /\ "expr" \in A
    OBVIOUS
  <2>. HIDE DEF A
  <2>1. {<<"TMPL_TEXT">>} \subseteq Seq(A)
    BY <2>0, WordIn
  <2>2. Many({"expr"}) \subseteq Seq(A)
    BY <2>0, ManyIn
  <2>3. {<<"TMPL_TEXT">>} \cup Many({"expr"}) \subseteq Seq(A)
    BY <2>1, <2>2
  <2>. QED
    BY <2>3 DEF template_expression, A
<1>157. template_statement \subseteq Seq({"template_expression"})
  BY ManyIn DEF template_statement
<1>158. expr_statement \subseteq Seq({"expr_let_statement", "expr_table_of_statement",
  "expr_simple_assign"})
  BY OneIn DEF expr_statement
<1>159. expr_inject_stmt \subseteq Seq({"expr_func"})
  BY WordIn DEF expr_inject_stmt
<1>160. expr_stmt \subseteq Seq({"expr_statement_no_nl", "expr_statement", "expr_inject_stmt"})
  BY OneIn DEF expr_stmt
<1>161. transform_return_type \subseteq Seq({"set_of", "sequence_of", "view_type_spec"})
  BY OneIn DEF transform_return_type
<1>162. view_return_type \subseteq Seq({"view_type_spec"})
  BY WordIn DEF view_return_type
<1>163. transform_scope_var \subseteq Seq({})
  BY EmptyIn DEF transform_scope_var
<1>164. transform_arg \subseteq Seq({"expr"})
  BY WordIn DEF transform_arg
<1>165. transform \subseteq Seq({"transform_arg", "transform_return_type", "transform_scope_var",
  "expr_stmt", "template_statement"})
  <2>. DEFINE A == {"transform_arg", "transform_return_type", "transform_scope_var", "expr_stmt", "template_statement"}
  <2>0. "transform_arg" \in A /\ "transform_return_type" \in A /\ "transform_scope_var" \in A /\
    "expr_stmt" \in A /\ "template_statement" \in A
    OBVIOUS
  <2>. HIDE DEF A
  <2>1. Opt("transform_arg") \subseteq Seq(A)
    BY <2>0, OptIn
  <2>2. Opt("transform_return_type") \subseteq Seq(A)
    BY <2>0, OptIn
  <2>3. Opt("transform_arg") ** Opt("transform_return_type") \subseteq Seq(A)
    BY <2>1, <2>2, CatIn
  <2>4. Opt("transform_scope_var") \subseteq Seq(A)
    BY <2>0, OptIn
  <2>5. Opt("transform_arg") ** Opt("transform_return_type") ** Opt("transform_scope_var")
    \subseteq Seq(A)
    BY <2>3, <2>4, CatIn
  <2>6. Some({"expr_stmt", "template_statement"}) \subseteq Seq(A)
    BY <2>0, SomeIn
  <2>7. Opt("transform_arg") ** Opt("transform_return_type") ** Opt("transform_scope_var") **
    Some({"expr_stmt", "template_statement"}) \subseteq Seq(A)
    BY <2>5, <2>6, CatIn
  <2>. QED
    BY <2>7 DEF transform, A
<1>166. expr_block \subseteq Seq({"transform"})
  BY WordIn DEF expr_block
<1>167. view_param \subseteq Seq({"name_str", "view_type_spec"})
  BY WordIn DEF view_param
<1>168. view_params \subseteq Seq({"view_param"})
  BY SomeIn DEF view_params
<1>169. abstract_view \subseteq Seq({})
  BY EmptyIn DEF abstract_view
<1>170. view \subseteq Seq({"name_str", "view_params", "view_return_type", "attribs_or_modifiers",
  "expr_block", "abstract_view"})
  <2>. DEFINE A == {"name_str", "view_params", "view_return_type", "attribs_or_modifiers", "expr_block", "abstract_view"}
  <2>0. "name_str" \in A /\ "view_params" \in A /\ "view_return_type" \in A /\
    "attribs_or_modifiers" \in A /\ "expr_block" \in A /\ "abstract_view" \in A
    OBVIOUS
  <2>. HIDE DEF A
  <2>1. {<<"name_str", "view_params">>} \subseteq Seq(A)
    BY <2>0, WordIn
  <2>2. Opt("view_return_type") \subseteq Seq(A)
    BY <2>0, OptIn
  <2>3. {<<"name_str", "view_params">>} ** Opt("view_return_type") \subseteq Seq(A)
    BY <2>1, <2>2, CatIn
  <2>4. Opt("attribs_or_modifiers") \subseteq Seq(A)
    BY <2>0, OptIn
  <2>5. {<<"expr_block">>} \subseteq Seq(A)
    BY <2>0, WordIn
  <2>6. Opt("attribs_or_modifiers") ** {<<"expr_block">>} \subseteq Seq(A)
    BY <2>4, <2>5, CatIn
  <2>7. {<<"abstract_view">>} \subseteq Seq(A)
    BY <2>0, WordIn
  <2>8. (Opt("attribs_or_modifiers") ** {<<"expr_block">>}) \cup {<<"abstract_view">>} \subseteq
    Seq(A)
    BY <2>6, <2>7
  <2>9. {<<"name_str", "view_params">>} ** Opt("view_return_type") **
    ((Opt("attribs_or_modifiers") ** {<<"expr_block">>}) \cup {<<"abstract_view">>}) \subseteq
    Seq(A)
    BY <2>3, <2>8, CatIn
  <2>. QED
    BY <2>9 DEF view, A
<1>171. alias \subseteq Seq({"name_str", "attribs_or_modifiers", "annotation", "types",
  "collection_type"})
  <2>. DEFINE A == {"name_str", "attribs_or_modifiers", "annotation", "types", "collection_type"}
  <2>0. "name_str" \in A /\ "attribs_or_modifiers" \in A /\ "annotation" \in A /\ "types" \in A /\
    "collection_type" \in A
    OBVIOUS
  <2>. HIDE DEF A
  <2>1. {<<"name_str">>} \subseteq Seq(A)
    BY <2>0, WordIn
  <2>2. Opt("attribs_or_modifiers") \subseteq Seq(A)
    BY <2>0, OptIn
  <2>3. {<<"name_str">>} ** Opt("attribs_or_modifiers") \subseteq Seq(A)
    BY <2>1, <2>2, CatIn
  <2>4. Many({"annotation"}) \subseteq Seq(A)
    BY <2>0, ManyIn
  <2>5. {<<"name_str">>} ** Opt("attribs_or_modifiers") ** Many({"annotation"}) \subseteq Seq(A)
    BY <2>3, <2>4, CatIn
  <2>6. One({"types", "collection_type"}) \subseteq Seq(A)
    BY <2>0, OneIn
  <2>7. {<<"name_str">>} ** Opt("attribs_or_modifiers") ** Many({"annotation"}) ** One({"types",
    "collection_type"}) \subseteq Seq(A)
    BY <2>5, <2>6, CatIn
  <2>. QED
    BY <2>7 DEF alias, A
<1>172. enumeration \subseteq Seq({})
  BY EmptyIn DEF enumeration
<1>173. enum_stmts \subseteq Seq({"enumeration", "WHATEVER"})
  BY SomeIn DEF enum_stmts
<1>174. enum \subseteq Seq({"attribs_or_modifiers", "WHATEVER", "enum_stmts"})
  <2>. DEFINE A == {"attribs_or_modifiers", "WHATEVER", "enum_stmts"}
  <2>0. "attribs_or_modifiers" \in A /\ "WHATEVER" \in A /\ "enum_stmts" \in A
    OBVIOUS
  <2>. HIDE DEF A
  <2>1. Opt("attribs_or_modifiers") \subseteq Seq(A)
    BY <2>0, OptIn
  <2>2. One({"WHATEVER", "enum_stmts"}) \subseteq Seq(A)
    BY <2>0, OneIn
  <2>3. Opt("attribs_or_modifiers") ** One({"WHATEVER", "enum_stmts"}) \subseteq Seq(A)
    BY <2>1, <2>2, CatIn
  <2>. QED
    BY <2>3 DEF enum, A
<1>175. app_decl \subseteq Seq({"alias", "annotation", "collector", "enum", "event", "facade",
  "mixin", "rest_endpoint", "simple_endpoint", "subscribe", "union", "view", "table"})
  BY SomeIn DEF app_decl
<1>176. application \subseteq Seq({"name_with_attribs", "app_decl"})
  BY WordIn DEF application
<1>177. import_mode \subseteq Seq({})
  BY EmptyIn DEF import_mode
<1>178. import_stmt \subseteq Seq({"import_mode"})
  BY OptIn DEF import_stmt
<1>179. imports_decl \subseteq Seq({"import_stmt"})
  BY SomeIn DEF imports_decl
<1>180. sysl_file \subseteq Seq({"imports_decl", "application"})
  <2>. DEFINE A == {"imports_decl", "application"}
  <2>0. "imports_decl" \in A /\ "application" \in A
    OBVIOUS
  <2>. HIDE DEF A
  <2>1. Opt("imports_decl") \subseteq Seq(A)
    BY <2>0, OptIn
  <2>2. Some({"application"}) \subseteq Seq(A)
    BY <2>0, SomeIn
  <2>3. Opt("imports_decl") ** Some({"application"}) \subseteq Seq(A)
    BY <2>1, <2>2, CatIn
  <2>. QED
    BY <2>3 DEF sysl_file, A
<1>. DEFINE R1 == {"modifier", "size_spec", "name_str", "reference", "doc_string", "quoted_string",
                  "array_of_strings", "array_of_arrays", "nvp", "entry", "attribs_or_modifiers",
                  "user_defined_type", "types", "set_of", "set_type", "sequence_of", "sequence_type",
                  "collection_type", "multi_line_docstring", "annotation_value", "annotation", "annotations",
                  "array_size", "field_type", "inplace_tuple", "field", "inplace_table", "table_stmts",
                  "table_def", "table"}
            R2 == {"union", "package_name", "sub_package", "app_name", "name_with_attribs", "model_name",
                  "inplace_table_def", "table_refs", "facade", "var_in_curly", "query_var", "query_param",
                  "http_path_part", "http_path_var_with_type", "http_path_static", "http_path_suffix",
                  "http_path", "endpoint_name", "ret_stmt", "target", "target_endpoint", "call_arg",
                  "call_args", "call_stmt", "if_stmt", "else_stmt", "if_else", "for_stmt",
                  "http_method_comment", "group_stmt"}
            R3 == {"one_of_case_label", "one_of_cases", "one_of_stmt", "text_stmt", "mixin", "param",
                  "param_list", "params", "statements", "method_def", "shortcut", "simple_endpoint",
                  "rest_endpoint", "collector_query_var", "collector_query_param", "collector_call_stmt",
                  "collector_http_stmt_part", "collector_http_stmt_suffix", "collector_http_stmt",
                  "publisher", "subscriber", "collector_pubsub_call", "collector_action_stmt",
                  "collector_stmts", "collector", "event", "subscribe", "view_type_spec", "literal",
                  "expr_table_of_op"}
            R4 == {"func_arg", "func_args", "expr_func", "rank_expr", "rank_expr_list", "expr_rank_func",
                  "expr_agg_func", "e_scope_var", "first_func_target", "expr_first_func", "e_single_arg_func",
                  "expr_single_arg_func", "expr_any_func", "expr_single_or_null", "expr_snapshot",
                  "expr_count", "expr_navigate_attr", "expr_navigate", "matching_rhs", "squiggly_args",
                  "expr_matching", "relop", "list_item", "expr_list", "expr_set", "empty_tuple",
                  "atom_dot_relop", "atomT_implied_dot", "atomT_name", "atomT_paren"}
            R5 == {"expr_atom_list", "atomT", "atom", "powerT", "power", "unaryTerm", "termT", "term",
                  "binexprT", "binexpr", "e_compare_ops", "expr_rel", "expr_bitand", "expr_bitxor",
                  "expr_bitor", "expr_and", "expr_or", "expr_but_not", "expr_coalesce", "if_one_liner",
                  "else_block_stmt", "control_item", "if_controls", "cond_block", "final_else", "ifvar",
                  "if_multiple_lines", "expr_if_else", "expr", "expr_assign"}
            R6 == {"expr_simple_assign", "expr_let_statement", "expr_table_of_statement", "expr_dot_assign",
                  "expr_statement_no_nl", "template_expression", "template_statement", "expr_statement",
                  "expr_inject_stmt", "expr_stmt", "transform_return_type", "view_return_type",
                  "transform_scope_var", "transform_arg", "transform", "expr_block", "view_param",
                  "view_params", "abstract_view", "view", "alias", "enumeration", "enum_stmts", "enum",
                  "app_decl", "application", "import_mode", "import_stmt", "imports_decl", "sysl_file"}
<1>181. \A r \in R1 : Grammar[r] \subseteq Seq(Alphabet[r])
  BY <1>1, <1>2, <1>3, <1>4, <1>5, <1>6, <1>7, <1>8, <1>9, <1>10, <1>11, <1>12, <1>13, <1>14,
    <1>15, <1>16, <1>17, <1>18, <1>19, <1>20, <1>21, <1>22, <1>23, <1>24, <1>25, <1>26, <1>27,
    <1>28, <1>29, <1>30 DEF Grammar, Alphabet
<1>182. \A r \in R2 : Grammar[r] \subseteq Seq(Alphabet[r])
  BY <1>31, <1>32, <1>33, <1>34, <1>35, <1>36, <1>37, <1>38, <1>39, <1>40, <1>41, <1>42, <1>43,
    <1>44, <1>45, <1>46, <1>47, <1>48, <1>49, <1>50, <1>51, <1>52, <1>53, <1>54, <1>55, <1>56,
    <1>57, <1>58, <1>59, <1>60 DEF Grammar, Alphabet
<1>183. \A r \in R3 : Grammar[r] \subseteq Seq(Alphabet[r])
  BY <1>61, <1>62, <1>63, <1>64, <1>65, <1>66, <1>67, <1>68, <1>69, <1>70, <1>71, <1>72, <1>73,
    <1>74, <1>75, <1>76, <1>77, <1>78, <1>79, <1>80, <1>81, <1>82, <1>83, <1>84, <1>85, <1>86,
    <1>87, <1>88, <1>89, <1>90 DEF Grammar, Alphabet
<1>184. \A r \in R4 : Grammar[r] \subseteq Seq(Alphabet[r])
  BY <1>91, <1>92, <1>93, <1>94, <1>95, <1>96, <1>97, <1>98, <1>99, <1>100, <1>101, <1>102,
    <1>103, <1>104, <1>105, <1>106, <1>107, <1>108, <1>109, <1>110, <1>111, <1>112, <1>113,
    <1>114, <1>115, <1>116, <1>117, <1>118, <1>119, <1>120 DEF Grammar, Alphabet
<1>185. \A r \in R5 : Grammar[r] \subseteq Seq(Alphabet[r])
  BY <1>121, <1>122, <1>123, <1>124, <1>125, <1>126, <1>127, <1>128, <1>129, <1>130, <1>131,
    <1>132, <1>133, <1>134, <1>135, <1>136, <1>137, <1>138, <1>139, <1>140, <1>141, <1>142,
    <1>143, <1>144, <1>145, <1>146, <1>147, <1>148, <1>149, <1>150 DEF Grammar, Alphabet
<1>186. \A r \in R6 : Grammar[r] \subseteq Seq(Alphabet[r])
  BY <1>151, <1>152, <1>153, <1>154, <1>155, <1>156, <1>157, <1>158, <1>159, <1>160, <1>161,
    <1>162, <1>163, <1>164, <1>165, <1>166, <1>167, <1>168, <1>169, <1>170, <1>171, <1>172,
    <1>173, <1>174, <1>175, <1>176, <1>177, <1>178, <1>179, <1>180 DEF Grammar, Alphabet
<1>187. Rules = R1 \cup R2 \cup R3 \cup R4 \cup R5 \cup R6
  BY DEF Rules, Grammar
<1>. QED
  BY <1>181, <1>182, <1>183, <1>184, <1>185, <1>186, <1>187

LEMMA BodyDeep == Body \subseteq Deep /\ Body \subseteq Rules
<1>1. Gainers \subseteq Rules
  BY DEF Gainers, Rules, Grammar
<1>2. Neutral \subseteq Rules
  BY DEF Neutral, Rules, Grammar
<1>3. Outer \subseteq Rules
  BY DEF Outer, Assigns, Rules, Grammar
<1>4. \A a \in Shallow : a \notin Gainers /\ a \notin Neutral /\ a \notin Outer
  BY DEF Shallow, Gainers, Neutral, Outer, Assigns
<1>. QED
  BY <1>1, <1>2, <1>3, <1>4 DEF Body, Inner, Deep, Symbols

LEMMA MildHas ==
  {"OP", "E_NULL", "E_Name", "TMPL_TEXT", "transform_return_type", "transform_scope_var"} \subseteq Mild
<1>1. {"transform_return_type", "transform_scope_var"} \subseteq Rules
  BY DEF Rules, Grammar
<1>2. \A a \in {"OP", "E_NULL", "E_Name", "TMPL_TEXT", "transform_return_type",
                "transform_scope_var"} : a \notin Shallow /\ a \notin Body
  BY DEF Shallow, Body, Inner, Gainers, Neutral, Outer, Assigns
<1>. QED
  BY <1>1, <1>2 DEF Mild, Deep, Symbols, Tokens

\* The words of a rule, from its alphabet.
LEMMA RulesIn ==
  ASSUME NEW S, NEW R \in SUBSET Rules, \A r \in R : Alphabet[r] \subseteq S
  PROVE  \A r \in R : Grammar[r] \subseteq Seq(S)
<1>1. ASSUME NEW r \in R, NEW w \in Grammar[r] PROVE w \in Seq(S)
  <2>1. w \in Seq(Alphabet[r]) /\ Alphabet[r] \subseteq S
    BY InAlphabet
  <2>. QED
    BY <2>1
<1>. QED
  BY <1>1

LEMMA AlphabetTyped == \A r \in Rules : Alphabet[r] \subseteq Symbols
  BY SMTT(120) DEF Alphabet, Rules, Grammar, Symbols, Tokens

\* What stands below the rules outside of bodies.
LEMMA MildRules == \A r \in Rules \ (Spine \cup Body \cup {"view"}) : Grammar[r] \subseteq Seq(Mild)
<1>. DEFINE R == Rules \ (Spine \cup Body \cup {"view"})
<1>1. \A r \in R : Alphabet[r] \cap Shallow = {}
  BY SMTT(120) DEF Alphabet, Rules, Grammar, Spine, Shallow, Body, Inner, Gainers, Neutral, Outer, Assigns
<1>2. \A r \in R : Alphabet[r] \cap Body = {}
  BY SMTT(120) DEF Alphabet, Rules, Grammar, Spine, Body, Inner, Gainers, Neutral, Outer, Assigns
<1>3. \A r \in R : Alphabet[r] \subseteq Mild
  BY <1>1, <1>2, AlphabetTyped DEF Mild, Deep
<1>. QED
  BY <1>3, RulesIn

\* These have no operand of their own.
LEMMA IdleBelow == \A r \in IdleRules : Grammar[r] \subseteq Seq(Idle)
<1>1. IdleRules \subseteq Rules
  BY SMTT(60) DEF IdleRules, Rules, Grammar
<1>2. \A r \in IdleRules : Alphabet[r] \cap Shallow = {}
  BY SMTT(60) DEF Alphabet, IdleRules, Shallow
<1>3. \A r \in IdleRules : Alphabet[r] \cap (Gainers \cup Outer) = {}
  BY SMTT(60) DEF Alphabet, IdleRules, Gainers, Outer, Assigns
<1>4. \A r \in IdleRules : Alphabet[r] \subseteq Idle
  BY <1>1, <1>2, <1>3, AlphabetTyped DEF Idle, Mild, Deep, Body, Inner
<1>. QED
  BY <1>1, <1>4, RulesIn

\* What stands below an expression.
LEMMA InnerRules == \A r \in Inner : Grammar[r] \subseteq Seq(Within)
<1>1. Inner \subseteq Rules
  BY BodyDeep DEF Body
<1>2. \A r \in Inner : Alphabet[r] \cap Shallow = {} /\ Alphabet[r] \cap Outer = {}
  BY SMTT(60) DEF Alphabet, Inner, Gainers, Neutral, Shallow, Outer, Assigns
<1>3. \A r \in Inner : Alphabet[r] \subseteq Within
  BY <1>1, <1>2, AlphabetTyped DEF Within, Mild, Deep, Body
<1>. QED
  BY <1>1, <1>3, RulesIn

\* A shallow rule stands only below the spine.
LEMMA DeepRules == \A r \in Rules \ Spine : Grammar[r] \subseteq Seq(Deep)
<1>1. \A r \in Rules \ Spine : Alphabet[r] \cap Shallow = {}
  BY SMTT(120) DEF Alphabet, Rules, Grammar, Spine, Shallow
<1>2. \A r \in Rules \ Spine : Alphabet[r] \subseteq Deep
  BY <1>1, AlphabetTyped DEF Deep
<1>. QED
  BY <1>2, RulesIn

-----------------------------------------------------------------------------
\* What may stand below what

LEMMA WordsTyped == \A r \in Rules : Grammar[r] \subseteq Seq(Symbols)
  BY AlphabetTyped, RulesIn

LEMMA FileIsNoRule == "file" \notin Symbols
<1>1. "file" \notin Rules
  BY SMTT(60) DEF Rules, Grammar
<1>. QED
  BY <1>1 DEF Symbols, Tokens

LEMMA WordChildren ==
  ASSUME NEW S, NEW V, V \subseteq Seq(S), NEW r, r # "file", Grammar[r] = V, NEW a, MayHave(r, a)
  PROVE  a \in S
<1>1. PICK w \in V : \E k \in 1..Len(w) : w[k] = a
  BY DEF MayHave
<1>2. w \in Seq(S)
  OBVIOUS
<1>. QED
  BY <1>1, <1>2

\* A child of a rule is in the alphabet of it.
LEMMA KidsIn ==
  ASSUME NEW r \in Rules, NEW a, MayHave(r, a)
  PROVE  a \in Alphabet[r]
  BY FileIsNoRule, InAlphabet, WordChildren DEF Symbols

\* Outside of the spine nothing shallow may stand.
LEMMA DeepChildren ==
  ASSUME NEW r \in Rules \ Spine, NEW a, MayHave(r, a)
  PROVE  a \notin {"file"} \cup Shallow
<1>1. r # "file"
  BY FileIsNoRule DEF Symbols
<1>2. a \in Deep
  BY <1>1, DeepRules, WordChildren
<1>. QED
  BY <1>2, FileIsNoRule DEF Deep

LEMMA RestChildren ==
  ASSUME NEW a, MayHave("rest_endpoint", a)
  PROVE  a \in {"http_path", "attribs_or_modifiers", "method_def", "rest_endpoint"}
<1>1. "rest_endpoint" \in Rules
  BY DEF Rules, Grammar
<1>. QED
  BY <1>1, KidsIn DEF Alphabet

LEMMA MethodChildren ==
  ASSUME NEW a, MayHave("method_def", a)
  PROVE  a \in {"params", "query_param", "attribs_or_modifiers", "statements"}
<1>1. "method_def" \in Rules
  BY DEF Rules, Grammar
<1>. QED
  BY <1>1, KidsIn DEF Alphabet

\* A path stands only in a rest endpoint.
LEMMA PathParent ==
  ASSUME NEW r \in Rules \cup {"file"}, MayHave(r, "http_path")
  PROVE  r = "rest_endpoint"
<1>1. \A x \in Rules : "http_path" \in Alphabet[x] => x = "rest_endpoint"
  BY SMTT(60) DEF Alphabet, Rules, Grammar
<1>2. r # "file"
  BY DEF MayHave
<1>. QED
  BY <1>1, <1>2, KidsIn

\* Below a rule that has nothing to do with expressions there are only such rules.
LEMMA MildChildren ==
  ASSUME NEW r \in Rules \cap Mild, NEW a, MayHave(r, a)
  PROVE  a \in Mild
<1>1. r \in Rules \ (Spine \cup Body \cup {"view"}) /\ r # "file"
  BY FileIsNoRule DEF Mild, Deep, Shallow, Spine
<1>. QED
  BY <1>1, MildRules, WordChildren

\* Below a rule of an expression there is no statement of a transform.
LEMMA InnerChildren ==
  ASSUME NEW r \in Inner, NEW a, MayHave(r, a)
  PROVE  a \in Within
<1>1. r # "file"
  BY DEF Inner, Gainers, Neutral
<1>. QED
  BY <1>1, InnerRules, WordChildren

\* What stands below a view and the rules around expressions.
LEMMA OuterChildren ==
  ASSUME NEW a
  PROVE  /\ MayHave("view", a) => a \in {"expr_block"} \cup Mild
         /\ MayHave("expr_block", a) => a = "transform"
         /\ MayHave("transform", a)
              => a \in {"transform_arg", "transform_return_type", "transform_scope_var", "expr_stmt",
                        "template_statement"}
         /\ MayHave("expr_stmt", a)
              => a \in {"expr_statement_no_nl", "expr_statement", "expr_inject_stmt"}
         /\ MayHave("expr_statement", a) => a \in Assigns
         /\ \A r \in Assigns : MayHave(r, a) => a = "expr_assign"
         /\ MayHave("expr_assign", a) => a \in {"expr", "transform"}
         /\ MayHave("expr_statement_no_nl", a) => a = "expr_dot_assign"
         /\ MayHave("template_statement", a) => a = "template_expression"
         /\ MayHave("template_expression", a) => a \in {"TMPL_TEXT", "expr"}
         /\ ~MayHave("expr_dot_assign", a)
         /\ MayHave("expr_inject_stmt", a) => a = "expr_func"
         /\ MayHave("transform_arg", a) => a = "expr"
<1>1. Outer \subseteq Rules /\ "view" \in Rules
  BY BodyDeep DEF Body, Rules, Grammar
<1>2. MayHave("view", a) => a \in {"expr_block"} \cup Mild
  <2>1. /\ Alphabet["view"] \cap Shallow = {}
        /\ Alphabet["view"] \cap Body \subseteq {"expr_block"}
    BY SMTT(60) DEF Alphabet, Shallow, Body, Inner, Gainers, Neutral, Outer, Assigns
  <2>. QED
    BY <1>1, <2>1, AlphabetTyped, KidsIn DEF Mild, Deep
<1>. QED
  BY <1>1, <1>2, KidsIn DEF Outer, Assigns, Alphabet

\* The rules of a body stand only in one, and the block of it only in a view.
LEMMA BodyParents ==
  ASSUME NEW r \in Rules \cup {"file"}, NEW a, MayHave(r, a)
  PROVE  /\ a \in Body => r \in Body \/ (r = "view" /\ a = "expr_block")
         /\ a = "expr_block" => r = "view"
         /\ a = "view" => r = "app_decl"
         /\ a = "app_decl" => r = "application"
         /\ a = "application" => r = "sysl_file"
         /\ a = "sysl_file" => r = "file"
         /\ a # "file"
<1>1. CASE r = "file"
  BY <1>1 DEF MayHave, Body, Inner, Gainers, Neutral, Outer, Assigns
<1>2. CASE r \in Rules
  <2>1. \A x \in Rules : x \in Body \/ Alphabet[x] \cap Body = {} \/ x = "view"
    BY SMTT(60) DEF Alphabet, Rules, Grammar, Body, Inner, Gainers, Neutral, Outer, Assigns
  <2>2. Alphabet["view"] \cap Body = {"expr_block"}
    BY SMTT(60) DEF Alphabet, Body, Inner, Gainers, Neutral, Outer, Assigns
  <2>3. \A x \in Rules :
          /\ "expr_block" \in Alphabet[x] => x = "view"
          /\ "view" \in Alphabet[x] => x = "app_decl"
          /\ "app_decl" \in Alphabet[x] => x = "application"
          /\ "application" \in Alphabet[x] => x = "sysl_file"
          /\ "sysl_file" \notin Alphabet[x]
    BY SMTT(60) DEF Alphabet, Rules, Grammar
  <2>4. a \in Alphabet[r] /\ a # "file"
    BY <1>2, KidsIn, AlphabetTyped, FileIsNoRule
  <2>. QED
    BY <1>2, <2>1, <2>2, <2>3, <2>4
<1>. QED
  BY <1>1, <1>2

-----------------------------------------------------------------------------
\* What a callback does to the listener, by the rule it is for

LEMMA EnterStays ==
  ASSUME NEW s \in Listener, NEW w, NEW r \in Rules \ LoudEnter
  PROVE  Stays(s, Enter(s, r, w))
  BY StaysItself, TypeCallbacksStay, StatementCallbacksStay, RelationalCallbacksStay,
     AtomCallbacksStay,
     TransformCallbacksStay, ModelNameStays
  DEF Enter, LoudEnter

LEMMA ExitStays ==
  ASSUME NEW s \in Listener, NEW w, Len(w) \in Nat, NEW r \in Rules \ LoudExit
  PROVE  Stays(s, Exit(s, r, w))
<1>1. r \in {"expr_rel", "expr_bitand", "expr_bitxor", "expr_bitor", "expr_and", "expr_or",
    "expr_but_not",
              "expr_coalesce"} => r \in Callbacks
  BY DEF Callbacks
<1>. QED
  BY <1>1, StaysItself, TypeCallbacksStay, StatementCallbacksStay, RelationalCallbacksStay,
     AtomCallbacksStay,
     TransformCallbacksStay, reverseOpStays
  DEF Exit, LoudExit

LEMMA StaysEnters ==
  ASSUME NEW s, NEW t, Stays(s, t), NEW r, NEW w, ~Scopes(r, w),
         r \notin TypeRules \cup {"app_decl", "rest_endpoint", "http_path_var_with_type",
             "method_def"}
  PROVE  t \in Listener /\ (Live(t) => Entering(s, t, r, w))
  BY DEF Stays, Entering, SamePaths

LEMMA PushesEnters ==
  ASSUME NEW s, NEW t, NEW r, Pushes(s, t, r), NEW w, Scopes(r, w),
         r \notin TypeRules \cup {"app_decl", "rest_endpoint", "http_path_var_with_type",
             "method_def"}
  PROVE  t \in Listener /\ (Live(t) => Entering(s, t, r, w))
  BY DEF Pushes, Entering, SamePaths

LEMMA NoScope ==
  ASSUME NEW r, NEW w, r \notin Scoping, r \notin DOMAIN ScopedFor
  PROVE  ~Scopes(r, w)
  BY DEF Scopes

LEMMA ScopedForDomain ==
  /\ DOMAIN ScopedFor = {"app_decl", "alias", "field_type", "simple_endpoint", "event", "subscribe",
                         "collector"}
  /\ ScopedFor["app_decl"] = "annotation" /\ ScopedFor["alias"] = "annotation"
  /\ ScopedFor["field_type"] = "annotations" /\ ScopedFor["simple_endpoint"] = "statements"
  /\ ScopedFor["event"] = "statements" /\ ScopedFor["subscribe"] = "statements"
  /\ ScopedFor["collector"] = "collector_stmts"
  BY DEF ScopedFor

LEMMA EnterEffect ==
  ASSUME NEW s \in Listener, NEW r \in Rules, NEW w, NEW t \in Entered(s, r, w),
         r = "simple_endpoint" => ~(Has(w, "WHATEVER") /\ Has(w, "statements"))
  PROVE  t \in Listener /\ (Live(t) => Entering(s, t, r, w))
<1>. USE ScopedForDomain DEF Scoping, TypeRules
<1>1. CASE r \notin LoudEnter
  <2>1. t = Enter(s, r, w)
    BY <1>1 DEF Entered, LoudEnter
  <2>2. Stays(s, t) /\ ~Scopes(r, w)
    BY <1>1, <2>1, EnterStays, NoScope DEF LoudEnter
  <2>. QED
    BY <1>1, <2>2, StaysEnters DEF LoudEnter
<1>2. CASE r = "field_type"
  <2>1. t = EnterField_type(s, w) /\ (Scopes(r, w) <=> Has(w, "annotations"))
    BY <1>2 DEF Entered, Enter, Scopes
  <2>. QED
    BY <1>2, <2>1, FieldTypeCallbacks, StaysEnters, PushesEnters
<1>3. CASE r = "inplace_tuple"
  <2>1. t = EnterInplace_tuple(s) /\ ~Scopes(r, w)
    BY <1>3 DEF Entered, Enter, Scopes
  <2>2. PushesType(s, t)
    BY <2>1, InplaceTupleCallbacks
  <2>. QED
    BY <1>3, <2>1, <2>2 DEF PushesType, Entering, SamePaths
<1>4. CASE r \in {"table", "union"}
  <2>1. t = (IF r = "table" THEN EnterTable(s, w) ELSE EnterUnion(s, w)) /\ Scopes(r, w)
    BY <1>4 DEF Entered, Enter, Scopes
  <2>2. PushesBoth(s, t, r)
    BY <1>4, <2>1, TableCallbacks
  <2>. QED
    BY <1>4, <2>1, <2>2 DEF PushesBoth, Entering, SamePaths
<1>5. CASE r = "alias"
  <2>1. t = EnterAlias(s, w) /\ (Scopes(r, w) <=> Has(w, "annotation"))
    BY <1>5 DEF Entered, Enter, Scopes
  <2>2. IF Has(w, "annotation") THEN PushesBoth(s, t, "alias") ELSE PushesType(s, t)
    BY <2>1, AliasCallbacks
  <2>. QED
    BY <1>5, <2>1, <2>2 DEF PushesBoth, PushesType, Entering, SamePaths
<1>6. CASE r \in {"params", "view"}
  <2>1. t = (IF r = "params" THEN EnterParams(s) ELSE EnterView(s)) /\ ~Scopes(r, w)
    BY <1>6 DEF Entered, Enter, Scopes
  <2>2. Remaps(s, t)
    BY <2>1, RemapCallbacks
  <2>. QED
    BY <1>6, <2>1, <2>2 DEF Remaps, Entering, SamePaths
<1>7. CASE r = "app_decl"
  <2>1. t = EnterApp_decl(s, w) /\ (Scopes(r, w) <=> Has(w, "annotation"))
    BY <1>7 DEF Entered, Enter, Scopes
  <2>2. /\ t \in Listener
        /\ Live(t) => /\ Live(s)
                      /\ IF Has(w, "annotation") THEN PushedScope(s, t,
                          "app_decl") ELSE SameScope(s, t)
                      /\ SameTypes(s, t)
                      /\ t.urlPrefixes = s.urlPrefixes
                      /\ t.rest_attrs = 0
                      /\ t.rest_urlparams = s.rest_urlparams
                      /\ t.rest_urlparams_len = s.rest_urlparams_len
                      /\ t.endpoint = s.endpoint
    BY <2>1, AppCallbacks
  <2>. QED
    BY <1>7, <2>1, <2>2 DEF Entering
<1>8. CASE r = "name_with_attribs"
  <2>1. Stays(s, t) /\ ~Scopes(r, w)
    BY <1>8, NameCallbacksStay, NoScope DEF Entered
  <2>. QED
    BY <1>8, <2>1, StaysEnters
<1>9. CASE r = "subscribe"
  <2>1. t \in EnterSubscribe(s, w) /\ (Scopes(r, w) <=> Has(w, "statements"))
    BY <1>9 DEF Entered, Scopes
  <2>2. IF Has(w, "statements") THEN NamesAndPushes(s, t, "plain", "subscribe") ELSE Names(s, t,
      "plain")
    BY <2>1, EndpointCallbacks
  <2>. QED
    BY <1>9, <2>1, <2>2 DEF NamesAndPushes, Names, Entering, SamePaths, Naming
<1>10. CASE r = "simple_endpoint"
  <2>1. t = EnterSimple_endpoint(s, w) /\ (Scopes(r, w) <=> Has(w, "statements"))
    BY <1>10 DEF Entered, Enter, Scopes
  <2>2. CASE Has(w, "WHATEVER")
    <3>1. Stays(s, t) /\ ~Scopes(r, w)
      BY <1>10, <2>1, <2>2, EndpointCallbacks
    <3>. QED
      BY <1>10, <3>1, StaysEnters
  <2>3. CASE ~Has(w, "WHATEVER")
    <3>1. IF Has(w, "statements") THEN NamesAndPushes(s, t, "plain", "simple_endpoint")
                                 ELSE Names(s, t, "plain")
      BY <2>1, <2>3, EndpointCallbacks
    <3>. QED
      BY <1>10, <2>1, <3>1 DEF NamesAndPushes, Names, Entering, SamePaths, Naming
  <2>. QED
    BY <2>2, <2>3
<1>11. CASE r = "event"
  <2>1. t = EnterEvent(s, w) /\ (Scopes(r, w) <=> Has(w, "statements"))
    BY <1>11 DEF Entered, Enter, Scopes
  <2>2. IF Has(w, "statements") THEN NamesAndPushes(s, t, "plain", "event") ELSE Names(s, t,
      "plain")
    BY <2>1, EndpointCallbacks
  <2>. QED
    BY <1>11, <2>1, <2>2 DEF NamesAndPushes, Names, Entering, SamePaths, Naming
<1>12. CASE r = "method_def"
  <2>1. t = EnterMethod_def(s) /\ Scopes(r, w)
    BY <1>12 DEF Entered, Enter, Scopes
  <2>2. NamesAndPushes(s, t, "rest", "method_def")
    BY <2>1, MethodCallbacks
  <2>. QED
    BY <1>12, <2>1, <2>2 DEF NamesAndPushes, Entering, SamePaths
<1>13. CASE r = "collector"
  <2>1. t = EnterCollector(s, w) /\ (Scopes(r, w) <=> Has(w, "collector_stmts"))
    BY <1>13 DEF Entered, Enter, Scopes
  <2>2. IF Has(w, "collector_stmts") THEN Pushes(s, t, "collector") ELSE Stays(s, t)
    BY <2>1, EndpointCallbacks
  <2>. QED
    BY <1>13, <2>1, <2>2, StaysEnters, PushesEnters
<1>14. CASE r = "http_path_var_with_type"
  <2>1. t = EnterHttp_path_var_with_type(s, w) /\ ~Scopes(r, w)
    BY <1>14 DEF Entered, Enter, Scopes
  <2>2. /\ t \in Listener
        /\ Live(t) => /\ Live(s) /\ SameScope(s, t)
                      /\ SameTypes(s, t) /\ t.typemap = s.typemap
                      /\ t.urlPrefixes = s.urlPrefixes
                      /\ t.rest_attrs = s.rest_attrs
                      /\ t.rest_urlparams = Append(s.rest_urlparams, Len(s.rest_urlparams_len))
                      /\ t.rest_urlparams_len = s.rest_urlparams_len
                      /\ t.endpoint = s.endpoint
    BY SMTT(60), <2>1, PathCallbacks
  <2>. QED
    BY <1>14, <2>1, <2>2 DEF Entering
<1>15. CASE r = "http_path"
  <2>1. t = EnterHttp_path(s) /\ ~Scopes(r, w)
    BY <1>15 DEF Entered, Enter, Scopes
  <2>2. Names(s, t, "path")
    BY <2>1, MethodCallbacks
  <2>. QED
    BY <1>15, <2>1, <2>2 DEF Names, Entering, SamePaths, Naming
<1>16. CASE r = "rest_endpoint"
  <2>1. t = EnterRest_endpoint(s) /\ ~Scopes(r, w)
    BY <1>16 DEF Entered, Enter, Scopes
  <2>2. /\ t \in Listener
        /\ Live(t) => /\ Live(s) /\ SameScope(s, t)
                      /\ SameTypes(s, t) /\ t.typemap = s.typemap
                      /\ t.urlPrefixes = s.urlPrefixes
                      /\ t.rest_attrs = s.rest_attrs + 1
                      /\ t.rest_urlparams = s.rest_urlparams
                      /\ t.rest_urlparams_len = Append(s.rest_urlparams_len, Len(s.rest_urlparams))
                      /\ t.endpoint = s.endpoint
    BY <2>1, PathCallbacks
  <2>. QED
    BY <1>16, <2>1, <2>2 DEF Entering
<1>17. CASE r \in {"if_stmt", "else_stmt", "for_stmt", "group_stmt", "one_of_cases", "one_of_stmt"}
  <2>1. Scopes(r, w)
    BY <1>17 DEF Scopes
  <2>2. Pushes(s, t, r)
    BY <1>17, BlockCallbacks DEF Entered, Enter
  <2>. QED
    BY <1>17, <2>1, <2>2, PushesEnters
<1>. QED
  BY <1>1, <1>2, <1>3, <1>4, <1>5, <1>6, <1>7, <1>8, <1>9, <1>10, <1>11, <1>12, <1>13, <1>14, <1>15,
     <1>16, <1>17 DEF LoudEnter

\* A field that is begun goes where fields go.
LEMMA FieldEntered ==
  ASSUME NEW s \in Listener, NEW w, NEW t \in Entered(s, "field", w), Live(t)
  PROVE  s.typemap # 0 /\ t.field.top = s.typemap
<1>1. t = EnterField(s)
  BY DEF Entered, Enter
<1>. QED
  BY <1>1, FieldGoesToTypemap

LEMMA SameIsKept == \A s, t : SameScope(s, t) => KeptScope(s, t)
  BY DEF SameScope, KeptScope

LEMMA StaysExits ==
  ASSUME NEW s, NEW t, Stays(s, t), NEW r, NEW w, ~Scopes(r, w),
         r \notin TypeRules \cup {"rest_endpoint", "http_path", "method_def", "simple_endpoint",
             "event", "subscribe"}
  PROVE  t \in Listener /\ (Live(t) => Exiting(s, t, r, w))
  BY SameIsKept DEF Stays, Exiting, SamePaths

LEMMA DropsExits ==
  ASSUME NEW s, NEW t, NEW r, Drops(s, t), NEW w, Scopes(r, w),
         r \notin TypeRules \cup {"rest_endpoint", "http_path", "method_def", "simple_endpoint",
             "event", "subscribe"}
  PROVE  t \in Listener /\ (Live(t) => Exiting(s, t, r, w))
  BY DEF Drops, Exiting, SamePaths

LEMMA ExitEffect ==
  ASSUME NEW s \in Listener, NEW r \in Rules, NEW w, Len(w) \in Nat,
         r = "rest_endpoint" => /\ s.rest_urlparams_len # <<>>
                                /\ Top(s.rest_urlparams_len) <= Len(s.rest_urlparams)
  PROVE  LET t == Exit(s, r, w) IN t \in Listener /\ (Live(t) => Exiting(s, t, r, w))
<1>. DEFINE t == Exit(s, r, w)
<1>. SUFFICES t \in Listener /\ (Live(t) => Exiting(s, t, r, w))
  OBVIOUS
<1>0. t = Exit(s, r, w)
  OBVIOUS
<1>. HIDE DEF t
<1>. USE ScopedForDomain DEF Scoping, TypeRules
<1>1. CASE r \notin LoudExit
  <2>1. Stays(s, t) /\ ~Scopes(r, w)
    BY <1>0, <1>1, ExitStays, NoScope DEF LoudExit
  <2>. QED
    BY <1>1, <2>1, StaysExits DEF LoudExit
<1>2. CASE r = "field_type"
  <2>1. t = ExitField_type(s, w) /\ (Scopes(r, w) <=> Has(w, "annotations"))
    BY <1>0, <1>2 DEF Exit, Scopes
  <2>. QED
    BY <1>2, <2>1, FieldTypeCallbacks, StaysExits, DropsExits
<1>3. CASE r = "inplace_tuple"
  <2>1. t = ExitInplace_tuple(s) /\ ~Scopes(r, w)
    BY <1>0, <1>3 DEF Exit, Scopes
  <2>2. PopsType(s, t)
    BY <2>1, InplaceTupleCallbacks
  <2>. QED
    BY <1>3, <2>1, <2>2, SameIsKept DEF PopsType, Exiting, SamePaths
<1>4. CASE r \in {"table", "union"}
  <2>1. t = (IF r = "table" THEN ExitTable(s) ELSE ExitUnion(s, w)) /\ Scopes(r, w)
    BY <1>0, <1>4 DEF Exit, Scopes
  <2>2. PopsBoth(s, t)
    BY <1>4, <2>1, TableCallbacks
  <2>. QED
    BY <1>4, <2>1, <2>2 DEF PopsBoth, Exiting, SamePaths
<1>5. CASE r = "alias"
  <2>1. t = ExitAlias(s, w) /\ (Scopes(r, w) <=> Has(w, "annotation"))
    BY <1>0, <1>5 DEF Exit, Scopes
  <2>2. /\ t \in Listener
        /\ Live(t) => /\ Live(s)
                      /\ IF Has(w, "annotation") THEN PoppedScope(s, t) ELSE SameScope(s, t)
                      /\ PoppedType(s, t)
                      /\ SamePaths(s, t) /\ t.endpoint = s.endpoint
    BY <2>1, AliasCallbacks
  <2>. QED
    BY <1>5, <2>1, <2>2, SameIsKept DEF Exiting, SamePaths
<1>6. CASE r = "params"
  <2>1. t = ExitParams(s) /\ ~Scopes(r, w)
    BY <1>0, <1>6 DEF Exit, Scopes
  <2>2. (Remaps(s, t) /\ OuterMap(t)) \/ Stays(s, t)
    BY <2>1, RemapCallbacks
  <2>. QED
    BY <1>6, <2>1, <2>2, SameIsKept DEF Remaps, Stays, Exiting, SamePaths
<1>7. CASE r = "view"
  <2>1. t = ExitView(s, w) /\ ~Scopes(r, w)
    BY <1>0, <1>7 DEF Exit, Scopes
  <2>2. Remaps(s, t)
    BY <2>1, RemapCallbacks
  <2>. QED
    BY <1>7, <2>1, <2>2, SameIsKept DEF Remaps, Exiting, SamePaths
<1>8. CASE r = "app_decl"
  <2>1. t = ExitApp_decl(s, w) /\ (Scopes(r, w) <=> Has(w, "annotation"))
    BY <1>0, <1>8 DEF Exit, Scopes
  <2>. QED
    BY <1>8, <2>1, AppCallbacks, StaysExits, DropsExits
<1>9. CASE r \in {"simple_endpoint", "event", "subscribe"}
  <2>1. t = ExitEndpoint(s, w) /\ (Scopes(r, w) <=> Has(w, "statements"))
    BY <1>0, <1>9 DEF Exit, Scopes
  <2>2. IF Has(w, "statements") THEN NamesAndDrops(s, t, "") ELSE Names(s, t, "")
    BY <2>1, EndpointCallbacks
  <2>. QED
    BY <1>9, <2>1, <2>2, SameIsKept DEF NamesAndDrops, Names, Exiting, SamePaths
<1>10. CASE r = "method_def"
  <2>1. t = ExitMethod_def(s) /\ Scopes(r, w)
    BY <1>0, <1>10 DEF Exit, Scopes
  <2>2. NamesAndDrops(s, t, "")
    BY <2>1, MethodCallbacks
  <2>. QED
    BY <1>10, <2>1, <2>2 DEF NamesAndDrops, Exiting, SamePaths
<1>11. CASE r = "collector"
  <2>1. t = ExitCollector(s, w) /\ (Scopes(r, w) <=> Has(w, "collector_stmts"))
    BY <1>0, <1>11 DEF Exit, Scopes
  <2>2. IF Has(w, "collector_stmts") THEN Drops(s, t) ELSE Stays(s, t)
    BY <2>1, EndpointCallbacks
  <2>. QED
    BY <1>11, <2>1, <2>2, StaysExits, DropsExits
<1>12. CASE r \in {"set_type", "sequence_type"}
  <2>1. t = exitSetOrSequence_type(s, w) /\ ~Scopes(r, w)
    BY <1>0, <1>12 DEF Exit, Scopes
  <2>2. /\ t \in Listener
        /\ Live(t) => /\ Live(s) /\ KeptScope(s, t)
                      /\ SameTypes(s, t) /\ t.typemap = s.typemap
                      /\ SamePaths(s, t) /\ t.endpoint = s.endpoint
    BY <2>1, SetTypeKeeps
  <2>. QED
    BY <1>12, <2>1, <2>2 DEF Exiting, SamePaths
<1>13. CASE r = "http_path"
  <2>1. t = ExitHttp_path(s) /\ ~Scopes(r, w)
    BY <1>0, <1>13 DEF Exit, Scopes
  <2>2. /\ t \in Listener
        /\ Live(t) => /\ Live(s) /\ SameScope(s, t)
                      /\ SameTypes(s, t) /\ t.typemap = s.typemap
                      /\ t.urlPrefixes = s.urlPrefixes + 1
                      /\ t.rest_attrs = s.rest_attrs
                      /\ t.rest_urlparams = s.rest_urlparams
                      /\ t.rest_urlparams_len = s.rest_urlparams_len
                      /\ t.endpoint = s.endpoint
    BY <2>1, PathCallbacks
  <2>. QED
    BY <1>13, <2>1, <2>2, SameIsKept DEF Exiting
<1>14. CASE r = "rest_endpoint"
  <2>1. t = ExitRest_endpoint(s) /\ ~Scopes(r, w)
    BY <1>0, <1>14 DEF Exit, Scopes
  <2>2. /\ t \in Listener
        /\ Live(t) => /\ Live(s) /\ SameScope(s, t)
                      /\ SameTypes(s, t) /\ t.typemap = s.typemap
                      /\ t.urlPrefixes = s.urlPrefixes - 1
                      /\ s.rest_attrs = s.urlPrefixes
                      /\ t.rest_attrs = s.rest_attrs - 1
                      /\ t.rest_urlparams = SubSeq(s.rest_urlparams, 1, Top(s.rest_urlparams_len))
                      /\ t.rest_urlparams_len = Pop(s.rest_urlparams_len)
                      /\ t.endpoint = s.endpoint
    BY <1>14, <2>1, ExitRestPops
  <2>. QED
    BY <1>14, <2>1, <2>2, SameIsKept DEF Exiting
<1>15. CASE r \in {"if_stmt", "else_stmt", "for_stmt", "group_stmt", "one_of_cases", "one_of_stmt"}
  <2>1. t = ExitBlock(s) /\ Scopes(r, w)
    BY <1>0, <1>15 DEF Exit, Scopes
  <2>2. Drops(s, t)
    BY <2>1, BlockCallbacks
  <2>. QED
    BY <1>15, <2>1, <2>2, DropsExits
<1>. QED
  BY <1>1, <1>2, <1>3, <1>4, <1>5, <1>6, <1>7, <1>8, <1>9, <1>10, <1>11, <1>12, <1>13, <1>14, <1>15
  DEF LoudExit

-----------------------------------------------------------------------------
\* The words of the rules that hold the others, and the word of a lowest tree

LEMMA SpineSymbols ==
  {"sysl_file", "imports_decl", "application", "name_with_attribs", "app_decl", "alias", "annotation",
   "collector", "enum", "event", "facade", "mixin", "rest_endpoint", "simple_endpoint", "subscribe",
   "union", "view", "table", "http_path", "attribs_or_modifiers", "method_def", "params",
   "query_param", "statements", "endpoint_name", "shortcut", "name_str"} \subseteq Rules
  BY DEF Rules, Grammar

\* The path of a rest endpoint comes first, and only there.
LEMMA PathComesFirst ==
  ASSUME NEW w \in Grammar["rest_endpoint"]
  PROVE  /\ w # <<>> /\ w[1] = "http_path"
         /\ \A k \in 1..Len(w) : w[k] = "http_path" => k = 1
<1>. DEFINE S == {"attribs_or_modifiers", "method_def", "rest_endpoint"}
<1>0. "attribs_or_modifiers" \in S /\ {"method_def", "rest_endpoint"} \subseteq S /\ "http_path" \notin S
  OBVIOUS
<1>. HIDE DEF S
<1>1. w \in rest_endpoint
  BY DEF Grammar
<1>. DEFINE U == {<<"http_path">>} ** Opt("attribs_or_modifiers")
             V == Some({"method_def", "rest_endpoint"})
<1>2. w \in U ** V
  BY <1>1 DEF rest_endpoint
<1>. HIDE DEF U, V
<1>3. PICK u \in U, v \in V : w = u \o v
  BY <1>2 DEF **
<1>8. v \in Some({"method_def", "rest_endpoint"}) /\ u \in {<<"http_path">>} ** Opt("attribs_or_modifiers")
  BY DEF U, V
<1>9. PICK x \in Opt("attribs_or_modifiers") : u = <<"http_path">> \o x
  BY <1>8 DEF **
<1>4. x \in Seq(S) /\ v \in Seq(S)
  BY <1>0, <1>8, OptIn, SomeIn
<1>5. x \o v \in Seq(S) /\ w = <<"http_path">> \o (x \o v)
  BY <1>3, <1>9, <1>4
<1>. DEFINE y == x \o v
<1>6. y \in Seq(S) /\ w = <<"http_path">> \o y
  BY <1>5
<1>. HIDE DEF y
<1>7. Len(w) = Len(y) + 1 /\ w[1] = "http_path" /\ \A k \in 2..Len(w) : w[k] = y[k - 1] /\ y[k - 1] \in S
  BY <1>6
<1>. QED
  BY <1>0, <1>7, <1>6

\* A simple endpoint without a body has no statement.
LEMMA NoBodyNoStatement ==
  ASSUME NEW w \in Grammar["simple_endpoint"]
  PROVE  ~(Has(w, "WHATEVER") /\ Has(w, "statements"))
<1>. DEFINE S == {"endpoint_name", "params", "attribs_or_modifiers", "shortcut", "statements"}
<1>0. /\ {"endpoint_name", "params", "attribs_or_modifiers", "shortcut", "statements"} \subseteq S
      /\ "WHATEVER" \notin S
  OBVIOUS
<1>. HIDE DEF S
<1>1. w \in simple_endpoint
  BY DEF Grammar
<1>2. CASE w = <<"WHATEVER">>
  BY <1>2 DEF Has
<1>3. CASE w # <<"WHATEVER">>
  <2>1. {<<"endpoint_name">>} \subseteq Seq(S) /\ {<<"shortcut">>} \subseteq Seq(S)
    BY <1>0, WordIn
  <2>2. Opt("params") \subseteq Seq(S) /\ Opt("attribs_or_modifiers") \subseteq Seq(S)
    BY <1>0, OptIn
  <2>3. Some({"statements"}) \subseteq Seq(S)
    BY <1>0, SomeIn
  <2>4. {<<"endpoint_name">>} ** Opt("params") \subseteq Seq(S)
    BY <2>1, <2>2, CatIn
  <2>5. {<<"endpoint_name">>} ** Opt("params") ** Opt("attribs_or_modifiers") \subseteq Seq(S)
    BY <2>2, <2>4, CatIn
  <2>6. {<<"shortcut">>} \cup Some({"statements"}) \subseteq Seq(S)
    BY <2>1, <2>3
  <2>7. {<<"endpoint_name">>} ** Opt("params") ** Opt("attribs_or_modifiers")
          ** ({<<"shortcut">>} \cup Some({"statements"})) \subseteq Seq(S)
    BY <2>5, <2>6, CatIn
  <2>8. w \in Seq(S)
    BY <1>1, <1>3, <2>7 DEF simple_endpoint
  <2>. QED
    BY <2>8, <1>0 DEF Has
<1>. QED
  BY <1>2, <1>3

LEMMA PlainIsAWord == \A r \in Rules : Plain[r] \in Grammar[r]
<1>1. \A r \in Rules : Said[r] \subseteq Grammar[r]
  BY DEF Said
<1>2. ASSUME NEW r \in Rules PROVE Plain[r] \in Said[r]
  <2>. DEFINE good(w) == EndsIn(w, Level[Height[r] - 1])
  <2>1. \E w \in Said[r] : good(w)
    BY EveryRuleEnds
  <2>2. Plain[r] = CHOOSE w \in Said[r] : good(w)
    BY DEF Plain
  <2>. HIDE DEF good
  <2>. QED
    BY <2>1, <2>2
<1>. QED
  BY <1>1, <1>2

-----------------------------------------------------------------------------
\* Which rules may stand in which

LEMMA NestingKept ==
  /\ Keeps({"rest_endpoint"}, Roots)
  /\ Keeps({"method_def"}, {"file"} \cup (Shallow \ {"params"}))
  /\ Keeps(TypeRules \cup {"http_path"}, {"file"} \cup Shallow)
<1>1. ASSUME NEW r \in Rules \cup {"file"}, NEW a \in Rules, r \in {"rest_endpoint"} \/ r \notin Roots,
             MayHave(r, a)
      PROVE  a \notin Roots
  <2>1. CASE r \in Rules \ Spine
    BY <1>1, <2>1, DeepChildren DEF Roots, Shallow
  <2>2. CASE r = "rest_endpoint"
    BY <1>1, <2>2, RestChildren DEF Roots
  <2>3. CASE r = "method_def"
    BY <1>1, <2>3, MethodChildren DEF Roots
  <2>4. CASE r \in {"simple_endpoint", "event"}
    <3>1. r \in Rules
      BY <2>4 DEF Rules, Grammar
    <3>. QED
      BY <1>1, <2>4, <3>1, KidsIn DEF Alphabet, Roots
  <2>. QED
    BY <1>1, <2>1, <2>2, <2>3, <2>4 DEF Spine, Roots
<1>2. ASSUME NEW r \in Rules \cup {"file"}, NEW a \in Rules,
             r = "method_def" \/ r \notin {"file"} \cup (Shallow \ {"params"}), MayHave(r, a)
      PROVE  a \notin {"file"} \cup (Shallow \ {"params"})
  <2>1. CASE r \in Rules \ Spine
    BY <1>2, <2>1, DeepChildren
  <2>2. CASE r = "method_def"
    BY <1>2, <2>2, MethodChildren DEF Shallow
  <2>. QED
    BY <1>2, <2>1, <2>2 DEF Spine, Shallow
<1>3. ASSUME NEW r \in Rules \cup {"file"}, NEW a \in Rules,
             r \in TypeRules \cup {"http_path"} \/ r \notin {"file"} \cup Shallow, MayHave(r, a)
      PROVE  a \notin {"file"} \cup Shallow
  <2>1. r \in Rules \ Spine
    BY <1>3 DEF Spine, Shallow, TypeRules
  <2>. QED
    BY <1>3, <2>1, DeepChildren
<1>. QED
  BY <1>1, <1>2, <1>3 DEF Keeps

LEMMA RestOfWord ==
  ASSUME NEW S, NEW w \in Seq(S), NEW n \in 1..Len(w)
  PROVE  LET left == SubSeq(w, n + 1, Len(w))
         IN  /\ Len(left) = Len(w) - n /\ Len(w) \in Nat
             /\ \A k \in 1..(Len(w) - n) : n + k \in 1..Len(w) /\ left[k] = w[n + k]
<1>1. Len(w) \in Nat /\ n \in Nat /\ n + 1 \in 1..(Len(w) + 1)
  OBVIOUS
<1>. QED
  BY <1>1

-----------------------------------------------------------------------------
\* The stacks of the rest endpoints, and the first listener

LEMMA NestsVariable ==
  ASSUME NEW of \in Seq(Nat), NEW lens \in Seq(Nat), Nests(of, lens)
  PROVE  Nests(Append(of, Len(lens)), lens)
<1>. DEFINE l == Len(lens)
            more == Append(of, l)
<1>1. /\ Len(of) \in Nat /\ l \in Nat /\ Len(more) = Len(of) + 1 /\ more[Len(of) + 1] = l
      /\ \A i \in 1..Len(of) : more[i] = of[i] /\ of[i] \in Nat
      /\ \A j \in 1..l : lens[j] \in Nat
  OBVIOUS
<1>. HIDE DEF more, l
<1>4. \A j, k \in 1..l : j <= k => lens[j] <= lens[k]
  BY DEF Nests, l
<1>2. \A i \in 1..Len(more) : more[i] <= l
  BY SMTT(60), <1>1 DEF Nests, l
<1>3. \A j \in 1..l : lens[j] <= Len(more) /\ \A i \in 1..lens[j] : more[i] < j
  <2>1. SUFFICES ASSUME NEW j \in 1..l PROVE lens[j] <= Len(more) /\ \A i \in 1..lens[j] : more[i] < j
    OBVIOUS
  <2>2. lens[j] <= Len(of) /\ \A i \in 1..lens[j] : of[i] < j
    BY DEF Nests, l
  <2>3. lens[j] <= Len(more)
    BY <1>1, <2>2
  <2>4. ASSUME NEW i \in 1..lens[j] PROVE more[i] < j
    <3>1. i \in 1..Len(of) /\ of[i] < j
      BY <1>1, <2>2
    <3>. QED
      BY <1>1, <3>1
  <2>. QED
    BY <2>3, <2>4
<1>. QED
  BY <1>2, <1>3, <1>4 DEF Nests, more, l

LEMMA NestsEndpoint ==
  ASSUME NEW of \in Seq(Nat), NEW lens \in Seq(Nat), Nests(of, lens)
  PROVE  Nests(of, Append(lens, Len(of)))
<1>. DEFINE l == Len(lens)
            m == Len(of)
            more == Append(lens, m)
<1>1. /\ m \in Nat /\ l \in Nat /\ Len(more) = l + 1 /\ more[l + 1] = m
      /\ \A j \in 1..l : more[j] = lens[j] /\ lens[j] \in Nat
      /\ \A i \in 1..m : of[i] \in Nat
  OBVIOUS
<1>2. \A i \in 1..m : of[i] <= l
  BY DEF Nests
<1>3. \A j \in 1..l : lens[j] <= m /\ \A i \in 1..lens[j] : of[i] < j
  BY DEF Nests
<1>4. \A j, k \in 1..l : j <= k => lens[j] <= lens[k]
  BY DEF Nests
<1>. HIDE DEF more, l, m
<1>5. \A i \in 1..m : of[i] <= Len(more)
  BY <1>1, <1>2
<1>6. \A j \in 1..Len(more) : more[j] <= m /\ \A i \in 1..more[j] : of[i] < j
  <2>1. \A j \in 1..l : more[j] <= m /\ \A i \in 1..more[j] : of[i] < j
    BY <1>1, <1>3
  <2>2. \A i \in 1..more[l + 1] : of[i] < l + 1
    BY <1>1, <1>2
  <2>. QED
    BY <1>1, <2>1, <2>2
<1>7. \A j, k \in 1..Len(more) : j <= k => more[j] <= more[k]
  <2>1. SUFFICES ASSUME NEW j \in 1..(l + 1), NEW k \in 1..(l + 1), j <= k PROVE more[j] <= more[k]
    BY <1>1
  <2>2. CASE k = l + 1
    BY <1>1, <1>6, <2>1, <2>2
  <2>3. CASE k # l + 1
    <3>1. j \in 1..l /\ k \in 1..l
      BY <1>1, <2>1, <2>3
    <3>. QED
      BY <1>1, <1>4, <2>1, <3>1
  <2>. QED
    BY <2>2, <2>3
<1>. QED
  BY <1>5, <1>6, <1>7 DEF Nests, more, m

LEMMA NestsBack ==
  ASSUME NEW of \in Seq(Nat), NEW lens \in Seq(Nat), Nests(of, lens), lens # <<>>
  PROVE  /\ Top(lens) <= Len(of)
         /\ Nests(SubSeq(of, 1, Top(lens)), Pop(lens))
<1>. DEFINE l == Len(lens)
            m == lens[l]
            less == SubSeq(of, 1, m)
            around == SubSeq(lens, 1, l - 1)
<1>1. l \in Nat \ {0} /\ Len(of) \in Nat /\ m \in Nat
  OBVIOUS
<1>2. m <= Len(of) /\ \A i \in 1..m : of[i] < l /\ of[i] \in Nat
  BY <1>1 DEF Nests
<1>3. \A j \in 1..l : lens[j] <= m /\ lens[j] \in Nat /\ \A i \in 1..lens[j] : of[i] < j
  BY <1>1 DEF Nests
<1>4. \A j, k \in 1..l : j <= k => lens[j] <= lens[k]
  BY DEF Nests
<1>5. less = SubSeq(of, 1, m) /\ around = SubSeq(lens, 1, l - 1) /\ l = Len(lens)
  OBVIOUS
<1>. HIDE DEF less, around, m, l
<1>6. Len(less) = m /\ \A i \in 1..m : less[i] = of[i]
  BY <1>1, <1>2, <1>5
<1>7. Len(around) = l - 1 /\ \A j \in 1..(l - 1) : around[j] = lens[j]
  <2>. DEFINE p == l - 1
  <2>1. p \in 0..l /\ around = SubSeq(lens, 1, p) /\ p \in Nat
    BY <1>1, <1>5
  <2>. HIDE DEF p
  <2>2. Len(around) = p /\ \A j \in 1..p : around[j] = lens[j]
    BY <2>1, <1>1, <1>5
  <2>. QED
    BY <2>2 DEF p
<1>8. \A i \in 1..Len(less) : less[i] <= Len(around)
  <2>1. SUFFICES ASSUME NEW i \in 1..m PROVE less[i] <= l - 1
    BY <1>6, <1>7
  <2>2. less[i] = of[i] /\ of[i] < l /\ of[i] \in Nat
    BY <1>2, <1>6
  <2>. QED
    BY <1>1, <2>2
<1>9. \A j \in 1..Len(around) : around[j] <= Len(less) /\ \A i \in 1..around[j] : less[i] < j
  <2>1. SUFFICES ASSUME NEW j \in 1..(l - 1) PROVE lens[j] <= m /\ \A i \in 1..lens[j] : less[i] < j
    BY <1>6, <1>7
  <2>2. j \in 1..l /\ lens[j] <= m /\ lens[j] \in Nat
    BY <1>1, <1>3
  <2>3. ASSUME NEW i \in 1..lens[j] PROVE less[i] < j
    <3>1. i \in 1..m /\ of[i] < j
      BY <1>1, <1>3, <2>2
    <3>. QED
      BY <1>6, <3>1
  <2>. QED
    BY <2>2, <2>3
<1>10. \A j, k \in 1..Len(around) : j <= k => around[j] <= around[k]
  BY <1>1, <1>4, <1>7
<1>11. Nests(less, around)
  BY <1>8, <1>9, <1>10 DEF Nests
<1>. QED
  BY <1>2, <1>11 DEF less, around, m, l, Top, Pop

LEMMA FileIsQuiet ==
  ASSUME NEW s \in Listener, NEW w
  PROVE  Exit(s, "file", w) = s /\ (Live(s) => Exiting(s, s, "file", w))
<1>1. Exit(s, "file", w) = s
  BY DEF Exit
<1>2. ~Scopes("file", w)
  BY ScopedForDomain, NoScope DEF Scoping
<1>. QED
  BY <1>1, <1>2, StaysItself, StaysExits DEF TypeRules

LEMMA OuterMapKept ==
  ASSUME NEW s \in Listener, NEW t \in Listener, SameTypes(s, t), OuterMap(s),
         OuterMap(t) \/ t.typemap = s.typemap
  PROVE  OuterMap(t)
<1>1. s.types \in Seq(TypeEntry) /\ t.types \in Seq(TypeEntry)
  BY ListenerTypes
<1>2. SUFFICES ASSUME t.typemap = s.typemap, t.types # <<>> PROVE t.typemap \in {0, Top(t.types).map}
  BY DEF OuterMap
<1>3. /\ Len(t.types) = Len(s.types) /\ Len(s.types) \in 1..Len(s.types) /\ s.types # <<>>
      /\ \A i \in 1..Len(s.types) : t.types[i].map = s.types[i].map
  BY <1>1, <1>2 DEF SameTypes
<1>4. Top(t.types).map = Top(s.types).map
  BY <1>3 DEF Top
<1>. QED
  BY <1>2, <1>3, <1>4 DEF OuterMap

LEMMA NewIsListener == NewTreeShapeListener \in Listener /\ Live(NewTreeShapeListener)
<1>1. NoFields \in FieldEntry
  <2>1. {} \in {A \in SUBSET Nat : IsFiniteSet(A)} /\ "" \in {"", "sized", "unsized", "nativeSet"}
    BY FS_EmptySet
  <2>. QED
    BY <2>1 DEF NoFields, FieldEntry
<1>2. <<>> \in Seq(ScopeEntry) /\ <<>> \in Seq(TypeEntry) /\ <<>> \in Seq(AnyExpr) /\ <<>> \in Seq(Nat)
      /\ <<>> \in Seq(AppEntry)
  OBVIOUS
<1>3. /\ "" \in {"", "path", "rest", "plain"} /\ "" \in {""} \cup Callbacks /\ Len(<<>>) = 0 /\ 0 \in Nat
      /\ FALSE \in BOOLEAN
  OBVIOUS
<1>. DEFINE new == NewTreeShapeListener
<1>4. new.app = 0 /\ new.apps = <<>> /\ new.panic = ""
  BY DEF NewTreeShapeListener
<1>5. new \in [scope: Seq(ScopeEntry), types: Seq(TypeEntry), typemap: Nat, field: FieldEntry,
               nativeSet: BOOLEAN, exprs: Seq(AnyExpr), urlPrefixes: Nat, rest_attrs: Nat,
               rest_urlparams: Seq(Nat), rest_urlparams_len: Seq(Nat),
               endpoint: {"", "path", "rest", "plain"}, pendingDocString: BOOLEAN, returns: BOOLEAN,
               apps: Seq(AppEntry), app: Nat, panic: {""} \cup Callbacks]
  BY <1>1, <1>2, <1>3 DEF NewTreeShapeListener
<1>6. new.app <= Len(new.apps)
  <2>1. new.apps = <<>> /\ new.app = 0
    BY <1>4
  <2>. HIDE DEF new
  <2>2. Len(new.apps) = 0
    BY <2>1
  <2>. QED
    BY <2>1, <2>2
<1>. QED
  BY <1>4, <1>5, <1>6 DEF Listener, Live

-----------------------------------------------------------------------------
\* The values that the children of a word leave

LEMMA GainedType ==
  ASSUME NEW w, Len(w) \in Nat
  PROVE  IsFiniteSet(Gaining(w)) /\ Gained(w) \in Nat
<1>1. IsFiniteSet(1..Len(w)) /\ Gaining(w) \subseteq 1..Len(w)
  BY FS_Interval DEF Gaining
<1>2. IsFiniteSet(Gaining(w))
  BY <1>1, FS_Subset
<1>. QED
  BY <1>2, FS_CardinalityType DEF Gained

\* Children that leave no value, children that all leave one, and two words in a row.
LEMMA GainedNone ==
  ASSUME NEW S, NEW w \in Seq(S), S \cap Gainers = {}
  PROVE  Gained(w) = 0
<1>1. Gaining(w) = {}
  BY DEF Gaining
<1>. QED
  BY <1>1, FS_EmptySet DEF Gained

LEMMA GainedAll ==
  ASSUME NEW w \in Seq(Gainers)
  PROVE  Gained(w) = Len(w)
<1>1. Gaining(w) = 1..Len(w)
  BY DEF Gaining
<1>2. Len(w) \in Nat
  OBVIOUS
<1>. QED
  BY <1>1, <1>2, FS_Interval DEF Gained

LEMMA GainedCat ==
  ASSUME NEW S, NEW u \in Seq(S), NEW v \in Seq(S)
  PROVE  Gained(u \o v) = Gained(u) + Gained(v)
<1>. DEFINE c == u \o v
            m == Len(u)
            A == Gaining(u)
            B == {k \in (m + 1)..Len(c) : c[k] \in Gainers}
            f == [k \in Gaining(v) |-> k + m]
<1>1. m \in Nat /\ Len(v) \in Nat /\ Len(c) = m + Len(v)
  OBVIOUS
<1>2. /\ \A k \in 1..m : c[k] = u[k]
      /\ \A k \in 1..Len(v) : c[m + k] = v[k]
  OBVIOUS
<1>3. IsFiniteSet(Gaining(v)) /\ IsFiniteSet(A)
  BY <1>1, GainedType
<1>. HIDE DEF c, m
<1>4. Gaining(c) = A \cup B
  BY <1>1, <1>2 DEF Gaining, m
<1>5. A \cap B = {}
  BY <1>1 DEF Gaining, m
<1>6. ExistsBijection(Gaining(v), B)
  <2>1. \A k \in Gaining(v) : k \in Nat /\ k + m \in B
    BY <1>1, <1>2 DEF Gaining
  <2>2. f \in [Gaining(v) -> B] /\ \A k, l \in Gaining(v) : f[k] = f[l] => k = l
    BY <1>1, <2>1
  <2>3. ASSUME NEW b \in B PROVE \E k \in Gaining(v) : f[k] = b
    <3>1. b - m \in 1..Len(v) /\ m + (b - m) = b /\ (b - m) + m = b
      BY <1>1
    <3>2. v[b - m] \in Gainers
      BY <1>2, <3>1
    <3>. QED
      BY <3>1, <3>2 DEF Gaining
  <2>. QED
    BY <2>2, <2>3 DEF ExistsBijection, Bijection, Injection, IsInjective, Surjection
<1>7. IsFiniteSet(B) /\ Cardinality(B) = Gained(v)
  BY <1>3, <1>6, FS_Bijection DEF Gained
<1>8. Cardinality(A \cup B) = Cardinality(A) + Cardinality(B)
  <2>1. Cardinality(A \cup B) = Cardinality(A) + Cardinality(B) - Cardinality(A \cap B)
    BY <1>3, <1>7, FS_Union
  <2>2. Cardinality(A \cap B) = 0 /\ Cardinality(A) \in Nat /\ Cardinality(B) \in Nat
    BY <1>3, <1>5, <1>7, FS_EmptySet, FS_CardinalityType
  <2>. QED
    BY <2>1, <2>2
<1>. QED
  BY <1>4, <1>7, <1>8 DEF Gained, c

\* The next child that is a rule takes its value from what is to come.
LEMMA GainedNext ==
  ASSUME NEW rest \in Seq(Symbols), NEW n \in 1..Len(rest), NextIs(rest, n)
  PROVE  Gained(rest) = Leaves(rest[n]) + Gained(SubSeq(rest, n + 1, Len(rest)))
<1>. DEFINE u == SubSeq(rest, 1, n)
            v == SubSeq(rest, n + 1, Len(rest))
<1>1. u \in Seq(Symbols) /\ v \in Seq(Symbols) /\ rest = u \o v
  OBVIOUS
<1>2. Len(u) = n /\ \A k \in 1..n : u[k] = rest[k]
  OBVIOUS
<1>. HIDE DEF u, v
<1>3. Gained(rest) = Gained(u) + Gained(v)
  BY <1>1, GainedCat
<1>4. \A k \in 1..(n - 1) : rest[k] \notin Gainers
  BY BodyDeep DEF NextIs, Body, Inner
<1>5. Gaining(u) = IF rest[n] \in Gainers THEN {n} ELSE {}
  BY <1>2, <1>4 DEF Gaining
<1>6. Gained(u) = Leaves(rest[n])
  BY <1>5, FS_EmptySet, FS_Singleton DEF Gained, Leaves
<1>. QED
  BY <1>3, <1>6 DEF v

LEMMA GainedLast ==
  ASSUME NEW rest \in Seq(Symbols), \A n \in 1..Len(rest) : ~NextIs(rest, n)
  PROVE  Gained(rest) = 0 /\ \A n \in 1..Len(rest) : rest[n] \notin Rules
<1>. DEFINE T == {m \in 1..Len(rest) : rest[m] \in Rules}
<1>1. Len(rest) \in Nat /\ T \subseteq Nat
  OBVIOUS
<1>2. ASSUME T # {} PROVE FALSE
  <2>1. PICK x \in T : \A y \in T : ~(<<y, x>> \in OpToRel(<, Nat))
    BY <1>1, <1>2, WFMin, NatLessThanWellFounded
  <2>2. \A y \in T : ~(y < x)
    BY <1>1, <2>1 DEF OpToRel
  <2>3. NextIs(rest, x)
    BY <1>1, <2>2 DEF NextIs
  <2>. QED
    BY <2>3
<1>3. \A n \in 1..Len(rest) : rest[n] \notin Rules
  BY <1>2
<1>4. Gaining(rest) = {}
  BY <1>3, BodyDeep DEF Gaining, Body, Inner
<1>. QED
  BY <1>3, <1>4, FS_EmptySet DEF Gained

\* The sets of rules are sets of symbols, and the idle ones leave nothing.
LEMMA BodySymbols ==
  /\ Gainers \subseteq Symbols /\ Idle \subseteq Symbols /\ Within \subseteq Symbols
  /\ Idle \cap Gainers = {}
<1>1. \A a \in Neutral : a \notin Gainers
  BY DEF Neutral, Gainers
<1>. QED
  BY <1>1, BodyDeep DEF Idle, Within, Mild, Deep, Body, Inner

\* What the operators that make words do to the number of values.
LEMMA GainsIdle ==
  ASSUME NEW V, V \subseteq Seq(Idle)
  PROVE  Gains(V, 0)
<1>1. \A w \in V : Gained(w) = 0
  BY GainedNone, BodySymbols
<1>2. Seq(Idle) \subseteq Seq(Symbols)
  BY BodySymbols
<1>. QED
  BY <1>1, <1>2 DEF Gains

LEMMA GainsOne ==
  ASSUME NEW A, A \subseteq Gainers
  PROVE  Gains(One(A), 1)
<1>1. ASSUME NEW a \in A PROVE <<a>> \in Seq(Gainers) /\ Len(<<a>>) = 1 /\ <<a>> \in Seq(Symbols)
  <2>1. a \in Gainers /\ a \in Symbols
    BY BodySymbols
  <2>. QED
    BY <2>1
<1>. QED
  BY <1>1, GainedAll DEF One, Gains

LEMMA GainsWord ==
  ASSUME NEW a \in Gainers
  PROVE  Gains({<<a>>}, 1)
<1>1. One({a}) = {<<a>>}
  BY DEF One
<1>. QED
  BY <1>1, GainsOne

LEMMA GainsCat ==
  ASSUME NEW V, NEW W, NEW m \in Nat, NEW n \in Nat, Gains(V, m), Gains(W, n)
  PROVE  Gains(V ** W, m + n)
<1>1. V ** W \subseteq Seq(Symbols)
  BY CatIn DEF Gains
<1>2. ASSUME NEW x \in V ** W PROVE Gained(x) = m + n
  <2>1. PICK v \in V, w \in W : x = v \o w
    BY DEF **
  <2>2. v \in Seq(Symbols) /\ w \in Seq(Symbols) /\ Gained(v) = m /\ Gained(w) = n
    BY DEF Gains
  <2>3. Gained(v \o w) = Gained(v) + Gained(w)
    BY <2>2, GainedCat
  <2>. QED
    BY <2>1, <2>2, <2>3
<1>. QED
  BY <1>1, <1>2 DEF Gains

\* The words of the rules that take one operand have one child that leaves a value.
LEMMA OnesGain == \A r \in Ones : Gains(Grammar[r], 1)
<1>0. /\ {"expr", "unaryTerm", "term", "if_one_liner", "if_multiple_lines", "expr_coalesce", "atomT",
          "matching_rhs", "power"} \subseteq Gainers
      /\ {"expr_func", "expr_set", "expr_atom_list", "empty_tuple", "atomT_paren", "literal",
          "atomT_implied_dot", "atomT_name"} \subseteq Gainers
  BY DEF Gainers
<1>1. Many({"termT"}) \subseteq Seq(Idle) /\ Many({"binexprT"}) \subseteq Seq(Idle)
      /\ Many({"relop"}) \subseteq Seq(Idle) /\ Opt("squiggly_args") \subseteq Seq(Idle)
      /\ {<<"OP">>} \subseteq Seq(Idle)
  <2>1. {"termT", "binexprT", "relop", "squiggly_args"} \subseteq Idle
    BY DEF Idle, Neutral
  <2>2. "OP" \in Idle
    BY MildHas DEF Idle
  <2>. QED
    BY <2>1, <2>2, ManyIn, OptIn, WordIn
<1>2. /\ Gains(func_arg, 1)
      /\ Gains(rank_expr, 1)
      /\ Gains(list_item, 1)
      /\ Gains(atomT_paren, 1)
      /\ Gains(powerT, 1)
      /\ Gains(termT, 1)
      /\ Gains(binexprT, 1)
      /\ Gains(else_block_stmt, 1)
      /\ Gains(control_item, 1)
      /\ Gains(final_else, 1)
      /\ Gains(ifvar, 1)
      /\ Gains(expr_any_func, 1)
      /\ Gains(transform_arg, 1)
      /\ Gains(expr_inject_stmt, 1)
  BY <1>0, GainsWord DEF transform_arg, expr_inject_stmt, func_arg, rank_expr, list_item, atomT_paren, powerT, termT, binexprT,
     else_block_stmt, control_item, final_else, ifvar, expr_any_func
<1>3. Gains(expr_if_else, 1) /\ Gains(expr, 1) /\ Gains(atomT, 1)
  <2>1. \A A : A \subseteq Gainers => Gains(One(A), 1)
    BY GainsOne
  <2>2. /\ {"if_one_liner", "if_multiple_lines"} \subseteq Gainers
        /\ {"expr_if_else", "expr_coalesce"} \subseteq Gainers
    BY DEF Gainers
  <2>. QED
    BY <1>0, <2>1, <2>2 DEF expr_if_else, expr, atomT
<1>4. 0 \in Nat /\ 1 \in Nat /\ 1 + 0 = 1 /\ 0 + 1 = 1
  OBVIOUS
<1>5. Gains(term, 1) /\ Gains(binexpr, 1) /\ Gains(atom, 1)
  <2>1. Gains(Many({"termT"}), 0) /\ Gains(Many({"binexprT"}), 0) /\ Gains(Many({"relop"}), 0)
    BY <1>1, GainsIdle
  <2>2. Gains({<<"unaryTerm">>}, 1) /\ Gains({<<"term">>}, 1) /\ Gains({<<"atomT">>}, 1)
    BY <1>0, GainsWord
  <2>3. Gains(term, 1 + 0) /\ Gains(binexpr, 1 + 0) /\ Gains(atom, 1 + 0)
    BY <1>4, <2>1, <2>2, GainsCat DEF term, binexpr, atom
  <2>. QED
    BY <1>4, <2>3
<1>6. Gains(expr_matching, 1)
  <2>1. Gains(Opt("squiggly_args"), 0) /\ Gains({<<"matching_rhs">>}, 1)
    BY <1>0, <1>1, GainsIdle, GainsWord
  <2>2. Gains(expr_matching, 0 + 1)
    BY <1>4, <2>1, GainsCat DEF expr_matching
  <2>. QED
    BY <1>4, <2>2
<1>7. Gains(unaryTerm, 1)
  <2>. DEFINE w == <<"OP", "power">>
  <2>1. Gains({<<"power">>}, 1)
    BY <1>0, GainsWord
  <2>2. "OP" \in Symbols /\ "OP" \notin Gainers /\ "power" \in Symbols /\ "power" \in Gainers
    BY <1>0, <1>1, BodySymbols DEF Symbols, Tokens, Gainers
  <2>3. Len(w) = 2 /\ w[1] = "OP" /\ w[2] = "power"
    OBVIOUS
  <2>4. Gaining(w) = {2}
    BY <2>2, <2>3 DEF Gaining
  <2>5. Gained(w) = 1
    BY <2>4, FS_Singleton DEF Gained
  <2>6. w \in Seq(Symbols)
    BY <2>2, WordIn
  <2>. QED
    BY <2>1, <2>5, <2>6 DEF unaryTerm, Gains
<1>. QED
  BY SMTT(60), <1>2, <1>3, <1>5, <1>6, <1>7 DEF Ones, Grammar

\* Each child of a chain of binary operators leaves a value.
LEMMA ChainsGain ==
  ASSUME NEW r \in Chains, NEW w \in Grammar[r]
  PROVE  Gained(w) = (IF Len(w) > 1 THEN Len(w) ELSE 1)
<1>1. PICK a \in Gainers : Grammar[r] = Chain(a)
  <2>1. /\ Grammar["expr_rel"] = Chain("binexpr")
        /\ Grammar["expr_bitand"] = Chain("expr_rel")
        /\ Grammar["expr_bitxor"] = Chain("expr_bitand")
        /\ Grammar["expr_bitor"] = Chain("expr_bitxor")
        /\ Grammar["expr_and"] = Chain("expr_bitor")
        /\ Grammar["expr_or"] = Chain("expr_and")
        /\ Grammar["expr_but_not"] = Chain("expr_or")
        /\ Grammar["expr_coalesce"] = Chain("expr_but_not")
    BY SMTT(60) DEF Grammar, expr_rel, expr_bitand, expr_bitxor, expr_bitor, expr_and, expr_or,
       expr_but_not, expr_coalesce
  <2>2. \A b \in Chains \cup {"binexpr"} : b # "expr_coalesce" => b \in Gainers
    BY DEF Chains, Gainers
  <2>. QED
    BY <2>1, <2>2, SMTT(60) DEF Chains
<1>2. PICK n \in 1..(Reps + 1) : w \in [1..n -> {a}]
  BY <1>1 DEF Chain
<1>3. n \in Nat /\ n >= 1
  BY RepsAssumption
<1>4. w \in Seq(Gainers) /\ Len(w) = n
  <2>1. w \in [1..n -> Gainers]
    BY <1>2
  <2>. QED
    BY <1>3, <2>1
<1>. QED
  BY <1>3, <1>4, GainedAll

\* The other rules of expressions whose children leave values.
LEMMA OthersGain ==
  /\ \A w \in Grammar["power"] : Gained(w) = (IF Has(w, "powerT") THEN 2 ELSE 1)
  /\ \A w \in Grammar["first_func_target"] : Gained(w) = (IF Has(w, "E_NULL") THEN 0 ELSE 1)
  /\ \A w \in Grammar["matching_rhs"] :
       Gained(w) = (IF Has(w, "atomT_paren") /\ ~Has(w, "E_Name") THEN 1 ELSE 0)
  /\ Gains(Grammar["expr_single_arg_func"], 2)
  /\ Gains(Grammar["if_one_liner"], 3)
<1>0. /\ Grammar["power"] = power /\ Grammar["first_func_target"] = first_func_target
      /\ Grammar["matching_rhs"] = matching_rhs
      /\ Grammar["expr_single_arg_func"] = expr_single_arg_func
      /\ Grammar["if_one_liner"] = if_one_liner
  BY DEF Grammar
<1>1. "atom" \in Gainers /\ "powerT" \in Gainers /\ "expr" \in Gainers /\ "atomT_paren" \in Gainers
      /\ "e_single_arg_func" \in Gainers
  BY DEF Gainers
<1>2. "E_NULL" \in Idle /\ "E_Name" \in Idle /\ "expr_table_of_op" \in Idle /\ "expr_navigate" \in Idle
      /\ "e_scope_var" \in Idle
  BY MildHas DEF Idle, Neutral
<1>3. ASSUME NEW a PROVE Len(<<a>>) = 1 /\ <<a>>[1] = a /\ \A b : Has(<<a>>, b) <=> a = b
  BY DEF Has
<1>4. ASSUME NEW w \in power PROVE Gained(w) = (IF Has(w, "powerT") THEN 2 ELSE 1)
  <2>1. PICK v \in Opt("powerT") : w = <<"atom">> \o v
    BY DEF power, **
  <2>2. Gains({<<"atom">>}, 1) /\ Gains({<<"powerT">>}, 1)
    BY <1>1, GainsWord
  <2>3. CASE v = <<>>
    <3>1. w = <<"atom">>
      BY <2>1, <2>3
    <3>. QED
      BY <1>3, <2>2, <3>1 DEF Gains
  <2>4. CASE v = <<"powerT">>
    <3>1. w = <<"atom">> \o <<"powerT">>
      BY <2>1, <2>4
    <3>2. Len(w) = 2 /\ w[2] = "powerT"
      BY <3>1
    <3>3. <<"atom">> \in Seq(Symbols) /\ <<"powerT">> \in Seq(Symbols)
          /\ Gained(<<"atom">>) = 1 /\ Gained(<<"powerT">>) = 1
      BY <2>2 DEF Gains
    <3>4. Gained(w) = Gained(<<"atom">>) + Gained(<<"powerT">>)
      BY <3>1, <3>3, GainedCat
    <3>. QED
      BY <3>2, <3>3, <3>4 DEF Has
  <2>. QED
    BY <2>3, <2>4 DEF Opt
<1>5. ASSUME NEW w \in first_func_target PROVE Gained(w) = (IF Has(w, "E_NULL") THEN 0 ELSE 1)
  <2>1. Gains({<<"expr">>}, 1) /\ Gains({<<"E_NULL">>}, 0)
    <3>1. {<<"E_NULL">>} \subseteq Seq(Idle)
      BY <1>2, WordIn
    <3>. QED
      BY <1>1, <3>1, GainsWord, GainsIdle
  <2>. QED
    BY <1>3, <2>1 DEF first_func_target, Gains
<1>6. ASSUME NEW w \in matching_rhs
      PROVE  Gained(w) = (IF Has(w, "atomT_paren") /\ ~Has(w, "E_Name") THEN 1 ELSE 0)
  <2>1. PICK a \in {"expr_table_of_op", "expr_navigate", "atomT_paren", "E_Name"} : w = <<a>>
    BY DEF matching_rhs, One
  <2>2. CASE a = "atomT_paren"
    BY <1>1, <1>3, <2>1, <2>2, GainsWord DEF Gains
  <2>3. CASE a # "atomT_paren"
    <3>1. {<<a>>} \subseteq Seq(Idle)
      BY <1>2, <2>1, <2>3, WordIn
    <3>. QED
      BY <1>3, <2>1, <2>3, <3>1, GainsIdle DEF Gains
  <2>. QED
    BY <2>2, <2>3
<1>7. Gains(expr_single_arg_func, 2)
  <2>1. Opt("e_scope_var") \subseteq Seq(Idle)
    BY <1>2, OptIn
  <2>2. Gains({<<"e_single_arg_func">>}, 1) /\ Gains(Opt("e_scope_var"), 0) /\ Gains({<<"expr">>}, 1)
    BY <1>1, <2>1, GainsWord, GainsIdle
  <2>3. 0 \in Nat /\ 1 \in Nat /\ 1 + 0 \in Nat /\ (1 + 0) + 1 = 2
    OBVIOUS
  <2>4. Gains({<<"e_single_arg_func">>} ** Opt("e_scope_var"), 1 + 0)
    BY <2>2, <2>3, GainsCat
  <2>5. Gains(expr_single_arg_func, (1 + 0) + 1)
    BY <2>2, <2>3, <2>4, GainsCat DEF expr_single_arg_func
  <2>. QED
    BY <2>3, <2>5
<1>8. Gains(if_one_liner, 3)
  <2>. DEFINE w == <<"expr", "expr", "expr">>
  <2>1. w \in Seq(Gainers) /\ Len(w) = 3
    BY <1>1
  <2>2. w \in Seq(Symbols)
    BY <1>1, BodySymbols, WordIn
  <2>3. if_one_liner = {w}
    BY DEF if_one_liner
  <2>. HIDE DEF w
  <2>4. Gained(w) = 3
    BY <2>1, GainedAll
  <2>. QED
    BY <2>2, <2>3, <2>4 DEF Gains
<1>. QED
  BY <1>0, <1>4, <1>5, <1>6, <1>7, <1>8

-----------------------------------------------------------------------------
\* What a callback does to expr_stack, by the rule it is for

\* The Enter callbacks of the rules around expressions.
LEMMA OuterEnters ==
  ASSUME NEW s \in Listener, NEW w
  PROVE  /\ Shifts(s, Enter(s, "transform_scope_var", w), 0)
         /\ Shifts(s, Enter(s, "transform_return_type", w), 0)
         /\ Enter(s, "transform", w) = EnterTransform(s)
         /\ Enter(s, "template_statement", w) = EnterTemplate_statement(s, w)
  BY TransformCallbacksShift DEF Enter

\* The Enter callbacks that push put what Put says.
LEMMA InnerEnters ==
  ASSUME NEW s \in Listener, NEW w, NEW r \in Pushers
  PROVE  Shifts(s, Enter(s, r, w), Put(r, w))
<1>1. CASE r \in {"expr_func", "expr_set", "expr_atom_list", "atomT_implied_dot", "if_multiple_lines"}
  <2>1. Put(r, w) = 1
    BY <1>1 DEF Put
  <2>2. Shifts(s, Enter(s, r, w), 1)
    BY <1>1, AtomCallbacksShift DEF Enter
  <2>. QED
    BY <2>1, <2>2
<1>2. CASE r \in {"expr_rank_func", "expr_agg_func", "expr_first_func", "expr_navigate",
                  "squiggly_args", "expr_matching"}
  <2>1. Put(r, w) = 0
    BY <1>2 DEF Put
  <2>2. Shifts(s, Enter(s, r, w), 0)
    BY <1>2, RelationalCallbacksShift DEF Enter
  <2>. QED
    BY <2>1, <2>2
<1>3. CASE r = "matching_rhs"
  <2>1. Put(r, w) = IF HasAny(w, {"E_Name", "atomT_paren"}) THEN 0 ELSE 1
    BY <1>3 DEF Put
  <2>2. Enter(s, r, w) = EnterMatching_rhs(s, w)
    BY <1>3 DEF Enter
  <2>. QED
    BY <2>1, <2>2, RelationalCallbacksShift
<1>. QED
  BY <1>1, <1>2, <1>3 DEF Pushers

\* All other Enter callbacks leave the stack alone.
LEMMA QuietEnters ==
  ASSUME NEW s \in Listener, NEW w,
         NEW r, r \notin Pushers \cup {"transform", "template_statement", "transform_scope_var",
                                       "transform_return_type"}
  PROVE  Quiet(s, Enter(s, r, w)) /\ Put(r, w) = 0
<1>1. "exprs" \in DOMAIN s
  BY DEF Listener
<1>2. Quiet(s, s)
  BY <1>1 DEF Quiet
<1>3. Put(r, w) = 0
  BY DEF Pushers, Put
<1>. QED
  BY <1>1, <1>2, <1>3, TypeCallbacksQuiet, AppCallbacksQuiet, EndpointCallbacksQuiet,
     StatementCallbacksQuiet, ViewCallbacksQuiet
  DEF Enter, Pushers

\* Whatever rule but a transform or a template is entered, it adds what Put says.
LEMMA EnterShifts ==
  ASSUME NEW s \in Listener, Live(s), NEW r \in Rules \ {"transform", "template_statement"}, NEW w,
         NEW t \in Entered(s, r, w)
  PROVE  Shifts(s, t, Put(r, w))
<1>1. CASE r \in {"name_with_attribs", "subscribe"}
  <2>1. "exprs" \in DOMAIN s
    BY DEF Listener
  <2>2. Quiet(s, t)
    BY <1>1, <2>1, AppCallbacksQuiet, EndpointCallbacksQuiet DEF Entered
  <2>3. Put(r, w) = 0
    BY <1>1 DEF Put
  <2>. QED
    BY <2>2, <2>3, QuietShifts
<1>2. CASE r \notin {"name_with_attribs", "subscribe"}
  <2>1. t = Enter(s, r, w)
    BY <1>2 DEF Entered
  <2>2. CASE r \in Pushers
    BY <2>1, <2>2, InnerEnters
  <2>3. CASE r \in {"transform_scope_var", "transform_return_type"}
    <3>1. Put(r, w) = 0
      BY <2>3 DEF Put
    <3>. QED
      BY <2>1, <2>3, <3>1, OuterEnters
  <2>4. CASE r \notin Pushers \cup {"transform_scope_var", "transform_return_type"}
    <3>1. Quiet(s, t) /\ Put(r, w) = 0
      BY <2>1, <2>4, QuietEnters
    <3>. QED
      BY <3>1, QuietShifts
  <2>. QED
    BY <2>2, <2>3, <2>4
<1>. QED
  BY <1>1, <1>2

\* The Exit callbacks of the rules outside of views leave the stack alone.
LEMMA QuietExits ==
  ASSUME NEW s \in Listener, NEW w,
         NEW r, r \notin Body \cup {"view", "transform_return_type"}
  PROVE  Quiet(s, Exit(s, r, w))
<1>1. "exprs" \in DOMAIN s
  BY DEF Listener
<1>2. Quiet(s, s)
  BY <1>1 DEF Quiet
<1>. QED
  BY <1>1, <1>2, TypeCallbacksQuiet, AppCallbacksQuiet, EndpointCallbacksQuiet,
     StatementCallbacksQuiet, ViewCallbacksQuiet
  DEF Exit, Body, Inner, Gainers, Neutral, Outer, Assigns

\* The Exit callbacks of the rules around expressions.
LEMMA OuterExits ==
  ASSUME NEW s \in Listener, NEW w
  PROVE  /\ Shifts(s, Exit(s, "transform_return_type", w), 0)
         /\ \A r \in Assigns \cup {"expr_inject_stmt", "template_statement", "transform_arg"} :
              OnTransform(s, Exit(s, r, w), -1)
         /\ \A r \in {"expr_dot_assign", "transform"} : OnTransform(s, Exit(s, r, w), 0)
         /\ Exit(s, "template_expression", w) = ExitTemplate_expression(s, w)
         /\ \A r \in {"expr_block", "expr_stmt", "expr_statement", "expr_statement_no_nl",
                      "expr_assign"} : Exit(s, r, w) = s
         /\ Exit(s, "view", w) = ExitView(s, w)
<1>1. Shifts(s, Exit(s, "transform_return_type", w), 0)
  BY TransformCallbacksShift DEF Exit
<1>2. /\ Exit(s, "expr_simple_assign", w) = ExitExpr_simple_assign(s)
      /\ Exit(s, "expr_let_statement", w) = ExitExpr_let_statement(s)
      /\ Exit(s, "expr_table_of_statement", w) = ExitExpr_table_of_statement(s)
      /\ Exit(s, "expr_inject_stmt", w) = ExitExpr_inject_stmt(s)
      /\ Exit(s, "template_statement", w) = ExitTemplate_statement(s)
      /\ Exit(s, "transform_arg", w) = ExitTransform_arg(s)
      /\ Exit(s, "expr_dot_assign", w) = ExitExpr_dot_assign(s)
      /\ Exit(s, "transform", w) = ExitTransform(s)
      /\ Exit(s, "template_expression", w) = ExitTemplate_expression(s, w)
      /\ Exit(s, "view", w) = ExitView(s, w)
  BY DEF Exit
<1>3. \A r \in {"expr_block", "expr_stmt", "expr_statement", "expr_statement_no_nl",
                "expr_assign"} : Exit(s, r, w) = s
  BY SMTT(60) DEF Exit
<1>. QED
  BY <1>1, <1>2, <1>3, TransformCallbacksShift DEF Assigns

\* reverseOp takes the operands of a chain and pushes one expression.
LEMMA ChainExits ==
  ASSUME NEW s \in Listener, NEW w, Len(w) \in Nat, NEW r \in Chains
  PROVE  Shifts(s, Exit(s, r, w), Adds(r, w))
<1>1. r \in Callbacks /\ r \in Gainers
  BY DEF Chains, Callbacks, Gainers
<1>2. Exit(s, r, w) = reverseOp(s, w, r)
  BY DEF Exit, Chains
<1>3. Put(r, w) = 0
  BY DEF Put, Chains
<1>4. Took(r, w) = (IF Len(w) > 1 THEN Len(w) ELSE 1)
  BY DEF Took, Chains, Ones
<1>5. Adds(r, w) = IF Len(w) > 1 THEN 1 - Len(w) ELSE 0
  BY <1>1, <1>3, <1>4 DEF Adds, Leaves
<1>. QED
  BY <1>1, <1>2, <1>5, reverseOpShifts

\* What the Exit callbacks of the other rules have to add.
LEMMA AddsOf ==
  ASSUME NEW w
  PROVE  /\ \A r \in {"literal", "empty_tuple", "atomT_name", "e_single_arg_func"} : Adds(r, w) = 1
         /\ \A r \in {"func_arg", "rank_expr", "list_item", "termT", "binexprT", "ifvar",
                      "control_item", "else_block_stmt", "final_else", "expr_matching",
                      "expr_any_func"} : Adds(r, w) = -1
         /\ \A r \in {"expr_single_arg_func", "if_one_liner"} : Adds(r, w) = -2
         /\ Adds("power", w) = IF Has(w, "powerT") THEN -1 ELSE 0
         /\ Adds("first_func_target", w) = IF Has(w, "E_NULL") THEN 0 ELSE -1
         /\ Adds("matching_rhs", w) = IF Has(w, "E_Name") THEN 1 ELSE 0
         /\ \A r \in {"expr_func", "expr_set", "expr_atom_list", "atomT_implied_dot",
                      "if_multiple_lines", "atomT_paren", "atomT", "atom", "powerT", "unaryTerm",
                      "term", "binexpr", "expr_if_else", "expr"} : Adds(r, w) = 0
         /\ \A r \in {"expr_table_of_op", "func_args", "rank_expr_list", "expr_rank_func",
                      "expr_agg_func", "e_scope_var", "expr_first_func", "expr_single_or_null",
                      "expr_snapshot", "expr_count", "expr_navigate_attr", "expr_navigate",
                      "squiggly_args", "relop", "expr_list", "atom_dot_relop", "if_controls",
                      "cond_block"} : Adds(r, w) = 0
<1>1. \A r \in {"literal", "empty_tuple", "atomT_name", "e_single_arg_func"} :
        Leaves(r) = 1 /\ Put(r, w) = 0 /\ Took(r, w) = 0
  BY DEF Leaves, Gainers, Put, Took, Chains, Ones
<1>2. \A r \in {"func_arg", "rank_expr", "list_item", "termT", "binexprT", "ifvar", "control_item",
                "else_block_stmt", "final_else", "expr_matching", "expr_any_func"} :
        Leaves(r) = 0 /\ Put(r, w) = 0 /\ Took(r, w) = 1
  BY DEF Leaves, Gainers, Put, Took, Chains, Ones
<1>3. /\ Leaves("expr_single_arg_func") = 0 /\ Put("expr_single_arg_func", w) = 0
      /\ Took("expr_single_arg_func", w) = 2
      /\ Leaves("if_one_liner") = 1 /\ Put("if_one_liner", w) = 0 /\ Took("if_one_liner", w) = 3
  BY DEF Leaves, Gainers, Put, Took, Chains, Ones
<1>4. /\ Leaves("power") = 1 /\ Put("power", w) = 0
      /\ Took("power", w) = IF Has(w, "powerT") THEN 2 ELSE 1
      /\ Leaves("first_func_target") = 0 /\ Put("first_func_target", w) = 0
      /\ Took("first_func_target", w) = IF Has(w, "E_NULL") THEN 0 ELSE 1
  BY DEF Leaves, Gainers, Put, Took, Chains, Ones
<1>5. Adds("matching_rhs", w) = IF Has(w, "E_Name") THEN 1 ELSE 0
  <2>1. /\ Leaves("matching_rhs") = 1
        /\ Put("matching_rhs", w) = IF ~HasAny(w, {"E_Name", "atomT_paren"}) THEN 1 ELSE 0
        /\ Took("matching_rhs", w) = IF Has(w, "atomT_paren") /\ ~Has(w, "E_Name") THEN 1 ELSE 0
    BY DEF Leaves, Gainers, Put, Took, Chains, Ones
  <2>2. HasAny(w, {"E_Name", "atomT_paren"}) <=> Has(w, "E_Name") \/ Has(w, "atomT_paren")
    BY DEF HasAny
  <2>. QED
    BY <2>1, <2>2 DEF Adds
<1>6. \A r \in {"expr_func", "expr_set", "expr_atom_list", "atomT_implied_dot", "if_multiple_lines"} :
        Leaves(r) = 1 /\ Put(r, w) = 1 /\ Took(r, w) = 0
  BY DEF Leaves, Gainers, Put, Took, Chains, Ones
<1>7. \A r \in {"atomT_paren", "atomT", "atom", "powerT", "unaryTerm", "term", "binexpr",
                "expr_if_else", "expr"} : Leaves(r) = 1 /\ Put(r, w) = 0 /\ Took(r, w) = 1
  BY DEF Leaves, Gainers, Put, Took, Chains, Ones
<1>8. \A r \in {"expr_table_of_op", "func_args", "rank_expr_list", "expr_rank_func",
                "expr_agg_func", "e_scope_var", "expr_first_func", "expr_single_or_null",
                "expr_snapshot", "expr_count", "expr_navigate_attr", "expr_navigate",
                "squiggly_args", "relop", "expr_list", "atom_dot_relop", "if_controls",
                "cond_block"} : Leaves(r) = 0 /\ Put(r, w) = 0 /\ Took(r, w) = 0
  BY DEF Leaves, Gainers, Put, Took, Chains, Ones
<1>. HIDE DEF Leaves, Put, Took
<1>9. \A r \in {"expr_func", "expr_set", "expr_atom_list", "atomT_implied_dot",
                "if_multiple_lines", "atomT_paren", "atomT", "atom", "powerT", "unaryTerm",
                "term", "binexpr", "expr_if_else", "expr"} : Adds(r, w) = 0
  BY <1>6, <1>7 DEF Adds
<1>. QED
  BY <1>1, <1>2, <1>3, <1>4, <1>5, <1>8, <1>9 DEF Adds

\* The Exit callback of a rule of an expression adds what makes up its one value.
LEMMA InnerExits ==
  ASSUME NEW s \in Listener, NEW w, Len(w) \in Nat, NEW r \in Inner
  PROVE  Shifts(s, Exit(s, r, w), Adds(r, w))
<1>0. Shifts(s, s, 0)
  BY SameShifts
<1>1. CASE r \in Chains
  BY <1>1, ChainExits
<1>2. CASE r \in {"literal", "empty_tuple", "atomT_name", "e_single_arg_func"}
  <2>1. Shifts(s, Exit(s, r, w), 1)
    BY <1>2, AtomCallbacksShift, RelationalCallbacksShift DEF Exit
  <2>. QED
    BY <1>2, <2>1, AddsOf
<1>3. CASE r \in {"func_arg", "rank_expr", "list_item", "termT", "binexprT", "ifvar", "control_item",
                  "else_block_stmt", "final_else", "expr_matching", "expr_any_func"}
  <2>1. Shifts(s, Exit(s, r, w), -1)
    BY <1>3, AtomCallbacksShift, RelationalCallbacksShift DEF Exit
  <2>2. Adds(r, w) = -1
    BY <1>3, AddsOf
  <2>. QED
    BY <2>1, <2>2
<1>4. CASE r \in {"expr_single_arg_func", "if_one_liner"}
  <2>1. Shifts(s, Exit(s, r, w), -2)
    BY <1>4, AtomCallbacksShift, RelationalCallbacksShift DEF Exit
  <2>2. Adds(r, w) = -2
    BY <1>4, AddsOf
  <2>. QED
    BY <2>1, <2>2
<1>5. CASE r = "power"
  <2>1. Exit(s, r, w) = ExitPower(s, w)
    BY <1>5 DEF Exit
  <2>2. Adds(r, w) = IF Has(w, "powerT") THEN -1 ELSE 0
    BY <1>5, AddsOf
  <2>. QED
    BY <2>1, <2>2, AtomCallbacksShift
<1>6. CASE r = "first_func_target"
  <2>1. Exit(s, r, w) = ExitFirst_func_target(s, w)
    BY <1>6 DEF Exit
  <2>2. Adds(r, w) = IF Has(w, "E_NULL") THEN 0 ELSE -1
    BY <1>6, AddsOf
  <2>. QED
    BY <2>1, <2>2, RelationalCallbacksShift
<1>7. CASE r = "matching_rhs"
  <2>1. Exit(s, r, w) = ExitMatching_rhs(s, w)
    BY <1>7 DEF Exit
  <2>2. Adds(r, w) = IF Has(w, "E_Name") THEN 1 ELSE 0
    BY <1>7, AddsOf
  <2>. QED
    BY <2>1, <2>2, RelationalCallbacksShift
<1>8. CASE r \in {"expr_func", "expr_set", "expr_atom_list", "atomT_implied_dot",
                  "if_multiple_lines", "atomT_paren", "atomT", "atom", "powerT", "unaryTerm",
                  "term", "binexpr", "expr_if_else", "expr"}
  <2>1. Shifts(s, Exit(s, r, w), 0)
    <3>1. CASE r = "unaryTerm"
      BY <3>1, AtomCallbacksShift DEF Exit
    <3>2. CASE r # "unaryTerm"
      BY <1>0, <1>8, <3>2 DEF Exit
    <3>. QED
      BY <3>1, <3>2
  <2>. QED
    BY <1>8, <2>1, AddsOf
<1>9. CASE r \in {"expr_table_of_op", "func_args", "rank_expr_list", "expr_rank_func",
                  "expr_agg_func", "e_scope_var", "expr_first_func", "expr_single_or_null",
                  "expr_snapshot", "expr_count", "expr_navigate_attr", "expr_navigate",
                  "squiggly_args", "relop", "expr_list", "atom_dot_relop", "if_controls",
                  "cond_block"}
  <2>1. Shifts(s, Exit(s, r, w), 0)
    BY <1>0, <1>9, AtomCallbacksShift, RelationalCallbacksShift DEF Exit
  <2>. QED
    BY <1>9, <2>1, AddsOf
<1>. QED
  BY <1>1, <1>2, <1>3, <1>4, <1>5, <1>6, <1>7, <1>8, <1>9 DEF Inner, Gainers, Neutral, Chains

\* The callbacks of the rules that have nothing to do with expressions leave the stack alone.
LEMMA MildExits ==
  ASSUME NEW s \in Listener, Live(s), NEW w, Len(w) \in Nat,
         NEW r, r \notin Body \cup {"view"}
  PROVE  Shifts(s, Exit(s, r, w), 0)
<1>1. CASE r = "transform_return_type"
  BY <1>1, OuterExits
<1>2. CASE r # "transform_return_type"
  <2>1. Quiet(s, Exit(s, r, w))
    BY <1>2, QuietExits
  <2>. QED
    BY <2>1, QuietShifts
<1>. QED
  BY <1>1, <1>2

\* So for every rule below an expression: it takes what Put and Took say and leaves Leaves.
LEMMA WithinExits ==
  ASSUME NEW s \in Listener, Live(s), NEW w, Len(w) \in Nat, NEW r \in Held
  PROVE  Shifts(s, Exit(s, r, w), Adds(r, w))
<1>1. CASE r \in Inner
  BY <1>1, InnerExits
<1>2. CASE r \in Mild
  <2>1. r \notin Body \cup {"view"}
    BY <1>2 DEF Mild, Deep, Shallow
  <2>2. Leaves(r) = 0 /\ Put(r, w) = 0 /\ Took(r, w) = 0
    BY <2>1 DEF Body, Inner, Gainers, Neutral, Outer, Leaves, Put, Took, Chains, Ones
  <2>3. Adds(r, w) = 0
    BY <2>2 DEF Adds
  <2>. QED
    BY <2>1, <2>3, MildExits
<1>3. CASE r \in {"transform_arg", "expr_inject_stmt"}
  <2>1. Leaves(r) = 0 /\ Put(r, w) = 0 /\ Took(r, w) = 1
    BY <1>3 DEF Leaves, Gainers, Put, Took, Chains, Ones
  <2>2. Adds(r, w) = -1
    BY <2>1 DEF Adds
  <2>3. OnTransform(s, Exit(s, r, w), -1)
    BY <1>3, OuterExits
  <2>. QED
    BY <2>2, <2>3 DEF OnTransform
<1>4. CASE r = "expr_dot_assign"
  <2>1. Leaves(r) = 0 /\ Put(r, w) = 0 /\ Took(r, w) = 0
    BY <1>4 DEF Leaves, Gainers, Put, Took, Chains, Ones
  <2>2. Adds(r, w) = 0
    BY <2>1 DEF Adds
  <2>3. OnTransform(s, Exit(s, r, w), 0)
    BY <1>4, OuterExits
  <2>. QED
    BY <2>2, <2>3 DEF OnTransform
<1>5. "expr" \in Inner
  BY DEF Inner, Gainers
<1>. QED
  BY <1>1, <1>2, <1>3, <1>4, <1>5 DEF Within, Held, Rims

\* The numbers of values are naturals.
LEMMA PendingType ==
  ASSUME NEW r, NEW w, Len(w) \in Nat, NEW u, Len(u) \in Nat
  PROVE  /\ Put(r, w) \in Nat /\ Took(r, w) \in Nat /\ Gained(u) \in Nat /\ Leaves(r) \in Nat
<1>1. Put(r, w) \in Nat /\ Leaves(r) \in Nat
  BY DEF Put, Leaves
<1>2. Took(r, w) \in Nat
  <2>1. (IF Len(w) > 1 THEN Len(w) ELSE 1) \in Nat
    OBVIOUS
  <2>. DEFINE k == IF Len(w) > 1 THEN Len(w) ELSE 1
  <2>. HIDE DEF k
  <2>2. k \in Nat
    BY <2>1 DEF k
  <2>3. CASE r \in Chains
    <3>1. Took(r, w) = k
      BY <2>3 DEF Took, k, Chains, Ones
    <3>. QED
      BY <2>2, <3>1
  <2>4. CASE r \notin Chains
    BY <2>4 DEF Took
  <2>. QED
    BY <2>3, <2>4
<1>3. Gained(u) \in Nat
  BY GainedType
<1>. QED
  BY <1>1, <1>2, <1>3

\* Below a rule that stands inside of an expression there are only such rules.
LEMMA WithinBelow ==
  ASSUME NEW r \in (Rules \cup {"file"}) \cap Held, NEW a, MayHave(r, a)
  PROVE  a \in Within
<1>1. r \in Rules
  BY FileIsNoRule DEF Within, Mild, Deep, Inner, Gainers, Neutral, Held, Rims
<1>2. {"expr", "expr_func"} \subseteq Inner
  BY DEF Inner, Gainers
<1>3. CASE r \in Inner \cup Mild
  BY <1>1, <1>3, MildChildren, InnerChildren DEF Within
<1>4. CASE r \in {"transform_arg", "expr_inject_stmt", "expr_dot_assign"}
  BY <1>2, <1>4, OuterChildren DEF Within
<1>. QED
  BY <1>2, <1>3, <1>4 DEF Within, Held, Rims

-----------------------------------------------------------------------------
\* The words of a view and of the rules around a transform

\* The last symbol of a word, and of two words in a row.
LEMMA EndsWithWord == \A a, S : EndsWith(<<a>>, a, S)
<1>1. SUFFICES ASSUME NEW a, NEW S PROVE EndsWith(<<a>>, a, S)
  OBVIOUS
<1>2. Len(<<a>>) = 1 /\ <<a>>[1] = a /\ <<a>> \in Seq(S \cup {a})
  OBVIOUS
<1>. QED
  BY <1>2 DEF EndsWith

LEMMA EndsWithCat ==
  ASSUME NEW S, NEW a, NEW u \in Seq(S), NEW v, EndsWith(v, a, S)
  PROVE  EndsWith(u \o v, a, S)
<1>. DEFINE w == u \o v
            B == S \cup {a}
            m == Len(u)
            n == Len(v)
<1>1. v \in Seq(B) /\ n > 0 /\ v[n] = a /\ \A k \in 1..(n - 1) : v[k] \in S
  BY DEF EndsWith
<1>2. u \in Seq(B) /\ m \in Nat /\ n \in Nat /\ \A k \in 1..m : u[k] \in S
  <2>1. S \subseteq B
    OBVIOUS
  <2>2. v \in Seq(B)
    BY <1>1
  <2>. HIDE DEF B
  <2>. QED
    BY <2>1, <2>2
<1>. HIDE DEF B
<1>3. /\ w \in Seq(B) /\ Len(w) = m + n
      /\ \A k \in 1..(m + n) : w[k] = IF k <= m THEN u[k] ELSE v[k - m]
  BY <1>1, <1>2
<1>. HIDE DEF w, m, n
<1>4. m + n > 0 /\ m + n \in 1..(m + n) /\ ~(m + n <= m) /\ (m + n) - m = n
  BY <1>1, <1>2
<1>5. w[m + n] = a
  BY <1>1, <1>3, <1>4
<1>6. ASSUME NEW k \in 1..(m + n - 1) PROVE w[k] \in S
  <2>1. CASE k <= m
    BY <1>2, <1>3, <2>1
  <2>2. CASE k > m
    <3>1. k - m \in 1..(n - 1) /\ k \in 1..(m + n) /\ ~(k <= m)
      BY <1>2, <2>2
    <3>. QED
      BY <1>1, <1>3, <3>1
  <2>. QED
    BY <1>2, <2>1, <2>2
<1>7. EndsWith(w, a, S)
  <2>1. w \in Seq(S \cup {a})
    BY <1>3 DEF B
  <2>2. Len(w) > 0 /\ w[Len(w)] = a
    BY <1>3, <1>4, <1>5
  <2>3. \A k \in 1..(Len(w) - 1) : w[k] \in S
    <3>1. Len(w) - 1 = m + n - 1
      BY <1>2, <1>3
    <3>2. \A k \in 1..(m + n - 1) : w[k] \in S
      BY <1>6
    <3>. QED
      BY Zenon, <3>1, <3>2
  <2>. QED
    BY <2>1, <2>2, <2>3 DEF EndsWith
<1>. QED
  BY <1>7 DEF w

\* A view has an expression, and then last, unless it is abstract.
LEMMA ViewWords ==
  ASSUME NEW w \in Grammar["view"]
  PROVE  /\ Len(w) \in Nat \ {0}
         /\ Has(w, "abstract_view") => ~Has(w, "expr_block")
         /\ ~Has(w, "abstract_view") => \A k \in 1..Len(w) : w[k] = "expr_block" <=> k = Len(w)
<1>1. Grammar["view"] = view
  BY DEF Grammar
<1>2. /\ "name_str" \in Heads /\ "view_params" \in Heads /\ "view_return_type" \in Heads
      /\ "attribs_or_modifiers" \in Heads
  BY DEF Heads
<1>3. {<<"name_str", "view_params">>} ** Opt("view_return_type") \subseteq Seq(Heads)
  <2>1. {<<"name_str", "view_params">>} \subseteq Seq(Heads)
    BY <1>2
  <2>. QED
    BY <1>2, <2>1, OptIn, CatIn
<1>4. PICK u \in {<<"name_str", "view_params">>} ** Opt("view_return_type"),
           v \in (Opt("attribs_or_modifiers") ** {<<"expr_block">>}) \cup {<<"abstract_view">>} :
        w = u \o v
  <2>. DEFINE X == {<<"name_str", "view_params">>} ** Opt("view_return_type")
              Y == (Opt("attribs_or_modifiers") ** {<<"expr_block">>}) \cup {<<"abstract_view">>}
  <2>1. w \in X ** Y
    BY <1>1 DEF view
  <2>. HIDE DEF X, Y
  <2>2. PICK u \in X, v \in Y : w = u \o v
    BY <2>1 DEF **
  <2>. QED
    BY <2>2 DEF X, Y
<1>5. EndsWith(v, "expr_block", Heads) \/ EndsWith(v, "abstract_view", Heads)
  <2>1. CASE v = <<"abstract_view">>
    BY <2>1, EndsWithWord
  <2>2. CASE v \in Opt("attribs_or_modifiers") ** {<<"expr_block">>}
    <3>1. PICK x \in Opt("attribs_or_modifiers") : v = x \o <<"expr_block">>
      BY SMTT(60), <2>2 DEF **
    <3>2. x \in Seq(Heads)
      BY <1>2, OptIn
    <3>. QED
      BY <3>1, <3>2, EndsWithWord, EndsWithCat
  <2>. QED
    BY <2>1, <2>2
<1>6. u \in Seq(Heads)
  BY <1>3
<1>7. EndsWith(w, "expr_block", Heads) \/ EndsWith(w, "abstract_view", Heads)
  BY <1>4, <1>5, <1>6, EndsWithCat
<1>8. \A S, a : w \in Seq(S \cup {a}) => Len(w) \in Nat
  OBVIOUS
<1>9. Len(w) \in Nat /\ Len(w) > 0
  BY <1>7, <1>8 DEF EndsWith
<1>10. CASE EndsWith(w, "expr_block", Heads)
  <2>1. w[Len(w)] = "expr_block" /\ \A k \in 1..Len(w) : k # Len(w) => w[k] \in Heads
    BY <1>9, <1>10 DEF EndsWith
  <2>2. "expr_block" \notin Heads /\ "abstract_view" \notin Heads
    BY DEF Heads
  <2>. QED
    BY <1>9, <2>1, <2>2 DEF Has
<1>11. CASE EndsWith(w, "abstract_view", Heads)
  <2>1. w[Len(w)] = "abstract_view" /\ \A k \in 1..Len(w) : k # Len(w) => w[k] \in Heads
    BY <1>9, <1>11 DEF EndsWith
  <2>2. "expr_block" \notin Heads
    BY DEF Heads
  <2>3. Len(w) \in 1..Len(w)
    BY <1>9
  <2>. QED
    BY <1>9, <2>1, <2>2, <2>3 DEF Has
<1>. QED
  BY <1>7, <1>10, <1>11

\* The rules of one child have no other words.
LEMMA SingleWords ==
  ASSUME NEW r \in Single, NEW w \in Grammar[r]
  PROVE  Len(w) = 1
<1>1. \A a : Len(<<a>>) = 1
  OBVIOUS
<1>2. /\ Grammar["expr_block"] = expr_block
      /\ Grammar["expr_let_statement"] = expr_let_statement
      /\ Grammar["expr_table_of_statement"] = expr_table_of_statement
      /\ Grammar["expr_simple_assign"] = expr_simple_assign
      /\ Grammar["expr_assign"] = expr_assign
  BY DEF Grammar
<1>3. \E a : w = <<a>>
  BY <1>2
  DEF Single, Assigns, expr_block, expr_let_statement, expr_table_of_statement,
      expr_simple_assign, expr_assign, One
<1>. QED
  BY <1>1, <1>3

-----------------------------------------------------------------------------
\* Which rules stand in which

\* Where the rules around a transform stand, and what stands in them.
LEMMA ClearParents ==
  ASSUME NEW p \in Body, NEW r \in Body, MayHave(p, r)
  PROVE  /\ r \in Clear => p \in Clear /\ r # "expr_block"
         /\ r = "transform" => p \in {"expr_assign", "expr_block"}
         /\ r = "expr_assign" => p \in Assigns
         /\ p \in Clear \ Single => r \in Settled \cup (Clear \ (Single \cup {"transform"}))
         /\ p = "expr_block" => r = "transform"
<1>1. r # "expr_block" /\ p \in Rules /\ p # "view"
  <2>1. p \in Rules
    BY BodyDeep
  <2>2. p # "view"
    BY DEF Body, Inner, Gainers, Neutral, Outer, Assigns
  <2>. QED
    BY <2>1, <2>2, BodyParents
<1>2. CASE p \in Inner
  <2>1. r \in Inner
    BY <1>2, InnerChildren DEF Within, Mild
  <2>. QED
    BY <1>2, <2>1 DEF Inner, Gainers, Neutral, Clear, Single, Assigns
<1>3. CASE p \in Outer
  <2>1. {"transform_return_type", "transform_scope_var", "TMPL_TEXT"} \cap Body = {}
    BY DEF Body, Inner, Gainers, Neutral, Outer, Assigns
  <2>. QED
    BY <1>1, <1>3, <2>1, OuterChildren DEF Outer, Clear, Single, Assigns, Settled
<1>. QED
  BY <1>2, <1>3 DEF Body

-----------------------------------------------------------------------------
\* Which callbacks leave the stack alone, and which at least its transforms

\* Looking at the top of the stack changes nothing.
LEMMA TopExprQuiet ==
  ASSUME NEW s, NEW t, Quiet(s, t), NEW kinds, NEW c
  PROVE  Quiet(s, TopExpr(t, kinds, c))
  BY HelpersQuiet DEF TopExpr

\* The callbacks of the parts of a transform that only look at it.
LEMMA ScopeVarQuiet ==
  ASSUME NEW s \in Listener, NEW w
  PROVE  /\ Quiet(s, EnterTransform_scope_var(s))
         /\ Quiet(s, EnterTransform_return_type(s, w)) /\ Quiet(s, ExitTransform_return_type(s, w))
<1>1. Quiet(s, s)
  BY DEF Quiet, Listener
<1>2. \A c : Quiet(s, AddField(s, c)) /\ Quiet(s, SomeField(s, c))
  BY <1>1, HelpersQuiet
<1>. QED
  BY <1>1, <1>2, TopExprQuiet
  DEF EnterTransform_scope_var, EnterTransform_return_type, ExitTransform_return_type

\* The Enter callbacks that leave the stack as it is.
LEMMA StillEnters ==
  ASSUME NEW s \in Listener, NEW w, NEW r \in Rules \ (Pushers \cup {"transform", "template_statement"}),
         NEW t \in Entered(s, r, w)
  PROVE  t.exprs = s.exprs
<1>0. "exprs" \in DOMAIN s
  BY DEF Listener
<1>1. CASE r \in {"name_with_attribs", "subscribe"}
  BY <1>0, <1>1, AppCallbacksQuiet, EndpointCallbacksQuiet DEF Entered, Quiet
<1>2. CASE r \in {"transform_scope_var", "transform_return_type"}
  <2>1. t = IF r = "transform_scope_var" THEN EnterTransform_scope_var(s)
            ELSE EnterTransform_return_type(s, w)
    BY <1>2 DEF Entered, Enter
  <2>. QED
    BY <2>1, ScopeVarQuiet DEF Quiet
<1>3. CASE r \notin {"name_with_attribs", "subscribe", "transform_scope_var", "transform_return_type"}
  <2>1. t = Enter(s, r, w)
    BY <1>3 DEF Entered
  <2>. QED
    BY <1>3, <2>1, QuietEnters DEF Quiet
<1>. QED
  BY <1>1, <1>2, <1>3

\* The Exit callbacks that leave the stack as it is.
LEMMA StillExits ==
  ASSUME NEW s \in Listener, NEW w,
         NEW r, r \notin (Body \cup {"view"}) \/
                r \in {"expr_block", "expr_stmt", "expr_statement", "expr_statement_no_nl", "expr_assign"}
  PROVE  Exit(s, r, w).exprs = s.exprs
<1>1. CASE r = "transform_return_type"
  <2>1. Exit(s, r, w) = ExitTransform_return_type(s, w)
    BY <1>1 DEF Exit
  <2>. QED
    BY <2>1, ScopeVarQuiet DEF Quiet
<1>2. CASE r \in {"expr_block", "expr_stmt", "expr_statement", "expr_statement_no_nl", "expr_assign"}
  BY <1>2, OuterExits
<1>3. CASE r \notin Body \cup {"view", "transform_return_type"}
  BY <1>3, QuietExits DEF Quiet
<1>. QED
  BY <1>1, <1>2, <1>3

\* No callback brings a transform but that of a transform, nor moves one.
LEMMA EnterSettles ==
  ASSUME NEW s \in Listener, Live(s), NEW w, NEW r \in Rules \ {"transform"},
         NEW t \in Entered(s, r, w), Live(t)
  PROVE  Settles(s, t)
<1>1. CASE r = "template_statement"
  <2>1. t = EnterTemplate_statement(s, w)
    BY <1>1, OuterEnters DEF Entered
  <2>. QED
    BY <2>1, TransformCallbacksShift
<1>2. CASE r # "template_statement"
  BY <1>2, EnterShifts DEF Shifts
<1>. QED
  BY <1>1, <1>2

\* No Exit callback brings a transform, nor moves one.
LEMMA ExitSettles ==
  ASSUME NEW s \in Listener, Live(s), NEW w, Len(w) \in Nat, NEW r, r # "view",
         Live(Exit(s, r, w))
  PROVE  Settles(s, Exit(s, r, w))
<1>1. CASE r \in Inner
  BY <1>1, InnerExits DEF Shifts
<1>2. CASE r \notin Body
  BY <1>2, MildExits DEF Shifts
<1>3. CASE r = "template_expression"
  BY <1>3, OuterExits, TransformCallbacksShift
<1>4. CASE r \in {"expr_block", "expr_stmt", "expr_statement", "expr_statement_no_nl", "expr_assign"}
  <2>1. Exit(s, r, w) = s
    BY <1>4, OuterExits
  <2>2. Shifts(s, s, 0)
    BY SameShifts
  <2>. QED
    BY <2>1, <2>2 DEF Shifts
<1>5. CASE r \in Settled
  <2>1. \E n : OnTransform(s, Exit(s, r, w), n)
    BY <1>5, OuterExits DEF Settled
  <2>. QED
    BY <2>1 DEF OnTransform, Shifts
<1>. QED
  BY <1>1, <1>2, <1>3, <1>4, <1>5 DEF Body, Outer, Assigns, Settled

\* A callback that finds a transform on top leaves only transforms.
LEMMA SettledExits ==
  ASSUME NEW s \in Listener, NEW w, NEW r \in Settled, NEW t \in Listener, t = Exit(s, r, w), Live(t),
         NEW k, Stacked(s.exprs, k)
  PROVE  /\ t.exprs # <<>> /\ AllTransforms(t.exprs) /\ Len(t.exprs) <= k /\ Len(t.exprs) \in Nat
         /\ r \in Assigns => Len(t.exprs) = Len(s.exprs) - 1
<1>. DEFINE e == t.exprs
<1>1. \E n : OnTransform(s, t, n)
  BY OuterExits DEF Settled
<1>2. r \in Assigns => OnTransform(s, t, -1)
  BY OuterExits
<1>3. TopIs(t, {"transform"}) /\ Settles(s, t)
  BY <1>1 DEF OnTransform, Shifts
<1>4. PICK m \in 0..k : Stacked(e, m)
  BY <1>3 DEF Settles
<1>5. e # <<>> /\ e[Len(e)] = "transform"
  BY <1>3 DEF TopIs, Top
<1>6. e \in Seq(AnyExpr) /\ s.exprs \in Seq(AnyExpr)
  BY ListenerTypes
<1>7. Len(e) \in Nat \ {0} /\ Len(s.exprs) \in Nat
  BY <1>5, <1>6
<1>8. k \in 0..Len(s.exprs)
  BY DEF Stacked
<1>. HIDE DEF e
<1>9. m = Len(e)
  BY <1>4, <1>5, <1>7 DEF Stacked
<1>10. r \in Assigns => Len(e) = Len(s.exprs) - 1
  BY <1>2, <1>7 DEF OnTransform, Shifts, e
<1>. QED
  BY <1>4, <1>5, <1>7, <1>8, <1>9, <1>10 DEF AllTransforms, e

\* Only transforms, and k of them: k is how many there are.
LEMMA AllOfThem ==
  ASSUME NEW e, Len(e) \in Nat, NEW k, Stacked(e, k), AllTransforms(e)
  PROVE  k = Len(e)
<1>1. k \in 0..Len(e) /\ \A i \in 1..Len(e) : e[i] = "transform" <=> i <= k
  BY DEF Stacked
<1>2. \A i \in 1..Len(e) : e[i] = "transform"
  BY DEF AllTransforms, Stacked
<1>3. CASE Len(e) = 0
  BY <1>1, <1>3
<1>4. CASE Len(e) > 0
  <2>1. Len(e) \in 1..Len(e)
    BY <1>4
  <2>. QED
    BY <1>1, <1>2, <2>1
<1>. QED
  BY <1>3, <1>4

-----------------------------------------------------------------------------
\* Which parts of the state a callback may touch

LEMMA TouchesOn ==
  ASSUME NEW s, NEW t, NEW u, NEW X, Touches(s, t, X), Touches(t, u, X)
  PROVE  Touches(s, u, X)
  BY DEF Touches

LEMMA TouchesMore ==
  ASSUME NEW s, NEW t, NEW X, NEW Y, Touches(s, t, X), X \subseteq Y
  PROVE  Touches(s, t, Y)
  BY DEF Touches

LEMMA TouchesNothing == \A s, X : Touches(s, s, X)
  BY DEF Touches

\* What the helpers touch, whatever state they are given.
LEMMA HelpersTouch ==
  ASSUME NEW s, NEW t, NEW X, Touches(s, t, X)
  PROVE  /\ "panic" \in X => \A c : Touches(s, Panic(t, c), X)
         /\ "scope" \in X => \A k, a, r : Touches(s, pushScope(t, k, a, r), X)
         /\ "exprs" \in X => \A k : Touches(s, PushExpr(t, k), X)
         /\ {"panic", "scope"} \subseteq X =>
              Touches(s, popScope(t), X) /\ \A x : Touches(s, addToCurrentScope(t, x), X)
         /\ "panic" \in X =>
              /\ Touches(s, peekAttrs(t), X)
              /\ \A x, c : Touches(s, lastStatement(t, x, c), X)
              /\ \A c : Touches(s, CurrentType(t, c), X) /\ Touches(s, SomeField(t, c), X)
              /\ \A x : Touches(s, MakeConstraint(t, x), X) /\ Touches(s, applyAnnotations(t, x), X)
              /\ \A k, c : Touches(s, TopExpr(t, k, c), X)
         /\ {"panic", "field"} \subseteq X => \A c : Touches(s, AddField(t, c), X)
         /\ {"panic", "exprs"} \subseteq X =>
              /\ \A n, c : Touches(s, popExprs(t, n, c), X)
              /\ \A n, k, c : Touches(s, Combine(t, n, k, c), X)
              /\ \A k, c : Touches(s, PutInto(t, k, c), X)
<1>1. ASSUME "panic" \in X, NEW u, Touches(s, u, X), NEW c PROVE Touches(s, Panic(u, c), X)
  BY <1>1 DEF Touches, Panic
<1>2. ASSUME "scope" \in X, NEW k, NEW a, NEW r PROVE Touches(s, pushScope(t, k, a, r), X)
  BY <1>2 DEF Touches, pushScope
<1>3. ASSUME "exprs" \in X, NEW u, Touches(s, u, X), NEW k PROVE Touches(s, PushExpr(u, k), X)
  BY <1>3 DEF Touches, PushExpr
<1>4. ASSUME {"panic", "scope"} \subseteq X
      PROVE  Touches(s, popScope(t), X) /\ \A x : Touches(s, addToCurrentScope(t, x), X)
  <2>1. Touches(s, popScope(t), X)
    BY <1>1, <1>4 DEF Touches, popScope
  <2>2. ASSUME NEW x PROVE Touches(s, addToCurrentScope(t, x), X)
    BY <1>1, <1>4 DEF Touches, addToCurrentScope
  <2>. QED
    BY <2>1, <2>2
<1>5. ASSUME "panic" \in X
      PROVE  /\ Touches(s, peekAttrs(t), X)
             /\ \A x, c : Touches(s, lastStatement(t, x, c), X)
             /\ \A c : Touches(s, CurrentType(t, c), X) /\ Touches(s, SomeField(t, c), X)
             /\ \A x : Touches(s, MakeConstraint(t, x), X) /\ Touches(s, applyAnnotations(t, x), X)
  BY <1>1, <1>5 DEF peekAttrs, lastStatement, CurrentType, SomeField, MakeConstraint, applyAnnotations
<1>6. ASSUME "panic" \in X, NEW u, Touches(s, u, X), NEW k, NEW c PROVE Touches(s, TopExpr(u, k, c), X)
  BY <1>1, <1>6 DEF TopExpr
<1>7. ASSUME {"panic", "field"} \subseteq X, NEW c PROVE Touches(s, AddField(t, c), X)
  BY <1>1, <1>7 DEF Touches, AddField
<1>8. ASSUME {"panic", "exprs"} \subseteq X, NEW n, NEW c PROVE Touches(s, popExprs(t, n, c), X)
  BY <1>1, <1>8 DEF Touches, popExprs
<1>9. ASSUME {"panic", "exprs"} \subseteq X, NEW n, NEW k, NEW c
      PROVE  Touches(s, Combine(t, n, k, c), X) /\ Touches(s, PutInto(t, k, c), X)
  BY <1>3, <1>6, <1>8, <1>9 DEF Combine, PutInto
<1>. QED
  BY <1>1, <1>2, <1>3, <1>4, <1>5, <1>6, <1>7, <1>8, <1>9

\* The callbacks of expressions and of the statements of a transform.
LEMMA RelationalCallbacksTouch ==
  ASSUME NEW s, NEW w
  PROVE  LET X == {"exprs", "panic"}
         IN  /\ Touches(s, ExitFunc_arg(s), X) /\ Touches(s, ExitRank_expr(s), X)
             /\ Touches(s, EnterExpr_agg_func(s), X) /\ Touches(s, ExitExpr_agg_func(s), X)
             /\ Touches(s, ExitE_scope_var(s), X) /\ Touches(s, ExitFirst_func_target(s, w), X)
             /\ Touches(s, EnterExpr_first_func(s), X) /\ Touches(s, ExitExpr_first_func(s), X)
             /\ Touches(s, ExitE_single_arg_func(s), X) /\ Touches(s, ExitExpr_single_arg_func(s), X)
             /\ Touches(s, ExitExpr_any_func(s), X) /\ Touches(s, ExitExpr_single_or_null(s), X)
             /\ Touches(s, ExitExpr_snapshot(s), X) /\ Touches(s, ExitExpr_count(s), X)
             /\ Touches(s, ExitExpr_table_of_op(s), X) /\ Touches(s, EnterExpr_navigate(s), X)
             /\ Touches(s, ExitExpr_navigate_attr(s), X) /\ Touches(s, EnterMatching_rhs(s, w), X)
             /\ Touches(s, ExitMatching_rhs(s, w), X) /\ Touches(s, EnterSquiggly_args(s), X)
             /\ Touches(s, EnterExpr_matching(s), X) /\ Touches(s, ExitExpr_matching(s), X)
             /\ Touches(s, ExitExpr_rank_func(s), X)
             /\ Touches(s, EnterExpr_rank_func(s), {"exprs", "field", "panic"})
<1>. DEFINE X == {"exprs", "panic"}
<1>0. ASSUME NEW t, Touches(s, t, X)
      PROVE  /\ \A k : Touches(s, PushExpr(t, k), X)
             /\ \A k, c : Touches(s, TopExpr(t, k, c), X) /\ Touches(s, PutInto(t, k, c), X)
             /\ \A n, c : Touches(s, popExprs(t, n, c), X)
             /\ \A n, k, c : Touches(s, Combine(t, n, k, c), X)
             /\ \A c : Touches(s, SomeField(t, c), X)
  BY <1>0, HelpersTouch
<1>1. Touches(s, s, X)
  BY TouchesNothing
<1>. HIDE DEF X
<1>2. /\ Touches(s, ExitFunc_arg(s), X) /\ Touches(s, ExitRank_expr(s), X)
      /\ Touches(s, EnterExpr_agg_func(s), X) /\ Touches(s, ExitExpr_agg_func(s), X)
      /\ Touches(s, ExitE_scope_var(s), X) /\ Touches(s, ExitFirst_func_target(s, w), X)
      /\ Touches(s, EnterExpr_first_func(s), X) /\ Touches(s, ExitExpr_first_func(s), X)
  BY <1>0, <1>1 DEF ExitFunc_arg, ExitRank_expr, EnterExpr_agg_func, ExitExpr_agg_func, ExitE_scope_var,
     ExitFirst_func_target, EnterExpr_first_func, ExitExpr_first_func
<1>3. /\ Touches(s, ExitE_single_arg_func(s), X) /\ Touches(s, ExitExpr_single_arg_func(s), X)
      /\ Touches(s, ExitExpr_any_func(s), X) /\ Touches(s, ExitExpr_single_or_null(s), X)
      /\ Touches(s, ExitExpr_snapshot(s), X) /\ Touches(s, ExitExpr_count(s), X)
      /\ Touches(s, ExitExpr_table_of_op(s), X) /\ Touches(s, EnterExpr_navigate(s), X)
  BY <1>0, <1>1 DEF ExitE_single_arg_func, ExitExpr_single_arg_func, ExitExpr_any_func,
     ExitExpr_single_or_null, ExitExpr_snapshot, ExitExpr_count, ExitExpr_table_of_op, EnterExpr_navigate
<1>4. /\ Touches(s, ExitExpr_navigate_attr(s), X) /\ Touches(s, EnterMatching_rhs(s, w), X)
      /\ Touches(s, ExitMatching_rhs(s, w), X) /\ Touches(s, EnterSquiggly_args(s), X)
      /\ Touches(s, EnterExpr_matching(s), X) /\ Touches(s, ExitExpr_matching(s), X)
      /\ Touches(s, ExitExpr_rank_func(s), X)
  BY <1>0, <1>1 DEF ExitExpr_navigate_attr, EnterMatching_rhs, ExitMatching_rhs, EnterSquiggly_args,
     EnterExpr_matching, ExitExpr_matching, ExitExpr_rank_func
<1>5. Touches(s, EnterExpr_rank_func(s), {"exprs", "field", "panic"})
  BY <1>0, <1>1, HelpersTouch, TouchesMore DEF EnterExpr_rank_func, X
<1>. QED
  BY <1>2, <1>3, <1>4, <1>5 DEF X

\* The callbacks of atoms, operators and conditionals.
LEMMA AtomCallbacksTouch ==
  ASSUME NEW s, NEW w
  PROVE  LET X == {"exprs", "panic"}
         IN  /\ Touches(s, ExitLiteral(s), X) /\ Touches(s, EnterExpr_func(s), X)
             /\ Touches(s, EnterExpr_set(s), X) /\ Touches(s, EnterExpr_atom_list(s), X)
             /\ Touches(s, ExitList_item(s), X) /\ Touches(s, ExitExpr_list(s), X)
             /\ Touches(s, ExitEmpty_tuple(s), X) /\ Touches(s, EnterAtomT_implied_dot(s), X)
             /\ Touches(s, ExitAtomT_name(s), X) /\ Touches(s, ExitPower(s, w), X)
             /\ Touches(s, ExitUnaryTerm(s, w), X) /\ Touches(s, ExitTermT(s), X)
             /\ Touches(s, ExitBinexprT(s), X) /\ Touches(s, ExitIf_one_liner(s), X)
             /\ Touches(s, EnterIf_multiple_lines(s, w), X) /\ Touches(s, ExitIfvar(s), X)
             /\ Touches(s, ExitControl_item(s), X) /\ Touches(s, ExitElse_block_stmt(s), X)
             /\ Touches(s, ExitFinal_else(s), X)
<1>. DEFINE X == {"exprs", "panic"}
<1>0. ASSUME NEW t, Touches(s, t, X)
      PROVE  /\ \A k : Touches(s, PushExpr(t, k), X)
             /\ \A k, c : Touches(s, TopExpr(t, k, c), X) /\ Touches(s, PutInto(t, k, c), X)
             /\ \A n, c : Touches(s, popExprs(t, n, c), X)
             /\ \A n, k, c : Touches(s, Combine(t, n, k, c), X)
  BY <1>0, HelpersTouch
<1>1. Touches(s, s, X)
  BY TouchesNothing
<1>. HIDE DEF X
<1>2. /\ Touches(s, ExitLiteral(s), X) /\ Touches(s, EnterExpr_func(s), X)
      /\ Touches(s, EnterExpr_set(s), X) /\ Touches(s, EnterExpr_atom_list(s), X)
      /\ Touches(s, ExitList_item(s), X) /\ Touches(s, ExitExpr_list(s), X)
      /\ Touches(s, ExitEmpty_tuple(s), X) /\ Touches(s, EnterAtomT_implied_dot(s), X)
  BY <1>0, <1>1 DEF ExitLiteral, EnterExpr_func, EnterExpr_set, EnterExpr_atom_list, ExitList_item, ExitExpr_list,
     ExitEmpty_tuple, EnterAtomT_implied_dot
<1>3. /\ Touches(s, ExitAtomT_name(s), X) /\ Touches(s, ExitPower(s, w), X)
      /\ Touches(s, ExitUnaryTerm(s, w), X) /\ Touches(s, ExitTermT(s), X)
      /\ Touches(s, ExitBinexprT(s), X) /\ Touches(s, ExitIf_one_liner(s), X)
      /\ Touches(s, EnterIf_multiple_lines(s, w), X) /\ Touches(s, ExitIfvar(s), X)
  BY <1>0, <1>1 DEF ExitAtomT_name, ExitPower, ExitUnaryTerm, ExitTermT, ExitBinexprT, ExitIf_one_liner,
     EnterIf_multiple_lines, ExitIfvar
<1>4. /\ Touches(s, ExitControl_item(s), X) /\ Touches(s, ExitElse_block_stmt(s), X)
      /\ Touches(s, ExitFinal_else(s), X)
  BY <1>0, <1>1 DEF ExitControl_item, ExitElse_block_stmt, ExitFinal_else
<1>. QED
  BY <1>2, <1>3, <1>4 DEF X

\* The callbacks of a transform.
LEMMA TransformCallbacksTouch ==
  ASSUME NEW s, NEW w
  PROVE  LET X == {"exprs", "panic"}
         IN  /\ Touches(s, ExitExpr_simple_assign(s), X)
             /\ Touches(s, ExitExpr_let_statement(s), X)
             /\ Touches(s, ExitExpr_table_of_statement(s), X)
             /\ Touches(s, ExitExpr_dot_assign(s), X) /\ Touches(s, ExitExpr_inject_stmt(s), X)
             /\ Touches(s, ExitTemplate_expression(s, w), X)
             /\ Touches(s, EnterTemplate_statement(s, w), X)
             /\ Touches(s, ExitTemplate_statement(s), X) /\ Touches(s, EnterTransform(s), X)
             /\ Touches(s, ExitTransform_arg(s), X) /\ Touches(s, EnterTransform_scope_var(s), X)
             /\ Touches(s, ExitTransform_return_type(s, w), X) /\ Touches(s, ExitTransform(s), X)
<1>. DEFINE X == {"exprs", "panic"}
<1>0. ASSUME NEW t, Touches(s, t, X)
      PROVE  /\ \A k : Touches(s, PushExpr(t, k), X)
             /\ \A k, c : Touches(s, TopExpr(t, k, c), X) /\ Touches(s, PutInto(t, k, c), X)
             /\ \A n, c : Touches(s, popExprs(t, n, c), X)
             /\ \A n, k, c : Touches(s, Combine(t, n, k, c), X)
             /\ \A c : Touches(s, SomeField(t, c), X)
  BY <1>0, HelpersTouch
<1>1. Touches(s, s, X)
  BY TouchesNothing
<1>. HIDE DEF X
<1>2. /\ Touches(s, ExitExpr_simple_assign(s), X) /\ Touches(s, ExitExpr_let_statement(s), X)
      /\ Touches(s, ExitExpr_table_of_statement(s), X) /\ Touches(s, ExitExpr_dot_assign(s), X)
      /\ Touches(s, ExitExpr_inject_stmt(s), X) /\ Touches(s, ExitTemplate_expression(s, w), X)
      /\ Touches(s, EnterTemplate_statement(s, w), X) /\ Touches(s, ExitTemplate_statement(s), X)
  BY <1>0, <1>1 DEF ExitExpr_simple_assign, ExitExpr_let_statement, ExitExpr_table_of_statement, ExitExpr_dot_assign,
     ExitExpr_inject_stmt, ExitTemplate_expression, EnterTemplate_statement,
     ExitTemplate_statement
<1>3. /\ Touches(s, EnterTransform(s), X) /\ Touches(s, ExitTransform_arg(s), X)
      /\ Touches(s, EnterTransform_scope_var(s), X)
      /\ Touches(s, ExitTransform_return_type(s, w), X) /\ Touches(s, ExitTransform(s), X)
  BY <1>0, <1>1 DEF EnterTransform, ExitTransform_arg, EnterTransform_scope_var, ExitTransform_return_type,
     ExitTransform
<1>. QED
  BY <1>2, <1>3 DEF X

\* The callbacks that look up a field.
LEMMA LookupCallbacksTouch ==
  ASSUME NEW s, NEW w
  PROVE  LET X == {"panic"}
         IN  /\ Touches(s, EnterReference(s), X) /\ Touches(s, ExitReference(s), X)
             /\ Touches(s, EnterUser_defined_type(s), X) /\ Touches(s, ExitView_param(s), X)
             /\ Touches(s, ExitView_type_spec(s), X)
             /\ Touches(s, ExitHttp_path_var_with_type(s, w), X)
<1>. DEFINE X == {"panic"}
<1>0. ASSUME NEW t, Touches(s, t, X)
      PROVE  /\ \A c : Touches(s, CurrentType(t, c), X) /\ Touches(s, SomeField(t, c), X)
  BY <1>0, HelpersTouch
<1>1. Touches(s, s, X)
  BY TouchesNothing
<1>. HIDE DEF X
<1>2. /\ Touches(s, EnterReference(s), X) /\ Touches(s, ExitReference(s), X)
      /\ Touches(s, EnterUser_defined_type(s), X) /\ Touches(s, ExitView_param(s), X)
      /\ Touches(s, ExitView_type_spec(s), X) /\ Touches(s, ExitHttp_path_var_with_type(s, w), X)
  BY <1>0, <1>1 DEF EnterReference, ExitReference, EnterUser_defined_type, ExitView_param, ExitView_type_spec,
     ExitHttp_path_var_with_type
<1>. QED
  BY <1>2 DEF X

\* The callbacks that add a field.
LEMMA FieldCallbacksTouch ==
  ASSUME NEW s, NEW w
  PROVE  LET X == {"field", "panic"}
         IN  /\ Touches(s, EnterField(s), X) /\ Touches(s, EnterView_param(s), X)
             /\ Touches(s, EnterParam(s, w), X) /\ Touches(s, EnterTransform_return_type(s, w), X)
<1>. DEFINE X == {"field", "panic"}
<1>0. ASSUME NEW t, Touches(s, t, X)
      PROVE  /\ \A c : Touches(s, AddField(t, c), X)
  BY <1>0, HelpersTouch
<1>1. Touches(s, s, X)
  BY TouchesNothing
<1>. HIDE DEF X
<1>2. /\ Touches(s, EnterField(s), X) /\ Touches(s, EnterView_param(s), X)
      /\ Touches(s, EnterParam(s, w), X) /\ Touches(s, EnterTransform_return_type(s, w), X)
  BY <1>0, <1>1 DEF EnterField, EnterView_param, EnterParam, EnterTransform_return_type
<1>. QED
  BY <1>2 DEF X

\* The callbacks of statements, annotations and collectors.
LEMMA StatementCallbacksTouch ==
  ASSUME NEW s, NEW w
  PROVE  LET X == {"scope", "panic"}
         IN  /\ Touches(s, EnterRet_stmt(s), X) /\ Touches(s, EnterCall_stmt(s), X)
             /\ Touches(s, ExitTarget(s), X) /\ Touches(s, ExitSubscriber(s), X)
             /\ Touches(s, EnterCall_arg(s), X) /\ Touches(s, EnterCollector_call_stmt(s), X)
             /\ Touches(s, EnterCollector_pubsub_call(s), X)
             /\ Touches(s, EnterCollector_http_stmt(s), X)
             /\ Touches(s, EnterCollector_action_stmt(s), X) /\ Touches(s, ExitBlock(s), X)
             /\ Touches(s, EnterOne_of_cases(s), X) /\ Touches(s, ExitStatements(s, w), X)
             /\ Touches(s, EnterAnnotation(s), X) /\ Touches(s, EnterAnnotation_value(s), X)
             /\ Touches(s, EnterCollector(s, w), X) /\ Touches(s, ExitCollector(s, w), X)
             /\ Touches(s, ExitApp_decl(s, w), X)
<1>. DEFINE X == {"scope", "panic"}
<1>0. ASSUME NEW t, Touches(s, t, X)
      PROVE  /\ \A x : Touches(s, addToCurrentScope(t, x), X)
             /\ \A x, c : Touches(s, lastStatement(t, x, c), X)
             /\ \A k, a, r : Touches(s, pushScope(t, k, a, r), X)
             /\ Touches(s, peekAttrs(t), X) /\ Touches(s, popScope(t), X)
             /\ \A c : Touches(s, Panic(t, c), X)
  BY <1>0, HelpersTouch
<1>1. Touches(s, s, X)
  BY TouchesNothing
<1>. HIDE DEF X
<1>2. /\ Touches(s, EnterRet_stmt(s), X) /\ Touches(s, EnterCall_stmt(s), X)
      /\ Touches(s, ExitTarget(s), X) /\ Touches(s, ExitSubscriber(s), X)
      /\ Touches(s, EnterCall_arg(s), X) /\ Touches(s, EnterCollector_call_stmt(s), X)
      /\ Touches(s, EnterCollector_pubsub_call(s), X)
      /\ Touches(s, EnterCollector_http_stmt(s), X)
  BY <1>0, <1>1 DEF EnterRet_stmt, EnterCall_stmt, ExitTarget, ExitSubscriber, EnterCall_arg,
     EnterCollector_call_stmt, EnterCollector_pubsub_call, EnterCollector_http_stmt
<1>3. /\ Touches(s, EnterCollector_action_stmt(s), X) /\ Touches(s, ExitBlock(s), X)
      /\ Touches(s, EnterOne_of_cases(s), X) /\ Touches(s, ExitStatements(s, w), X)
      /\ Touches(s, EnterAnnotation(s), X) /\ Touches(s, EnterAnnotation_value(s), X)
      /\ Touches(s, EnterCollector(s, w), X) /\ Touches(s, ExitCollector(s, w), X)
  BY <1>0, <1>1 DEF EnterCollector_action_stmt, ExitBlock, EnterOne_of_cases, ExitStatements, EnterAnnotation,
     EnterAnnotation_value, EnterCollector, ExitCollector
<1>4. /\ Touches(s, ExitApp_decl(s, w), X)
  BY <1>0, <1>1 DEF ExitApp_decl
<1>. QED
  BY <1>2, <1>3, <1>4 DEF X

\* Parts that are set directly.
LEMMA SettingTouches ==
  ASSUME NEW s, NEW t, NEW X, Touches(s, t, X)
  PROVE  /\ "field" \in X => /\ \A f : Touches(s, [t EXCEPT !.field = f], X)
                             /\ \A f : Touches(s, [t EXCEPT !.field.prim = f], X)
                             /\ \A f : Touches(s, [t EXCEPT !.field.attrs = f], X)
         /\ {"field", "typemap"} \subseteq X => Touches(s, FreshTypemap(t), X)
         /\ {"types", "typemap"} \subseteq X => \A k : Touches(s, PushType(t, k), X)
         /\ {"types", "typemap", "field"} \subseteq X => Touches(s, PopType(t), X)
         /\ "types" \in X => Touches(s, EmptyType(t), X)
         /\ "scope" \in X => Touches(s, TypeAttrs(t), X)
         /\ "endpoint" \in X => \A e : Touches(s, [t EXCEPT !.endpoint = e], X)
         /\ "pendingDocString" \in X => \A b : Touches(s, [t EXCEPT !.pendingDocString = b], X)
         /\ "returns" \in X => \A b : Touches(s, [t EXCEPT !.returns = b], X)
         /\ "nativeSet" \in X => \A b : Touches(s, [t EXCEPT !.nativeSet = b], X)
         /\ "types" \in X => \A y : Touches(s, [t EXCEPT !.types = y], X)
         /\ "types" \in X => \A i, b : Touches(s, [t EXCEPT !.types[i].noted = b], X)
         /\ "apps" \in X => \A y : Touches(s, [t EXCEPT !.apps = y], X)
         /\ "apps" \in X => \A i, y : Touches(s, [t EXCEPT !.apps[i].wrapped = y], X)
         /\ "rest_urlparams" \in X => \A y : Touches(s, [t EXCEPT !.rest_urlparams = y], X)
  BY DEF Touches, FreshTypemap, PushType, PopType, EmptyType, TypeAttrs

\* The callbacks that declare types.
LEMMA TypeCallbacksTouch ==
  ASSUME NEW s, NEW w
  PROVE  /\ Touches(s, EnterTypes(s, w), {"field", "panic"})
         /\ Touches(s, ExitField(s, w), {"field", "panic"})
         /\ Touches(s, exitSetOrSequence_type(s, w), {"scope", "field", "panic"})
         /\ Touches(s, EnterField_type(s, w), {"scope", "field", "panic"})
         /\ Touches(s, ExitField_type(s, w), {"scope", "panic"})
         /\ Touches(s, EnterInplace_tuple(s), {"types", "typemap", "panic"})
         /\ Touches(s, ExitInplace_tuple(s), {"types", "typemap"})
         /\ Touches(s, EnterTable_stmts(s, w), {"scope", "types"})
         /\ Touches(s, EnterTable_def(s, w), {"scope", "types"})
         /\ Touches(s, EnterTable(s, w), {"scope", "types", "typemap", "panic"})
         /\ Touches(s, ExitTable(s), {"scope", "types", "typemap", "field", "panic"})
         /\ Touches(s, EnterUnion(s, w), {"scope", "types", "typemap", "panic"})
         /\ Touches(s, ExitUnion(s, w), {"scope", "types", "typemap", "field", "panic"})
         /\ Touches(s, EnterAlias(s, w), {"scope", "types", "typemap", "field", "panic"})
         /\ Touches(s, ExitAlias(s, w), {"scope", "types", "typemap", "field", "panic"})
<1>0. \A X : Touches(s, s, X)
  BY TouchesNothing
<1>1. Touches(s, EnterTypes(s, w), {"field", "panic"})
  BY <1>0, HelpersTouch, SettingTouches DEF EnterTypes
<1>2. Touches(s, ExitField(s, w), {"field", "panic"})
  BY <1>0, HelpersTouch, SettingTouches DEF ExitField
<1>3. Touches(s, exitSetOrSequence_type(s, w), {"scope", "field", "panic"})
  BY <1>0, HelpersTouch, SettingTouches DEF exitSetOrSequence_type
<1>4. Touches(s, EnterField_type(s, w), {"scope", "field", "panic"})
  BY <1>0, HelpersTouch, SettingTouches DEF EnterField_type
<1>5. Touches(s, ExitField_type(s, w), {"scope", "panic"})
  BY <1>0, HelpersTouch DEF ExitField_type
<1>6. Touches(s, EnterInplace_tuple(s), {"types", "typemap", "panic"})
  BY <1>0, HelpersTouch, SettingTouches DEF EnterInplace_tuple
<1>7. Touches(s, ExitInplace_tuple(s), {"types", "typemap"})
  BY DEF ExitInplace_tuple, Touches
<1>8. Touches(s, EnterTable_stmts(s, w), {"scope", "types"})
  BY <1>0, SettingTouches DEF EnterTable_stmts
<1>9. Touches(s, EnterTable_def(s, w), {"scope", "types"})
  BY <1>0, SettingTouches DEF EnterTable_def
<1>10. Touches(s, EnterTable(s, w), {"scope", "types", "typemap", "panic"})
  BY <1>0, HelpersTouch, SettingTouches DEF EnterTable
<1>11. Touches(s, ExitTable(s), {"scope", "types", "typemap", "field", "panic"})
  BY <1>0, HelpersTouch, SettingTouches DEF ExitTable
<1>12. Touches(s, EnterUnion(s, w), {"scope", "types", "typemap", "panic"})
  BY <1>0, HelpersTouch, SettingTouches DEF EnterUnion
<1>13. Touches(s, ExitUnion(s, w), {"scope", "types", "typemap", "field", "panic"})
  BY <1>0, HelpersTouch, SettingTouches DEF ExitUnion
<1>14. Touches(s, EnterAlias(s, w), {"scope", "types", "typemap", "field", "panic"})
  BY <1>0, HelpersTouch, SettingTouches DEF EnterAlias
<1>15. Touches(s, ExitAlias(s, w), {"scope", "types", "typemap", "field", "panic"})
  BY <1>0, HelpersTouch, SettingTouches DEF ExitAlias
<1>. QED
  BY <1>1, <1>2, <1>3, <1>4, <1>5, <1>6, <1>7, <1>8, <1>9, <1>10, <1>11, <1>12, <1>13, <1>14, <1>15

\* The callbacks of applications, endpoints and their parameters.
LEMMA EndpointCallbacksTouch ==
  ASSUME NEW s, NEW w
  PROVE  /\ \A t \in EnterName_with_attribs(s) : Touches(s, t, {"apps", "app"})
         /\ Touches(s, EnterApp_decl(s, w), {"apps", "rest_attrs", "typemap", "scope"})
         /\ Touches(s, EnterModel_name(s), {"apps", "panic"})
         /\ Touches(s, EnterHttp_path_var_with_type(s, w), {"field", "rest_urlparams", "panic"})
         /\ Touches(s, EnterHttp_path(s), {"endpoint"})
         /\ Touches(s, ExitHttp_path(s), {"urlPrefixes"})
         /\ Touches(s, EnterRest_endpoint(s), {"rest_urlparams_len", "rest_attrs"})
         /\ Touches(s, ExitRest_endpoint(s),
                    {"urlPrefixes", "rest_attrs", "rest_urlparams", "rest_urlparams_len", "panic"})
         /\ Touches(s, EnterMethod_def(s), {"scope", "endpoint"})
         /\ Touches(s, ExitMethod_def(s), {"scope", "endpoint", "panic"})
         /\ Touches(s, EnterSimple_endpoint(s, w), {"scope", "endpoint"})
         /\ Touches(s, ExitEndpoint(s, w), {"scope", "endpoint", "panic"})
         /\ Touches(s, EnterEvent(s, w), {"scope", "endpoint"})
         /\ \A t \in EnterSubscribe(s, w) : Touches(s, t, {"scope", "endpoint", "apps", "panic"})
         /\ Touches(s, EnterParams(s), {"field", "typemap", "nativeSet"})
         /\ Touches(s, ExitParam(s, w), {"nativeSet", "panic"})
         /\ Touches(s, ExitParams(s), {"field", "typemap", "panic"})
<1>0. \A X : Touches(s, s, X)
  BY TouchesNothing
<1>1. \A t \in EnterName_with_attribs(s) : Touches(s, t, {"apps", "app"})
  BY DEF EnterName_with_attribs, Touches
<1>2. Touches(s, EnterApp_decl(s, w), {"apps", "rest_attrs", "typemap", "scope"})
  BY DEF EnterApp_decl, pushScope, Touches
<1>3. Touches(s, EnterModel_name(s), {"apps", "panic"})
  BY <1>0, HelpersTouch, SettingTouches DEF EnterModel_name
<1>4. Touches(s, EnterHttp_path_var_with_type(s, w), {"field", "rest_urlparams", "panic"})
  BY <1>0, HelpersTouch, SettingTouches DEF EnterHttp_path_var_with_type
<1>5. Touches(s, EnterHttp_path(s), {"endpoint"}) /\ Touches(s, ExitHttp_path(s), {"urlPrefixes"})
  BY DEF EnterHttp_path, ExitHttp_path, Touches
<1>6. Touches(s, EnterRest_endpoint(s), {"rest_urlparams_len", "rest_attrs"})
  BY DEF EnterRest_endpoint, Touches
<1>7. Touches(s, ExitRest_endpoint(s),
              {"urlPrefixes", "rest_attrs", "rest_urlparams", "rest_urlparams_len", "panic"})
  BY DEF ExitRest_endpoint, Panic, Touches
<1>8. Touches(s, EnterMethod_def(s), {"scope", "endpoint"})
  BY <1>0, HelpersTouch, SettingTouches DEF EnterMethod_def
<1>9. Touches(s, ExitMethod_def(s), {"scope", "endpoint", "panic"})
  BY <1>0, HelpersTouch, SettingTouches DEF ExitMethod_def
<1>10. Touches(s, EnterSimple_endpoint(s, w), {"scope", "endpoint"})
  BY <1>0, HelpersTouch, SettingTouches DEF EnterSimple_endpoint
<1>11. Touches(s, ExitEndpoint(s, w), {"scope", "endpoint", "panic"})
  BY <1>0, HelpersTouch, SettingTouches DEF ExitEndpoint
<1>12. Touches(s, EnterEvent(s, w), {"scope", "endpoint"})
  BY <1>0, HelpersTouch, SettingTouches DEF EnterEvent
<1>13. \A t \in EnterSubscribe(s, w) : Touches(s, t, {"scope", "endpoint", "apps", "panic"})
  <2>. DEFINE X == {"scope", "endpoint", "apps", "panic"}
              a == [s EXCEPT !.endpoint = "plain"]
              b == IF Has(w, "statements")
                     THEN pushScope(a, "Endpoint", Has(w, "attribs_or_modifiers"), "subscribe") ELSE a
  <2>1. Touches(s, a, X)
    BY <1>0, SettingTouches
  <2>. HIDE DEF a
  <2>2. Touches(s, b, X)
    BY <2>1, HelpersTouch
  <2>. HIDE DEF b
  <2>3. Touches(s, Panic(b, "EnterSubscribe"), X) /\ \A y : Touches(s, [b EXCEPT !.apps = y], X)
    BY <2>2, HelpersTouch, SettingTouches
  <2>. QED
    BY <2>2, <2>3 DEF EnterSubscribe, a, b
<1>14. Touches(s, EnterParams(s), {"field", "typemap", "nativeSet"})
  BY <1>0, SettingTouches DEF EnterParams
<1>15. Touches(s, ExitParam(s, w), {"nativeSet", "panic"})
  BY <1>0, HelpersTouch, SettingTouches DEF ExitParam
<1>16. Touches(s, ExitParams(s), {"field", "typemap", "panic"})
  BY DEF ExitParams, Panic, Touches
<1>. QED
  BY <1>1, <1>2, <1>3, <1>4, <1>5, <1>6, <1>7, <1>8, <1>9, <1>10, <1>11, <1>12, <1>13, <1>14, <1>15,
     <1>16

\* The statements that hold others, doc strings, and views.
LEMMA BlockCallbacksTouch ==
  ASSUME NEW s, NEW w
  PROVE  /\ Touches(s, EnterIf_stmt(s), {"scope", "panic"})
         /\ Touches(s, EnterElse_stmt(s), {"scope", "panic"})
         /\ Touches(s, EnterFor_stmt(s, w), {"scope", "panic"})
         /\ Touches(s, EnterGroup_stmt(s), {"scope", "panic"})
         /\ Touches(s, EnterOne_of_stmt(s), {"scope", "panic"})
         /\ Touches(s, EnterText_stmt(s, w), {"pendingDocString", "scope", "panic"})
         /\ Touches(s, EnterDoc_string(s), {"pendingDocString", "panic"})
         /\ Touches(s, EnterView(s), {"field", "typemap", "returns"})
         /\ Touches(s, EnterView_return_type(s), {"field", "returns", "panic"})
         /\ Touches(s, ExitView(s, w), {"exprs", "field", "typemap", "returns", "panic"})
<1>0. \A X : Touches(s, s, X)
  BY TouchesNothing
<1>1. \A k, r : Touches(s, EnterBlock(s, k, r), {"scope", "panic"})
  BY <1>0, HelpersTouch DEF EnterBlock
<1>2. /\ Touches(s, EnterIf_stmt(s), {"scope", "panic"})
      /\ Touches(s, EnterElse_stmt(s), {"scope", "panic"})
      /\ Touches(s, EnterFor_stmt(s, w), {"scope", "panic"})
      /\ Touches(s, EnterGroup_stmt(s), {"scope", "panic"})
      /\ Touches(s, EnterOne_of_stmt(s), {"scope", "panic"})
  BY <1>1 DEF EnterIf_stmt, EnterElse_stmt, EnterFor_stmt, EnterGroup_stmt, EnterOne_of_stmt
<1>3. ASSUME NEW X, {"pendingDocString", "panic"} \subseteq X, NEW t, Touches(s, t, X),
             NEW u, Touches(s, u, X), NEW c
      PROVE  Touches(s, DocStringOf(t, u, c), X)
  BY <1>3, HelpersTouch DEF DocStringOf
<1>4. Touches(s, EnterText_stmt(s, w), {"pendingDocString", "scope", "panic"})
  <2>. DEFINE X == {"pendingDocString", "scope", "panic"}
              pending == [s EXCEPT !.pendingDocString = TRUE]
  <2>1. Touches(s, pending, X) /\ \A x : Touches(s, addToCurrentScope(s, x), X)
    BY <1>0, HelpersTouch, SettingTouches
  <2>. HIDE DEF pending
  <2>2. \A x : Touches(s, addToCurrentScope(pending, x), X)
    BY <2>1, HelpersTouch
  <2>. QED
    BY <1>3, <2>1, <2>2, SettingTouches DEF EnterText_stmt, pending
<1>5. Touches(s, EnterDoc_string(s), {"pendingDocString", "panic"})
  <2>. DEFINE X == {"pendingDocString", "panic"}
              taken == [s EXCEPT !.pendingDocString = FALSE]
  <2>1. Touches(s, taken, X) /\ Touches(s, peekAttrs(s), X)
    BY <1>0, HelpersTouch, SettingTouches
  <2>. HIDE DEF taken
  <2>2. \A x, c : Touches(s, lastStatement(taken, x, c), X)
    BY <2>1, HelpersTouch
  <2>. QED
    BY <1>3, <2>1, <2>2 DEF EnterDoc_string, taken
<1>6. Touches(s, EnterView(s), {"field", "typemap", "returns"})
  BY <1>0, SettingTouches DEF EnterView
<1>7. Touches(s, EnterView_return_type(s), {"field", "returns", "panic"})
  BY <1>0, HelpersTouch, SettingTouches DEF EnterView_return_type
<1>8. Touches(s, ExitView(s, w), {"exprs", "field", "typemap", "returns", "panic"})
  BY <1>0, HelpersTouch, SettingTouches DEF ExitView
<1>. QED
  BY <1>2, <1>4, <1>5, <1>6, <1>7, <1>8

-----------------------------------------------------------------------------
\* Which parts of the state a callback may touch, by the rule it is for

\* No Enter callback touches anything else.
LEMMA EnteredTouches ==
  ASSUME NEW s, NEW r, NEW w, NEW t \in Entered(s, r, w)
  PROVE  Touches(s, t, EnterTouches(r))
<1>1. CASE r = "name_with_attribs"
  BY <1>1, EndpointCallbacksTouch DEF Entered, EnterTouches
<1>2. CASE r = "subscribe"
  BY <1>2, EndpointCallbacksTouch DEF Entered, EnterTouches
<1>. DEFINE G1 == {"expr_func", "expr_agg_func", "expr_first_func", "expr_navigate", "matching_rhs",
              "squiggly_args", "expr_matching", "expr_rank_func"}
            G2 == {"expr_set", "atomT_implied_dot", "expr_atom_list", "if_multiple_lines", "template_statement",
              "transform_scope_var", "transform"}
            G3 == {"reference", "user_defined_type", "field", "view_param", "param", "transform_return_type"}
            G4 == {"ret_stmt", "call_stmt", "call_arg", "collector_call_stmt", "collector_http_stmt",
              "collector_pubsub_call", "collector_action_stmt", "one_of_cases", "annotation",
              "annotation_value", "collector"}
            G5 == {"if_stmt", "else_stmt", "for_stmt", "group_stmt", "one_of_stmt", "text_stmt", "doc_string",
                   "view", "view_return_type"}
            G6 == {"types", "field_type", "inplace_tuple", "table_stmts", "table_def", "table", "union", "alias"}
            G7 == {"app_decl", "model_name", "http_path_var_with_type", "http_path", "rest_endpoint",
                   "method_def", "simple_endpoint", "event", "params"}
<1>3. CASE r \notin {"name_with_attribs", "subscribe"}
  <2>1. t = Enter(s, r, w)
    BY <1>3 DEF Entered
  <2>2. CASE r \in G1
    <3>1. CASE r = "expr_rank_func"
      BY <2>1, <3>1, RelationalCallbacksTouch DEF Enter, EnterTouches
    <3>2. CASE r # "expr_rank_func"
      <4>. DEFINE X == {"exprs", "panic"}
      <4>1. /\ Touches(s, EnterExpr_agg_func(s), X) /\ Touches(s, EnterExpr_first_func(s), X)
            /\ Touches(s, EnterExpr_navigate(s), X) /\ Touches(s, EnterMatching_rhs(s, w), X)
            /\ Touches(s, EnterSquiggly_args(s), X) /\ Touches(s, EnterExpr_matching(s), X)
        BY RelationalCallbacksTouch
      <4>2. Touches(s, EnterExpr_func(s), X)
        BY AtomCallbacksTouch
      <4>3. EnterTouches(r) = X
        BY <2>2, <3>2 DEF EnterTouches
      <4>. HIDE DEF X
      <4>. QED
        BY <2>1, <2>2, <3>2, <4>1, <4>2, <4>3 DEF Enter
    <3>. QED
      BY <3>1, <3>2
  <2>3. CASE r \in G2
    BY <2>1, <2>3, AtomCallbacksTouch, TransformCallbacksTouch DEF Enter, EnterTouches
  <2>4. CASE r \in G3
    <3>1. CASE r \in {"reference", "user_defined_type"}
      BY <2>1, <3>1, LookupCallbacksTouch DEF Enter, EnterTouches
    <3>2. CASE r \in {"field", "view_param", "param", "transform_return_type"}
      BY <2>1, <3>2, FieldCallbacksTouch DEF Enter, EnterTouches
    <3>. QED
      BY <2>4, <3>1, <3>2
  <2>5. CASE r \in G4
    BY <2>1, <2>5, StatementCallbacksTouch DEF Enter, EnterTouches
  <2>6. CASE r \in G5
    <3>1. Touches(s, EnterDoc_string(s), {"pendingDocString", "scope", "panic"})
      BY BlockCallbacksTouch, TouchesMore
    <3>. QED
      BY <2>1, <2>6, <3>1, BlockCallbacksTouch DEF Enter, EnterTouches
  <2>7. CASE r \in G6
    BY <2>1, <2>7, TypeCallbacksTouch DEF Enter, EnterTouches
  <2>8. CASE r \in G7
    BY <2>1, <2>8, EndpointCallbacksTouch DEF Enter, EnterTouches
  <2>9. CASE r \notin G1 \cup G2 \cup G3 \cup G4 \cup G5 \cup G6 \cup G7
    <3>1. Enter(s, r, w) = s /\ EnterTouches(r) = {}
      BY <1>3, <2>9 DEF Enter, EnterTouches
    <3>. QED
      BY <2>1, <3>1, TouchesNothing
  <2>. QED
    BY <2>2, <2>3, <2>4, <2>5, <2>6, <2>7, <2>8, <2>9
<1>. QED
  BY <1>1, <1>2, <1>3

\* No Exit callback touches anything else.
LEMMA ExitedTouches ==
  ASSUME NEW s, NEW r, NEW w
  PROVE  Touches(s, Exit(s, r, w), ExitTouches(r))
<1>. DEFINE X == {"exprs", "panic"}
            G1 == {"func_arg", "rank_expr", "expr_rank_func", "expr_agg_func", "e_scope_var",
                   "first_func_target", "expr_first_func", "e_single_arg_func", "expr_single_arg_func",
                   "expr_any_func", "expr_single_or_null", "expr_snapshot", "expr_count",
                   "expr_table_of_op", "expr_navigate_attr", "matching_rhs", "expr_matching"}
            G2 == {"literal", "list_item", "expr_list", "empty_tuple", "atomT_name", "power",
                   "unaryTerm", "termT", "binexprT", "if_one_liner", "ifvar", "control_item",
                   "else_block_stmt", "final_else"}
            G3 == {"expr_simple_assign", "expr_let_statement", "expr_table_of_statement",
                         "expr_dot_assign", "template_expression", "template_statement",
                         "expr_inject_stmt", "transform_return_type", "transform_arg",
                         "transform"}
            G4 == {"reference", "http_path_var_with_type", "view_type_spec", "view_param"}
            G5 == {"target", "statements", "if_stmt", "else_stmt", "for_stmt", "group_stmt",
                   "one_of_cases", "one_of_stmt", "subscriber", "collector", "app_decl",
                   "collector_stmts"}
            G6 == {"field_type", "inplace_tuple", "field", "set_type", "sequence_type", "table",
                   "union", "alias"}
            G7 == {"http_path", "param", "params", "method_def", "simple_endpoint", "event",
                   "subscribe", "rest_endpoint"}
<1>0. /\ G1 \subseteq Inner /\ G2 \subseteq Inner /\ Chains \subseteq Inner
      /\ (G3 \cup G4 \cup G5 \cup G6 \cup G7 \cup {"view"}) \cap Inner = {}
  BY DEF Inner, Gainers, Neutral, Chains
<1>1. CASE r \in G1
  BY <1>1, <1>0, RelationalCallbacksTouch DEF Exit, ExitTouches
<1>2. CASE r \in G2
  BY <1>2, <1>0, AtomCallbacksTouch DEF Exit, ExitTouches
<1>3. CASE r \in G3
  BY <1>3, <1>0, TransformCallbacksTouch DEF Exit, ExitTouches
<1>4. CASE r \in G4
  BY <1>4, <1>0, LookupCallbacksTouch DEF Exit, ExitTouches
<1>5. CASE r \in G5
  BY <1>5, <1>0, StatementCallbacksTouch DEF Exit, ExitTouches
<1>6. CASE r \in G6
  <2>1. Touches(s, ExitField_type(s, w), {"scope", "panic"})
    BY TypeCallbacksTouch
  <2>. QED
    BY <1>6, <1>0, TypeCallbacksTouch DEF Exit, ExitTouches
<1>7. CASE r \in G7
  BY <1>7, <1>0, EndpointCallbacksTouch DEF Exit, ExitTouches
<1>8. CASE r = "view"
  BY <1>8, <1>0, BlockCallbacksTouch DEF Exit, ExitTouches
<1>9. CASE r \in Chains
  <2>1. Exit(s, r, w) = reverseOp(s, w, r) /\ ExitTouches(r) = X
    BY <1>9, <1>0 DEF Exit, ExitTouches, Chains
  <2>2. Touches(s, s, X) /\ Touches(s, Combine(s, Len(w), "binexpr", r), X)
    BY TouchesNothing, HelpersTouch
  <2>. QED
    BY <2>1, <2>2 DEF reverseOp
<1>10. CASE r \notin G1 \cup G2 \cup G3 \cup G4 \cup G5 \cup G6 \cup G7 \cup {"view"} \cup Chains
  <2>1. Exit(s, r, w) = s
    BY <1>10 DEF Exit, Chains
  <2>. QED
    BY <2>1, TouchesNothing
<1>. QED
  BY <1>1, <1>2, <1>3, <1>4, <1>5, <1>6, <1>7, <1>8, <1>9, <1>10

-----------------------------------------------------------------------------
\* The field that a callback leaves

LEMMA AddFieldAdds ==
  ASSUME NEW s, NEW c, "panic" \in DOMAIN s, "field" \in DOMAIN s, "typemap" \in DOMAIN s,
         Live(AddField(s, c)), c # ""
  PROVE  /\ OnField(AddField(s, c)) /\ AddField(s, c).typemap = s.typemap /\ s.typemap # 0
         /\ "top" \in DOMAIN AddField(s, c).field
<1>. DEFINE f == [NoFields EXCEPT !.top = s.typemap, !.all = s.field.all \cup {s.typemap}]
<1>1. s.typemap # 0
  BY DEF AddField, Panic, Live
<1>2. AddField(s, c) = [s EXCEPT !.field = f]
  BY <1>1 DEF AddField
<1>3. f.top = s.typemap /\ "top" \in DOMAIN f
  BY DEF NoFields
<1>. HIDE DEF f
<1>. QED
  BY <1>1, <1>2, <1>3 DEF OnField

\* The last field name after the Enter callbacks that touch it.
LEMMA FieldCallbacks ==
  ASSUME NEW s \in Listener, NEW w
  PROVE  /\ SameField(s, EnterTypes(s, w)) /\ SameField(s, EnterField_type(s, w))
         /\ SameField(s, ExitField(s, w)) /\ SameField(s, exitSetOrSequence_type(s, w))
<1>1. "panic" \in DOMAIN s /\ "field" \in DOMAIN s /\ "typemap" \in DOMAIN s /\ "scope" \in DOMAIN s
  BY DEF Listener
<1>2. DOMAIN s.field = {"all", "top", "attrs", "prim"}
  BY ListenerTypes DEF FieldEntry
<1>. DEFINE Fits(t) == /\ t.field = s.field /\ t.typemap = s.typemap
                       /\ "panic" \in DOMAIN t /\ "field" \in DOMAIN t /\ "typemap" \in DOMAIN t
                       /\ "scope" \in DOMAIN t
<1>3. ASSUME NEW t, Fits(t)
      PROVE  /\ \A c : Fits(Panic(t, c))
             /\ \A p : SameField(s, [t EXCEPT !.field.prim = p])
             /\ \A p : SameField(s, [t EXCEPT !.field.attrs = p])
             /\ \A k, a, r : Fits(pushScope(t, k, a, r))
             /\ \A k : Fits([t EXCEPT !.scope = k])
             /\ SameField(s, t)
  BY <1>2, <1>3 DEF SameField, Panic, pushScope
<1>4. Fits(s)
  BY <1>1
<1>. HIDE DEF Fits
<1>5. \A c : Fits(CurrentType(s, c)) /\ Fits(SomeField(s, c))
  BY <1>3, <1>4 DEF CurrentType, SomeField
<1>6. SameField(s, EnterTypes(s, w))
  BY <1>3, <1>5 DEF EnterTypes
<1>7. SameField(s, EnterField_type(s, w))
  <2>. DEFINE a == [CurrentType(s, "EnterField_type") EXCEPT
              !.field.attrs = HasAny(w, {"attribs_or_modifiers", "annotations"})]
  <2>1. SameField(s, a)
    BY <1>3, <1>5
  <2>2. Touches(a, pushScope(a, "Type", TRUE, "field_type"), {"scope"})
    BY TouchesNothing, HelpersTouch
  <2>3. "field" \in DOMAIN a /\ "typemap" \in DOMAIN a
    BY <1>5 DEF Fits
  <2>. HIDE DEF a
  <2>4. SameField(s, pushScope(a, "Type", TRUE, "field_type"))
    BY <2>1, <2>2, <2>3 DEF Touches, SameField
  <2>. QED
    BY <2>1, <2>4 DEF EnterField_type, a
<1>8. SameField(s, ExitField(s, w))
  BY <1>3, <1>4 DEF ExitField
<1>9. SameField(s, exitSetOrSequence_type(s, w))
  <2>. DEFINE a == CurrentType(s, "exitSetOrSequence_type")
              b == IF s.field.attrs THEN pushScope(popScope(a), "Type", TRUE, "set_type") ELSE a
  <2>1. Fits(a)
    BY <1>5
  <2>2. Fits(popScope(a))
    BY <1>3, <2>1 DEF popScope
  <2>3. Fits(b)
    BY <1>3, <2>1, <2>2
  <2>. HIDE DEF b
  <2>4. Fits(MakeConstraint(b, Has(w, "size_spec")))
    BY <1>3, <2>3 DEF MakeConstraint
  <2>. QED
    BY <1>3, <2>4 DEF exitSetOrSequence_type, b
<1>. QED
  BY <1>6, <1>7, <1>8, <1>9

LEMMA AddersAdd ==
  ASSUME NEW s \in Listener, Live(s), NEW r, NEW w, Adders(r, w), Live(Enter(s, r, w))
  PROVE  OnField(Enter(s, r, w)) /\ Enter(s, r, w).typemap = s.typemap /\ s.typemap # 0
<1>1. "panic" \in DOMAIN s /\ "field" \in DOMAIN s /\ "typemap" \in DOMAIN s
      /\ "returns" \in DOMAIN s /\ "rest_urlparams" \in DOMAIN s
  BY DEF Listener
<1>2. CASE r = "field"
  BY <1>1, <1>2, AddFieldAdds DEF Enter, EnterField
<1>3. CASE r = "expr_rank_func"
  <2>. DEFINE a == Combine(s, 1, "relexpr", "EnterExpr_rank_func")
  <2>1. Touches(s, a, {"exprs", "panic"})
    BY TouchesNothing, HelpersTouch
  <2>2. DOMAIN a = DOMAIN s /\ a.field = s.field /\ a.typemap = s.typemap
    BY <1>1, <2>1 DEF Touches
  <2>. HIDE DEF a
  <2>3. Enter(s, r, w) = AddField(a, "EnterExpr_rank_func")
    BY <1>3 DEF Enter, EnterExpr_rank_func, a
  <2>. QED
    BY <1>1, <2>2, <2>3, AddFieldAdds
<1>4. CASE r = "view_param"
  BY <1>1, <1>4, AddFieldAdds DEF Enter, EnterView_param
<1>5. CASE r = "view_return_type"
  <2>. DEFINE a == AddField(s, "EnterView_return_type")
  <2>1. Enter(s, r, w) = [a EXCEPT !.returns = TRUE]
    BY <1>5 DEF Enter, EnterView_return_type
  <2>2. Touches(s, a, {"field", "panic"})
    BY TouchesNothing, HelpersTouch
  <2>3. DOMAIN a = DOMAIN s
    BY <2>2 DEF Touches
  <2>. HIDE DEF a
  <2>4. Live(a) /\ Enter(s, r, w).field = a.field /\ Enter(s, r, w).typemap = a.typemap
    BY <1>1, <2>1, <2>3 DEF Live
  <2>5. OnField(a) /\ a.typemap = s.typemap /\ s.typemap # 0
    BY <1>1, <2>4, AddFieldAdds DEF a
  <2>. QED
    BY <2>4, <2>5 DEF OnField
<1>6. CASE r = "param" /\ Has(w, "reference")
  BY <1>1, <1>6, AddFieldAdds DEF Enter, EnterParam
<1>7. CASE r = "http_path_var_with_type" /\ Has(w, "reference")
  <2>. DEFINE a == AddField(s, "EnterHttp_path_var_with_type")
  <2>1. Enter(s, r, w) = [a EXCEPT !.rest_urlparams = Append(@, Len(s.rest_urlparams_len))]
    BY <1>7 DEF Enter, EnterHttp_path_var_with_type
  <2>2. Touches(s, a, {"field", "panic"})
    BY TouchesNothing, HelpersTouch
  <2>3. DOMAIN a = DOMAIN s
    BY <2>2 DEF Touches
  <2>. HIDE DEF a
  <2>4. Live(a) /\ Enter(s, r, w).field = a.field /\ Enter(s, r, w).typemap = a.typemap
    BY <1>1, <2>1, <2>3 DEF Live
  <2>5. OnField(a) /\ a.typemap = s.typemap /\ s.typemap # 0
    BY <1>1, <2>4, AddFieldAdds DEF a
  <2>. QED
    BY <2>4, <2>5 DEF OnField
<1>8. CASE r = "transform_return_type" /\ ~Has(w, "set_of")
  BY <1>1, <1>8, AddFieldAdds DEF Enter, EnterTransform_return_type
<1>. QED
  BY <1>2, <1>3, <1>4, <1>5, <1>6, <1>7, <1>8 DEF Adders

\* The map of a new type is there, and the field of an alias is in it.
LEMMA NewTypesField ==
  ASSUME NEW s \in Listener, NEW w
  PROVE  /\ EnterView(s).typemap # 0
         /\ Live(EnterAlias(s, w)) => OnField(EnterAlias(s, w))
<1>1. NoFields \in FieldEntry /\ [s EXCEPT !.field = NoFields] \in Listener
  BY NoFieldsTyped, FieldStays DEF Stays
<1>2. EnterView(s).typemap # 0
  <2>. DEFINE m == NewMap([s EXCEPT !.field = NoFields])
  <2>1. m # 0
    BY <1>1, NewMapExists
  <2>. HIDE DEF m
  <2>2. "typemap" \in DOMAIN s /\ "returns" \in DOMAIN s
    BY DEF Listener
  <2>. QED
    BY <2>1, <2>2 DEF EnterView, FreshTypemap, m
<1>3. ASSUME Live(EnterAlias(s, w)) PROVE OnField(EnterAlias(s, w))
  <2>. DEFINE c == PushType([s EXCEPT !.field = NoFields], "empty")
              a == AddField(c, "EnterAlias")
              b == [a EXCEPT !.field.attrs = HasAny(w, {"attribs_or_modifiers", "annotation"})]
              e == pushScope(b, "Type", TRUE, "alias")
  <2>1. DOMAIN s = DOMAIN a /\ DOMAIN c = DOMAIN a
    <3>1. Touches(s, [s EXCEPT !.field = NoFields], {"field", "types", "typemap", "panic"})
      BY TouchesNothing, SettingTouches
    <3>2. Touches(s, c, {"field", "types", "typemap", "panic"})
      BY <3>1, SettingTouches
    <3>3. Touches(s, a, {"field", "types", "typemap", "panic"})
      BY <3>2, HelpersTouch
    <3>. QED
      BY <3>2, <3>3 DEF Touches
  <2>2. "panic" \in DOMAIN s /\ "field" \in DOMAIN s /\ "typemap" \in DOMAIN s /\ "scope" \in DOMAIN s
    BY DEF Listener
  <2>. HIDE DEF a
  <2>3. DOMAIN b = DOMAIN a
    OBVIOUS
  <2>4. EnterAlias(s, w) \in {b, e}
    <3>1. ~Live(Panic(s, "EnterAlias"))
      BY <2>2 DEF Panic, Live
    <3>. HIDE DEF b, e
    <3>2. currentApp(s).types
      BY <1>3, <3>1 DEF EnterAlias
    <3>. QED
      BY <3>2 DEF EnterAlias, b, e, a, c
  <2>5. e.panic = b.panic /\ e.field = b.field /\ e.typemap = b.typemap
    BY <2>1, <2>2, <2>3 DEF pushScope
  <2>6. Live(a) /\ b.typemap = a.typemap /\ b.panic = a.panic
    BY <1>3, <2>1, <2>2, <2>4, <2>5 DEF Live
  <2>7. OnField(a) /\ "top" \in DOMAIN a.field
    <3>. HIDE DEF c
    <3>. QED
      BY <2>1, <2>2, <2>6, AddFieldAdds DEF a
  <2>8. b.field.top = a.field.top
    BY <2>1, <2>2, <2>7
  <2>. QED
    BY <2>4, <2>5, <2>6, <2>7, <2>8 DEF OnField
<1>. QED
  BY <1>2, <1>3

\* A field is of a type or a tuple in place, never both.
LEMMA FieldWords == \A w \in Grammar["field"] : Has(w, "field_type") => ~Has(w, "inplace_tuple")
<1>. DEFINE S == {"name_str", "array_size"}
<1>1. SUFFICES ASSUME NEW w \in field PROVE Has(w, "field_type") => ~Has(w, "inplace_tuple")
  BY DEF Grammar
<1>2. PICK v \in {<<>>} \cup (Opt("array_size") ** One({"field_type", "inplace_tuple"})) :
        w = <<"name_str">> \o v
  BY DEF field, **
<1>3. <<"name_str">> \in Seq(S)
  OBVIOUS
<1>4. CASE v = <<>>
  <2>1. Len(w) = 1 /\ w[1] = "name_str"
    BY <1>2, <1>4
  <2>. QED
    BY <2>1 DEF Has
<1>5. CASE v \in Opt("array_size") ** One({"field_type", "inplace_tuple"})
  <2>1. PICK u \in Opt("array_size"), x \in One({"field_type", "inplace_tuple"}) : v = u \o x
    BY <1>5 DEF **
  <2>2. u \in Seq(S)
    BY <2>1, OptIn
  <2>3. PICK a \in {"field_type", "inplace_tuple"} : x = <<a>>
    BY <2>1 DEF One
  <2>4. EndsWith(v, a, S)
    BY <2>1, <2>2, <2>3, EndsWithWord, EndsWithCat
  <2>5. EndsWith(w, a, S)
    BY <1>2, <1>3, <2>4, EndsWithCat
  <2>6. /\ w \in Seq(S \cup {a}) /\ \A k \in 1..(Len(w) - 1) : w[k] \in S
        /\ w[Len(w)] = a
    BY <2>5 DEF EndsWith
  <2>. QED
    BY <2>3, <2>6 DEF Has
<1>. QED
  BY <1>2, <1>4, <1>5

\* These have one child.
LEMMA WordsOfOne ==
  \A r \in {"param", "transform_return_type", "types", "view_type_spec", "collection_type"} :
    \A w \in Grammar[r] : Len(w) = 1
<1>1. \A A : \A w \in One(A) : Len(w) = 1
  BY DEF One
<1>. QED
  BY <1>1 DEF Grammar, param, transform_return_type, types, view_type_spec, collection_type

LEMMA FieldKids ==
  /\ Alphabet["field"] = {"name_str", "array_size", "field_type", "inplace_tuple"}
  /\ Alphabet["param"] = {"reference", "field"}
  /\ {"field", "param"} \subseteq LooksBack /\ {"field", "param"} \subseteq Rules
  BY DEF Alphabet, LooksBack, Rules, Grammar

\* The rules that declare something are not around one that has a field.
LEMMA DeclarersOutside ==
  /\ \A r \in Rules : r \in Declarers \ FieldRules \/ Alphabet[r] \cap Declarers = {}
  /\ \A r \in Rules : "inplace_tuple" \in Alphabet[r] => r = "field"
<1>1. \A r \in Rules : r \in Declarers \ FieldRules \/ Alphabet[r] \cap Declarers = {}
  BY SMTT(60) DEF Declarers, FieldRules, Typed, Alphabet, Rules, Grammar
<1>2. \A r \in Rules : "inplace_tuple" \in Alphabet[r] => r = "field"
  BY SMTT(60) DEF Alphabet, Rules, Grammar
<1>. QED
  BY <1>1, <1>2

\* The parents of the rules that work on a type.
LEMMA TypedParents ==
  \A r \in Rules :
    /\ Alphabet[r] \cap {"types", "set_type", "sequence_type", "collection_type"} # {} => r \in Typed
    /\ "field_type" \in Alphabet[r] => r = "field"
    /\ "view_type_spec" \in Alphabet[r] => r \in Typed \cup {"transform_return_type"}
    /\ "reference" \in Alphabet[r] => r \in Typed \cup {"param", "http_path_var_with_type"}
<1>1. \A r \in Rules : Alphabet[r] \cap {"types", "set_type", "sequence_type", "collection_type"} # {}
         => r \in Typed
  BY SMTT(60) DEF Alphabet, Rules, Grammar, Typed
<1>2. \A r \in Rules :
    /\ "field_type" \in Alphabet[r] => r = "field"
    /\ "view_type_spec" \in Alphabet[r] => r \in Typed \cup {"transform_return_type"}
    /\ "reference" \in Alphabet[r] => r \in Typed \cup {"param", "http_path_var_with_type"}
  BY SMTT(60) DEF Alphabet, Rules, Grammar, Typed
<1>. QED
  BY <1>1, <1>2

LEMMA Untouched ==
  ASSUME NEW s \in Listener, NEW t, NEW X, Touches(s, t, X)
  PROVE  /\ "field" \notin X => t.field = s.field
         /\ {"field", "typemap"} \cap X = {} => SameField(s, t)
  BY DEF Listener, Touches, SameField

\* The rules whose Enter callback leaves the last field name and its map alone.
LEMMA EnterKeepsField ==
  ASSUME NEW s \in Listener, NEW r, NEW w, NEW t \in Entered(s, r, w),
         ~Adders(r, w), r \notin {"alias", "view", "params", "app_decl", "table", "union", "inplace_tuple"}
  PROVE  SameField(s, t)
<1>1. Touches(s, t, EnterTouches(r))
  BY EnteredTouches
<1>2. CASE r \in {"types", "field_type"}
  BY <1>2, FieldCallbacks DEF Entered, Enter
<1>3. CASE r \in {"param", "transform_return_type"}
  BY <1>3 DEF Entered, Enter, EnterParam, EnterTransform_return_type, Adders, SameField
<1>4. CASE r = "http_path_var_with_type"
  <2>1. t = [s EXCEPT !.rest_urlparams = Append(@, Len(s.rest_urlparams_len))]
    BY <1>4 DEF Entered, Enter, EnterHttp_path_var_with_type, Adders
  <2>. QED
    BY <2>1 DEF Listener, SameField
<1>5. CASE r \notin {"types", "field_type", "param", "transform_return_type", "http_path_var_with_type"}
  <2>1. {"field", "typemap"} \cap EnterTouches(r) = {}
    BY <1>5 DEF EnterTouches, Adders
  <2>. QED
    BY <1>1, <2>1, Untouched
<1>. QED
  BY <1>2, <1>3, <1>4, <1>5

LEMMA ExitKeepsField ==
  ASSUME NEW s \in Listener, NEW r, NEW w,
         r \notin {"alias", "view", "params", "table", "union", "inplace_tuple"}
  PROVE  SameField(s, Exit(s, r, w))
<1>1. Touches(s, Exit(s, r, w), ExitTouches(r))
  BY ExitedTouches
<1>2. CASE r \in {"field", "set_type", "sequence_type"}
  BY <1>2, FieldCallbacks DEF Exit
<1>3. CASE r \notin {"field", "set_type", "sequence_type"}
  <2>1. {"field", "typemap"} \cap ExitTouches(r) = {}
    BY <1>3 DEF ExitTouches
  <2>. QED
    BY <1>1, <2>1, Untouched
<1>. QED
  BY <1>2, <1>3

-----------------------------------------------------------------------------
\* The applications and their types

LEMMA AppParents ==
  /\ \A r \in Rules : r \in Tops \ AppRules \/ Alphabet[r] \cap Tops = {}
  /\ \A r \in Rules : "app_decl" \in Alphabet[r] \/ "name_with_attribs" \in Alphabet[r] => r = "application"
  /\ \A r \in Rules : "alias" \in Alphabet[r] => r = "app_decl"
  /\ \A r \in Rules : "table" \in Alphabet[r] => r \in {"app_decl", "inplace_table"}
<1>1. \A r \in Rules : r \in Tops \ AppRules \/ Alphabet[r] \cap Tops = {}
  BY SMTT(60) DEF Tops, AppRules, Alphabet, Rules, Grammar
<1>2. \A r \in Rules : "app_decl" \in Alphabet[r] \/ "name_with_attribs" \in Alphabet[r] => r = "application"
  BY SMTT(60) DEF Tops, AppRules, Alphabet, Rules, Grammar
<1>3. \A r \in Rules : "alias" \in Alphabet[r] => r = "app_decl"
  BY SMTT(60) DEF Tops, AppRules, Alphabet, Rules, Grammar
<1>4. \A r \in Rules : "table" \in Alphabet[r] => r \in {"app_decl", "inplace_table"}
  BY SMTT(60) DEF Tops, AppRules, Alphabet, Rules, Grammar
<1>. QED
  BY <1>1, <1>2, <1>3, <1>4

\* No callback takes the types of an application away.
LEMMA AppsKept ==
  ASSUME NEW s \in Listener, NEW r, NEW w, NEW t \in Entered(s, r, w),
         r \notin {"name_with_attribs", "app_decl"}
  PROVE  t.app = s.app /\ (HasTypes(s) => HasTypes(t))
<1>1. Touches(s, t, EnterTouches(r))
  BY EnteredTouches
<1>2. /\ "app" \in DOMAIN s /\ "apps" \in DOMAIN s /\ "panic" \in DOMAIN s /\ "endpoint" \in DOMAIN s
      /\ "scope" \in DOMAIN s
      /\ s.app \in Nat /\ s.app <= Len(s.apps) /\ s.apps \in Seq(AppEntry)
  BY DEF Listener
<1>3. t.app = s.app
  <2>1. "app" \notin EnterTouches(r)
    BY DEF EnterTouches
  <2>. QED
    BY <1>1, <1>2, <2>1 DEF Touches
<1>4. CASE r \notin {"model_name", "subscribe"}
  <2>1. "apps" \notin EnterTouches(r)
    BY <1>4 DEF EnterTouches
  <2>2. t.apps = s.apps
    BY <1>1, <1>2, <2>1 DEF Touches
  <2>. QED
    BY <1>3, <2>2 DEF HasTypes
<1>5. CASE r = "model_name"
  <2>1. t = EnterModel_name(s)
    BY <1>5 DEF Entered, Enter
  <2>2. CASE t.apps = s.apps
    BY <1>3, <2>2 DEF HasTypes
  <2>3. CASE t = [s EXCEPT !.apps[s.app].wrapped = "named"]
    <3>1. SUFFICES ASSUME HasTypes(s) PROVE t.apps[s.app].types
      BY <1>3 DEF HasTypes
    <3>2. s.app \in 1..Len(s.apps) /\ s.apps[s.app] \in AppEntry
      BY <1>2, <3>1 DEF HasTypes
    <3>3. t.apps[s.app] = [s.apps[s.app] EXCEPT !.wrapped = "named"]
      BY <1>2, <2>3, <3>2
    <3>. QED
      BY <3>1, <3>2, <3>3 DEF HasTypes, AppEntry
  <2>. QED
    BY <1>2, <2>1, <2>2, <2>3 DEF EnterModel_name, Panic
<1>6. CASE r = "subscribe"
  <2>1. t \in EnterSubscribe(s, w)
    BY <1>6 DEF Entered
  <2>. DEFINE a == [s EXCEPT !.endpoint = "plain"]
              b == IF Has(w, "statements")
                     THEN pushScope(a, "Endpoint", Has(w, "attribs_or_modifiers"), "subscribe") ELSE a
  <2>2. Touches(s, b, {"endpoint", "scope"})
    <3>1. Touches(s, a, {"endpoint", "scope"})
      BY DEF Touches
    <3>2. Touches(s, pushScope(a, "Endpoint", Has(w, "attribs_or_modifiers"), "subscribe"), {"endpoint", "scope"})
      BY <3>1, HelpersTouch
    <3>. QED
      BY <3>1, <3>2
  <2>3. b.apps = s.apps /\ DOMAIN b = DOMAIN s
    BY <1>2, <2>2 DEF Touches
  <2>4. t \in {IF s.apps[i].endpoints THEN b ELSE Panic(b, "EnterSubscribe") : i \in 1..Len(s.apps)}
              \cup {[b EXCEPT !.apps = Append(@, [NewApp EXCEPT !.endpoints = TRUE])]}
    BY <2>1 DEF EnterSubscribe
  <2>. HIDE DEF b
  <2>5. t.apps = s.apps \/ t.apps = Append(s.apps, [NewApp EXCEPT !.endpoints = TRUE])
    BY <1>2, <2>3, <2>4 DEF Panic
  <2>6. SUFFICES ASSUME HasTypes(s) PROVE t.apps[s.app].types
    BY <1>3 DEF HasTypes
  <2>7. s.app \in 1..Len(s.apps)
    BY <1>2, <2>6 DEF HasTypes
  <2>8. t.apps[s.app] = s.apps[s.app]
    BY <1>2, <2>5, <2>7
  <2>. QED
    BY <2>6, <2>8 DEF HasTypes
<1>. QED
  BY <1>4, <1>5, <1>6

LEMMA AppsDeclared ==
  ASSUME NEW s \in Listener, NEW w
  PROVE  /\ \A t \in EnterName_with_attribs(s) : t.app # 0
         /\ LET t == EnterApp_decl(s, w)
            IN  /\ t.app = s.app
                /\ s.app # 0 /\ HasAny(w, {"table", "alias"}) => HasTypes(t)
<1>1. /\ "app" \in DOMAIN s /\ "apps" \in DOMAIN s /\ "scope" \in DOMAIN s
      /\ s.app \in Nat /\ s.app <= Len(s.apps) /\ s.apps \in Seq(AppEntry)
  BY DEF Listener
<1>2. ASSUME NEW t \in EnterName_with_attribs(s) PROVE t.app # 0
  <2>1. \/ \E i \in 1..Len(s.apps) : t = [s EXCEPT !.app = i]
        \/ t = [s EXCEPT !.apps = Append(@, NewApp), !.app = Len(s.apps) + 1]
    BY <1>2 DEF EnterName_with_attribs
  <2>2. Len(s.apps) \in Nat
    BY <1>1
  <2>3. ASSUME NEW i \in 1..Len(s.apps), t = [s EXCEPT !.app = i] PROVE t.app # 0
    BY <1>1, <2>2, <2>3
  <2>4. ASSUME t = [s EXCEPT !.apps = Append(@, NewApp), !.app = Len(s.apps) + 1] PROVE t.app # 0
    <3>1. t.app = Len(s.apps) + 1
      BY <1>1, <2>4
    <3>. QED
      BY <2>2, <3>1
  <2>. QED
    BY <2>1, <2>3, <2>4
<1>. DEFINE t == EnterApp_decl(s, w)
<1>3. Touches(s, t, {"apps", "rest_attrs", "typemap", "scope"})
  BY EndpointCallbacksTouch
<1>4. t.app = s.app
  BY <1>1, <1>3 DEF Touches
<1>5. ASSUME s.app # 0, HasAny(w, {"table", "alias"}) PROVE HasTypes(t)
  <2>. DEFINE e == [types |-> currentApp(s).types \/ HasAny(w, {"table", "alias", "enum"}),
                endpoints |-> \/ currentApp(s).endpoints
                             \/ HasAny(w, {"simple_endpoint", "rest_endpoint", "event", "subscribe",
                                           "collector"}),
                wrapped |-> IF currentApp(s).wrapped = "no" /\ Has(w, "facade") THEN "made"
                            ELSE currentApp(s).wrapped]
              a == [s EXCEPT !.apps[s.app] = e, !.rest_attrs = 0, !.typemap = NewMap(s)]
  <2>1. HasAny(w, {"table", "alias", "enum"})
    BY <1>5 DEF HasAny
  <2>2. e.types
    BY <2>1
  <2>. HIDE DEF e
  <2>3. s.app \in 1..Len(s.apps)
    BY <1>1, <1>5
  <2>4. a.apps = [s.apps EXCEPT ![s.app] = e] /\ DOMAIN a = DOMAIN s
    BY <1>1
  <2>5. a.apps[s.app].types
    BY <1>1, <2>2, <2>3, <2>4
  <2>6. t = IF Has(w, "annotation") THEN pushScope(a, "Application", TRUE, "app_decl") ELSE a
    BY DEF EnterApp_decl, e
  <2>. HIDE DEF a, t
  <2>7. t.apps = a.apps
    BY <1>1, <2>4, <2>6 DEF pushScope
  <2>. QED
    BY <1>4, <1>5, <2>5, <2>7 DEF HasTypes
<1>. QED
  BY <1>2, <1>4, <1>5

-----------------------------------------------------------------------------
\* What the callbacks do to the entries of the scope

LEMMA PanicIsDead ==
  ASSUME NEW s \in Listener, NEW c, c # ""
  PROVE  ~Live(Panic(s, c))
  BY DEF Live, Panic, Listener

LEMMA PushGives ==
  ASSUME NEW s \in Listener, NEW kind \in Blocks \cup Annotated \cup {"Alt"},
         NEW attrs \in BOOLEAN, NEW rule \in Scopers
  PROVE  /\ Gives(s, pushScope(s, kind, attrs, rule), {kind}, attrs)
         /\ pushScope(s, kind, attrs, rule).panic = s.panic
<1>. DEFINE e == [kind |-> kind, attrs |-> attrs, last |-> "", by |-> rule]
<1>1. e \in ScopeEntry /\ e.kind = kind /\ e.attrs = attrs
  BY DEF ScopeEntry
<1>2. pushScope(s, kind, attrs, rule) = [s EXCEPT !.scope = Append(s.scope, e)]
  BY DEF pushScope
<1>. HIDE DEF e
<1>3. pushScope(s, kind, attrs, rule).scope = Append(s.scope, e)
  BY <1>2 DEF Listener
<1>. QED
  BY <1>1, <1>2, <1>3 DEF Gives, Listener

LEMMA GivesOlder ==
  ASSUME NEW s \in Listener, NEW t, NEW kinds, NEW attrs, Gives(s, t, kinds, attrs)
  PROVE  /\ Older(s.scope, t.scope)
         /\ t.scope[Len(s.scope) + 1].kind \in kinds
         /\ t.scope[Len(s.scope) + 1].attrs = attrs
<1>1. s.scope \in Seq(ScopeEntry)
  BY ListenerTypes
<1>2. PICK e \in ScopeEntry : t.scope = Append(s.scope, e) /\ e.kind \in kinds /\ e.attrs = attrs
  BY DEF Gives
<1>. QED
  BY <1>1, <1>2 DEF Older

\* A statement that is added changes the last statement of a block, and nothing else.
LEMMA AddedStatement ==
  ASSUME NEW s \in Listener, NEW x \in Statements, Live(addToCurrentScope(s, x))
  PROVE  LET t == addToCurrentScope(s, x)
         IN  /\ TopKind(s) \in Blocks /\ s.scope # <<>>
             /\ t \in Listener /\ t.scope \in Seq(ScopeEntry) /\ Len(t.scope) = Len(s.scope)
             /\ Older(s.scope, t.scope)
             /\ Top(t.scope).last = x /\ TopKind(t) = TopKind(s)
<1>. DEFINE t == addToCurrentScope(s, x)
            e == [s.scope[Len(s.scope)] EXCEPT !.last = x]
<1>1. s.scope \in Seq(ScopeEntry)
  BY ListenerTypes
<1>2. TopKind(s) \in Blocks
  <2>1. ~Live(Panic(s, "addToCurrentScope"))
    BY PanicIsDead
  <2>. QED
    BY <2>1 DEF addToCurrentScope
<1>3. s.scope # <<>> /\ s.scope[Len(s.scope)] \in ScopeEntry
  BY <1>1, <1>2 DEF TopKind, Blocks
<1>4. e \in ScopeEntry /\ e.by = s.scope[Len(s.scope)].by /\ e.kind = s.scope[Len(s.scope)].kind
      /\ e.attrs = s.scope[Len(s.scope)].attrs /\ e.last = x
  BY <1>3 DEF ScopeEntry
<1>5. t = [s EXCEPT !.scope = [s.scope EXCEPT ![Len(s.scope)] = e]]
  BY <1>2 DEF addToCurrentScope
<1>. HIDE DEF e
<1>6. t.scope = [s.scope EXCEPT ![Len(s.scope)] = e]
  BY <1>5 DEF Listener
<1>7. t \in Listener
  BY addToCurrentScopeStays DEF Stays
<1>. HIDE DEF t
<1>8. t.scope \in Seq(ScopeEntry) /\ Len(t.scope) = Len(s.scope) /\ t.scope[Len(s.scope)] = e
      /\ \A i \in 1..Len(s.scope) : i # Len(s.scope) => t.scope[i] = s.scope[i]
  BY <1>1, <1>3, <1>4, <1>6
<1>9. Older(s.scope, t.scope)
  BY <1>1, <1>4, <1>8 DEF Older
<1>10. Top(t.scope).last = x /\ TopKind(t) = TopKind(s)
  <2>1. t.scope # <<>> /\ Top(t.scope) = e /\ Top(s.scope).kind = e.kind
    BY <1>1, <1>3, <1>4, <1>8 DEF Top
  <2>. QED
    BY <1>3, <1>4, <2>1 DEF TopKind
<1>. QED
  BY <1>2, <1>3, <1>7, <1>8, <1>9, <1>10 DEF t

LEMMA SameIsOlder == \A s, t : t.scope = s.scope => Older(s.scope, t.scope)
  BY DEF Older

LEMMA BlockGives ==
  ASSUME NEW s \in Listener, NEW kind \in Blocks \cup {"Alt"}, NEW rule \in Scopers,
         Live(EnterBlock(s, kind, rule))
  PROVE  LET t == EnterBlock(s, kind, rule)
         IN  Older(s.scope, t.scope) /\ t.scope[Len(s.scope) + 1].kind = kind
<1>. DEFINE a == addToCurrentScope(s, "other")
            t == EnterBlock(s, kind, rule)
<1>1. Live(a) /\ t = pushScope(a, kind, FALSE, rule)
  BY DEF EnterBlock
<1>2. /\ a \in Listener /\ a.scope \in Seq(ScopeEntry) /\ Len(a.scope) = Len(s.scope)
      /\ Older(s.scope, a.scope)
  BY <1>1, AddedStatement DEF Statements
<1>. HIDE DEF a, t
<1>3. Gives(a, t, {kind}, FALSE)
  BY <1>1, <1>2, PushGives
<1>4. Older(a.scope, t.scope) /\ t.scope[Len(a.scope) + 1].kind = kind
  <2>1. Older(a.scope, t.scope) /\ t.scope[Len(a.scope) + 1].kind \in {kind}
    BY <1>2, <1>3, GivesOlder
  <2>. QED
    BY <2>1
<1>5. Older(s.scope, t.scope)
  BY <1>2, <1>4 DEF Older
<1>. QED
  BY <1>2, <1>4, <1>5 DEF t

\* A type is given attributes.
LEMMA AttrsGiven ==
  ASSUME NEW s \in Listener
  PROVE  LET t == TypeAttrs(s)
         IN  /\ Older(s.scope, t.scope)
             /\ s.scope # <<>> => t.scope[Len(s.scope)].attrs
             /\ DOMAIN t = DOMAIN s
<1>. DEFINE e == [s.scope[Len(s.scope)] EXCEPT !.attrs = TRUE]
            t == TypeAttrs(s)
<1>1. s.scope \in Seq(ScopeEntry)
  BY ListenerTypes
<1>2. t = [s EXCEPT !.scope = [s.scope EXCEPT ![Len(s.scope)] = e]]
  BY DEF TypeAttrs
<1>3. s.scope # <<>> => /\ s.scope[Len(s.scope)] \in ScopeEntry
                        /\ e.by = s.scope[Len(s.scope)].by /\ e.kind = s.scope[Len(s.scope)].kind
                        /\ e.attrs
  <2>1. SUFFICES ASSUME s.scope # <<>>
                 PROVE  /\ s.scope[Len(s.scope)] \in ScopeEntry
                        /\ e.by = s.scope[Len(s.scope)].by /\ e.kind = s.scope[Len(s.scope)].kind
                        /\ e.attrs
    OBVIOUS
  <2>2. s.scope[Len(s.scope)] \in ScopeEntry
    BY <1>1, <2>1
  <2>. QED
    BY <2>2 DEF ScopeEntry
<1>. HIDE DEF e
<1>4. t.scope = [s.scope EXCEPT ![Len(s.scope)] = e] /\ DOMAIN t = DOMAIN s
  BY <1>2 DEF Listener
<1>. HIDE DEF t
<1>5. CASE s.scope = <<>>
  BY <1>4, <1>5 DEF Older, t
<1>6. CASE s.scope # <<>>
  <2>1. t.scope[Len(s.scope)] = e /\ \A i \in 1..Len(s.scope) : i # Len(s.scope) => t.scope[i] = s.scope[i]
    BY <1>1, <1>4, <1>6
  <2>. QED
    BY <1>1, <1>3, <1>4, <1>6, <2>1 DEF Older, t
<1>. QED
  BY <1>5, <1>6

\* A scope is pushed when all else is done.
LEMMA PushesLast ==
  ASSUME NEW s \in Listener, NEW a, "scope" \in DOMAIN a, a.scope = s.scope,
         NEW kind \in Blocks \cup Annotated \cup {"Alt"}, NEW attrs \in BOOLEAN, NEW rule \in Scopers
  PROVE  Gives(s, pushScope(a, kind, attrs, rule), {kind}, attrs)
<1>. DEFINE e == [kind |-> kind, attrs |-> attrs, last |-> "", by |-> rule]
            t == pushScope(a, kind, attrs, rule)
<1>1. e \in ScopeEntry /\ e.kind = kind /\ e.attrs = attrs
  BY DEF ScopeEntry
<1>2. t = [a EXCEPT !.scope = Append(a.scope, e)]
  BY DEF pushScope
<1>. HIDE DEF e, t
<1>3. t.scope = Append(s.scope, e)
  BY <1>2
<1>. QED
  BY <1>1, <1>3 DEF Gives, t

LEMMA StatementScopes ==
  ASSUME NEW s \in Listener, NEW r, NEW w, NEW t \in Entered(s, r, w), Live(t),
         r \in {"ret_stmt", "call_stmt", "collector_call_stmt", "collector_http_stmt",
                "collector_pubsub_call", "collector_action_stmt"}
  PROVE  /\ TopKind(s) \in Blocks /\ Older(s.scope, t.scope)
         /\ TopKind(t) \in Blocks /\ Top(t.scope).last \in Statements
         /\ r \in {"call_stmt", "collector_call_stmt", "collector_pubsub_call"} => Top(t.scope).last = "call"
<1>1. t = Enter(s, r, w)
  BY DEF Entered
<1>2. PICK x \in {"other", "call", "action"} :
        /\ t = addToCurrentScope(s, x)
        /\ r \in {"call_stmt", "collector_call_stmt", "collector_pubsub_call"} => x = "call"
  BY <1>1 DEF Enter, EnterRet_stmt, EnterCall_stmt, EnterCollector_call_stmt,
     EnterCollector_http_stmt, EnterCollector_pubsub_call, EnterCollector_action_stmt
<1>3. x \in Statements
  BY DEF Statements
<1>. QED
  BY <1>2, <1>3, AddedStatement

LEMMA BlockScopes ==
  ASSUME NEW s \in Listener, NEW r, NEW w, NEW t \in Entered(s, r, w), Live(t),
         r \in {"if_stmt", "else_stmt", "for_stmt", "group_stmt", "one_of_stmt", "one_of_cases"}
  PROVE  Older(s.scope, t.scope) /\ t.scope[Len(s.scope) + 1].kind \in KindsBy(r)
<1>1. t = Enter(s, r, w)
  BY DEF Entered
<1>2. CASE r # "one_of_cases"
  <2>1. PICK kind \in KindsBy(r) : t = EnterBlock(s, kind, r)
    <3>1. CASE r = "for_stmt"
      <4>. DEFINE kind == IF HasAny(w, {"UNTIL", "WHILE"}) THEN "Loop"
                          ELSE IF Has(w, "FOR_EACH") THEN "Foreach" ELSE "Group"
      <4>1. kind \in {"Loop", "Foreach", "Group"}
        OBVIOUS
      <4>2. t = EnterBlock(s, kind, "for_stmt")
        BY <1>1, <3>1 DEF Enter, EnterFor_stmt
      <4>. HIDE DEF kind
      <4>3. kind \in KindsBy(r)
        BY <3>1, <4>1 DEF KindsBy
      <4>. QED
        BY <3>1, <4>2, <4>3
    <3>2. CASE r # "for_stmt"
      BY <1>1, <1>2, <3>2 DEF Enter, EnterIf_stmt, EnterElse_stmt, EnterGroup_stmt, EnterOne_of_stmt, KindsBy
    <3>. QED
      BY <3>1, <3>2
  <2>2. kind \in Blocks \cup {"Alt"} /\ r \in Scopers
    BY <1>2 DEF KindsBy, Blocks, Scopers
  <2>. QED
    BY <2>1, <2>2, BlockGives
<1>3. CASE r = "one_of_cases"
  <2>1. t = pushScope(s, "Choice", FALSE, "one_of_cases")
    <3>1. ~Live(Panic(s, "EnterOne_of_cases"))
      BY PanicIsDead
    <3>. QED
      BY <1>1, <1>3, <3>1 DEF Enter, EnterOne_of_cases
  <2>3. "Choice" \in Blocks /\ "one_of_cases" \in Scopers /\ KindsBy("one_of_cases") = {"Choice"}
    BY DEF Blocks, Scopers, KindsBy
  <2>4. Older(s.scope, t.scope) /\ t.scope[Len(s.scope) + 1].kind = "Choice"
    <3>1. Gives(s, t, {"Choice"}, FALSE)
      BY <2>1, <2>3, PushGives
    <3>2. Older(s.scope, t.scope) /\ t.scope[Len(s.scope) + 1].kind \in {"Choice"}
      BY <3>1, GivesOlder
    <3>. QED
      BY <3>2
  <2>. QED
    BY <1>3, <2>3, <2>4
<1>. QED
  BY <1>2, <1>3

\* Those that only look at the scope.
LEMMA LookingScopes ==
  ASSUME NEW s \in Listener, NEW r, NEW w, NEW t \in Entered(s, r, w), Live(t),
         r \in {"annotation", "annotation_value", "call_arg", "doc_string"}
  PROVE  /\ t.scope = s.scope
         /\ r = "annotation" => TopKind(s) \in Annotated
         /\ r = "doc_string" => ~t.pendingDocString
<1>1. t = Enter(s, r, w)
  BY DEF Entered
<1>2. \A u \in Listener : ~Live(Panic(u, "peekAttrs")) /\ ~Live(Panic(u, "EnterAnnotation"))
         /\ ~Live(Panic(u, "lastStatement")) /\ ~Live(Panic(u, "EnterCall_arg"))
         /\ ~Live(Panic(u, "EnterDoc_string"))
  BY PanicIsDead
<1>3. CASE r \in {"annotation", "annotation_value"}
  BY <1>1, <1>2, <1>3 DEF Enter, EnterAnnotation, EnterAnnotation_value, peekAttrs
<1>4. CASE r = "call_arg"
  BY <1>1, <1>2, <1>4 DEF Enter, EnterCall_arg, lastStatement
<1>5. CASE r = "doc_string"
  <2>. DEFINE taken == [s EXCEPT !.pendingDocString = FALSE]
  <2>1. taken \in Listener /\ taken.scope = s.scope /\ ~taken.pendingDocString
    BY DEF Listener
  <2>2. t = IF s.pendingDocString
              THEN DocStringOf(taken, lastStatement(taken, {"text", "action"}, "EnterDoc_string"), "EnterDoc_string")
              ELSE peekAttrs(s)
    BY <1>1, <1>5 DEF Enter, EnterDoc_string
  <2>. HIDE DEF taken
  <2>3. CASE s.pendingDocString
    BY <1>2, <1>5, <2>1, <2>2, <2>3 DEF DocStringOf, lastStatement
  <2>4. CASE ~s.pendingDocString
    BY <1>2, <1>5, <2>2, <2>4 DEF peekAttrs
  <2>. QED
    BY <2>3, <2>4
<1>. QED
  BY <1>3, <1>4, <1>5

LEMMA TextScopes ==
  ASSUME NEW s \in Listener, NEW w, NEW t \in Entered(s, "text_stmt", w), Live(t)
  PROVE  /\ Older(s.scope, t.scope)
         /\ t.pendingDocString => Has(w, "doc_string") /\ Documented(t)
<1>. DEFINE pending == [s EXCEPT !.pendingDocString = TRUE]
            add == addToCurrentScope(pending, "text")
            added == IF TopKind(s) \in Blocks /\ Top(s.scope).last = "text" THEN pending ELSE add
<1>1. t = IF Has(w, "doc_string") THEN DocStringOf(pending, added, "EnterText_stmt")
          ELSE [addToCurrentScope(s, "action") EXCEPT !.pendingDocString = FALSE]
  BY DEF Entered, Enter, EnterText_stmt
<1>2. pending \in Listener /\ pending.scope = s.scope /\ pending.endpoint = s.endpoint /\ Live(s) = Live(pending)
  BY DEF Listener, Live
<1>3. TopKind(pending) = TopKind(s) /\ Top(pending.scope) = Top(s.scope)
  BY <1>2 DEF TopKind
<1>4. ~Live(Panic(pending, "EnterText_stmt"))
  BY <1>2, PanicIsDead
<1>5. "text" \in Statements /\ "action" \in Statements
  BY DEF Statements
<1>6. Live(add) => /\ Older(pending.scope, add.scope) /\ TopKind(pending) \in Blocks
                   /\ Top(add.scope).last = "text" /\ TopKind(add) = TopKind(pending)
  BY <1>2, <1>5, AddedStatement
<1>7. add.endpoint = pending.endpoint
  <2>1. Touches(pending, add, {"panic", "scope"})
    BY HelpersTouch, TouchesNothing
  <2>. QED
    BY <1>2, <2>1 DEF Touches, Listener
<1>. HIDE DEF add, pending
<1>8. CASE Has(w, "doc_string")
  <2>1. t = DocStringOf(pending, added, "EnterText_stmt")
    BY <1>1, <1>8
  <2>. HIDE DEF added
  <2>2. pending.endpoint = "rest" => TopKind(pending) = "Endpoint"
    BY <1>4, <2>1 DEF DocStringOf
  <2>3. CASE pending.endpoint = "rest" /\ Top(pending.scope).last = ""
    <3>1. t = pending
      BY <2>1, <2>2, <2>3 DEF DocStringOf
    <3>. QED
      BY <1>2, <1>8, <2>2, <2>3, <3>1, SameIsOlder DEF Documented
  <2>4. CASE ~(pending.endpoint = "rest" /\ Top(pending.scope).last = "")
    <3>1. t = added
      BY <2>1, <2>2, <2>4 DEF DocStringOf
    <3>2. CASE TopKind(s) \in Blocks /\ Top(s.scope).last = "text"
      <4>1. t = pending
        BY <3>1, <3>2 DEF added
      <4>. QED
        BY <1>2, <1>3, <1>8, <2>2, <3>2, <4>1, SameIsOlder DEF Documented
    <3>3. CASE ~(TopKind(s) \in Blocks /\ Top(s.scope).last = "text")
      <4>1. t = add
        BY <3>1, <3>3 DEF added
      <4>2. Older(s.scope, t.scope)
        BY <1>2, <1>6, <4>1
      <4>3. Documented(t)
        BY <1>6, <1>7, <2>2, <4>1 DEF Documented
      <4>. QED
        BY <1>8, <4>2, <4>3
    <3>. QED
      BY <3>2, <3>3
  <2>. QED
    BY <2>3, <2>4
<1>9. CASE ~Has(w, "doc_string")
  <2>. DEFINE a == addToCurrentScope(s, "action")
  <2>1. t = [a EXCEPT !.pendingDocString = FALSE]
    BY <1>1, <1>9
  <2>2. a \in Listener
    BY <1>5, addToCurrentScopeStays DEF Stays
  <2>. HIDE DEF a
  <2>3. Live(a) /\ t.scope = a.scope /\ ~t.pendingDocString
    BY <2>1, <2>2 DEF Live, Listener
  <2>4. Older(s.scope, a.scope)
    BY <1>5, <2>3, AddedStatement DEF a
  <2>. QED
    BY <2>3, <2>4
<1>. QED
  BY <1>8, <1>9

LEMMA ScopeInDomain ==
  ASSUME NEW s \in Listener, NEW a, NEW X, Touches(s, a, X), "scope" \notin X
  PROVE  "scope" \in DOMAIN a /\ a.scope = s.scope
  BY DEF Touches, Listener

LEMMA ScopersAll ==
  /\ {"table", "union", "field_type", "alias", "app_decl", "method_def", "simple_endpoint", "event",
      "subscribe", "collector"} \subseteq Scopers
  /\ {"Application", "Type", "Endpoint"} = Annotated
  BY DEF Scopers, Annotated

LEMMA GivesOpens ==
  ASSUME NEW s, NEW t, NEW r, NEW w, NEW kind, NEW attrs \in BOOLEAN,
         Gives(s, t, {kind}, attrs), kind \in KindsBy(r), Scopes(r, w),
         r \in {"app_decl", "alias", "field_type"} => attrs,
         r = "union" /\ Has(w, "annotation") => attrs
  PROVE  Opens(s, t, r, w)
<1>1. Gives(s, t, KindsBy(r), attrs)
  BY DEF Gives
<1>. QED
  BY <1>1 DEF Opens

LEMMA TypeScopes ==
  ASSUME NEW s \in Listener, NEW w
  PROVE  /\ Live(EnterField_type(s, w)) => Opens(s, EnterField_type(s, w), "field_type", w)
         /\ Live(EnterAlias(s, w)) => Opens(s, EnterAlias(s, w), "alias", w)
         /\ Live(EnterTable(s, w)) => Opens(s, EnterTable(s, w), "table", w)
         /\ Live(EnterUnion(s, w)) => Opens(s, EnterUnion(s, w), "union", w)
         /\ Opens(s, EnterApp_decl(s, w), "app_decl", w)
<1>. USE ScopersAll
<1>0. /\ Scopes("field_type", w) <=> Has(w, "annotations")
      /\ Scopes("alias", w) <=> Has(w, "annotation")
      /\ Scopes("app_decl", w) <=> Has(w, "annotation")
      /\ Scopes("table", w) /\ Scopes("union", w)
  BY ScopedForDomain DEF Scopes, Scoping
<1>9. /\ \A r \in {"field_type", "alias", "table", "union"} : "Type" \in KindsBy(r)
      /\ "Application" \in KindsBy("app_decl")
  BY DEF KindsBy
<1>8. TRUE \in BOOLEAN /\ FALSE \in BOOLEAN
  OBVIOUS
<1>1. Live(EnterField_type(s, w)) => Opens(s, EnterField_type(s, w), "field_type", w)
  <2>. DEFINE a == [CurrentType(s, "EnterField_type") EXCEPT
              !.field.attrs = HasAny(w, {"attribs_or_modifiers", "annotations"})]
  <2>1. EnterField_type(s, w) = IF Has(w, "annotations") THEN pushScope(a, "Type", TRUE, "field_type") ELSE a
    BY DEF EnterField_type
  <2>2. Touches(s, CurrentType(s, "EnterField_type"), {"panic", "field"})
    BY HelpersTouch, TouchesNothing
  <2>3. Touches(s, a, {"panic", "field"})
    BY <2>2 DEF Touches
  <2>. HIDE DEF a
  <2>4. "scope" \in DOMAIN a /\ a.scope = s.scope
    BY <2>3, ScopeInDomain
  <2>5. Gives(s, pushScope(a, "Type", TRUE, "field_type"), {"Type"}, TRUE)
    BY <2>4, <1>8, PushesLast
  <2>6. CASE Has(w, "annotations")
    <3>1. Opens(s, pushScope(a, "Type", TRUE, "field_type"), "field_type", w)
      BY <1>0, <1>9, <1>8, <2>5, <2>6, GivesOpens
    <3>. QED
      BY <2>1, <2>6, <3>1
  <2>7. CASE ~Has(w, "annotations")
    BY <1>0, <2>1, <2>4, <2>7 DEF Opens
  <2>. QED
    BY <2>6, <2>7
<1>2. ASSUME Live(EnterAlias(s, w)) PROVE Opens(s, EnterAlias(s, w), "alias", w)
  <2>. DEFINE z == [s EXCEPT !.field = NoFields]
              a == AddField(PushType(z, "empty"), "EnterAlias")
              b == [a EXCEPT !.field.attrs = HasAny(w, {"attribs_or_modifiers", "annotation"})]
              X == {"field", "panic", "types", "typemap"}
  <2>0. ~Live(Panic(s, "EnterAlias"))
    BY PanicIsDead
  <2>1. EnterAlias(s, w) = IF Has(w, "annotation") THEN pushScope(b, "Type", TRUE, "alias") ELSE b
    BY <1>2, <2>0 DEF EnterAlias
  <2>2. Touches(s, z, X)
    BY DEF Touches
  <2>3. Touches(s, PushType(z, "empty"), X)
    BY <2>2 DEF Touches, PushType
  <2>4. Touches(s, a, X)
    BY <2>3, HelpersTouch
  <2>5. Touches(s, b, X)
    BY <2>4 DEF Touches
  <2>. HIDE DEF b
  <2>6. "scope" \in DOMAIN b /\ b.scope = s.scope
    BY <2>5, ScopeInDomain
  <2>7. Gives(s, pushScope(b, "Type", TRUE, "alias"), {"Type"}, TRUE)
    BY <2>6, <1>8, PushesLast
  <2>8. CASE Has(w, "annotation")
    <3>1. Opens(s, pushScope(b, "Type", TRUE, "alias"), "alias", w)
      BY <1>0, <1>9, <1>8, <2>7, <2>8, GivesOpens
    <3>. QED
      BY <2>1, <2>8, <3>1
  <2>9. CASE ~Has(w, "annotation")
    BY <1>0, <2>1, <2>6, <2>9 DEF Opens
  <2>. QED
    BY <2>8, <2>9
<1>3. ASSUME NEW kind PROVE "scope" \in DOMAIN PushType(s, kind) /\ PushType(s, kind).scope = s.scope
  <2>1. Touches(s, PushType(s, kind), {"types", "typemap"})
    BY DEF Touches, PushType
  <2>. QED
    BY <2>1, ScopeInDomain
<1>4. ASSUME Live(EnterTable(s, w)) PROVE Opens(s, EnterTable(s, w), "table", w)
  <2>. DEFINE kind == IF Has(w, "TABLE") THEN "relation" ELSE "tuple"
  <2>0. ~Live(Panic(s, "EnterTable"))
    BY PanicIsDead
  <2>1. EnterTable(s, w) = pushScope(PushType(s, kind), "Type", FALSE, "table")
    BY <1>4, <2>0 DEF EnterTable
  <2>. HIDE DEF kind
  <2>2. Gives(s, EnterTable(s, w), {"Type"}, FALSE)
    BY <2>1, <1>3, <1>8, PushesLast
  <2>. QED
    BY <2>2, <1>0, <1>9, <1>8, GivesOpens
<1>5. ASSUME Live(EnterUnion(s, w)) PROVE Opens(s, EnterUnion(s, w), "union", w)
  <2>. DEFINE attrs == HasAny(w, {"attribs_or_modifiers", "annotation"})
  <2>0. ~Live(Panic(s, "EnterUnion"))
    BY PanicIsDead
  <2>1. EnterUnion(s, w) = pushScope(PushType(s, "oneof"), "Type", attrs, "union")
    BY <1>5, <2>0 DEF EnterUnion
  <2>3. attrs \in BOOLEAN /\ (Has(w, "annotation") => attrs)
    BY DEF HasAny
  <2>. HIDE DEF attrs
  <2>2. Gives(s, EnterUnion(s, w), {"Type"}, attrs)
    BY <2>1, <2>3, <1>3, PushesLast
  <2>. QED
    BY <2>2, <2>3, <1>0, <1>9, GivesOpens
<1>6. Opens(s, EnterApp_decl(s, w), "app_decl", w)
  <2>. DEFINE e == [types |-> currentApp(s).types \/ HasAny(w, {"table", "alias", "enum"}),
                endpoints |-> \/ currentApp(s).endpoints
                             \/ HasAny(w, {"simple_endpoint", "rest_endpoint", "event", "subscribe",
                                           "collector"}),
                wrapped |-> IF currentApp(s).wrapped = "no" /\ Has(w, "facade") THEN "made"
                            ELSE currentApp(s).wrapped]
              a == [s EXCEPT !.apps[s.app] = e, !.rest_attrs = 0, !.typemap = NewMap(s)]
  <2>1. EnterApp_decl(s, w) = IF Has(w, "annotation") THEN pushScope(a, "Application", TRUE, "app_decl") ELSE a
    BY DEF EnterApp_decl
  <2>. HIDE DEF e
  <2>2. "scope" \in DOMAIN a /\ a.scope = s.scope
    BY DEF Listener
  <2>. HIDE DEF a
  <2>3. Gives(s, pushScope(a, "Application", TRUE, "app_decl"), {"Application"}, TRUE)
    BY <2>2, <1>8, PushesLast
  <2>4. CASE Has(w, "annotation")
    <3>1. Opens(s, pushScope(a, "Application", TRUE, "app_decl"), "app_decl", w)
      BY <1>0, <1>9, <1>8, <2>3, <2>4, GivesOpens
    <3>. QED
      BY <2>1, <2>4, <3>1
  <2>5. CASE ~Has(w, "annotation")
    BY <1>0, <2>1, <2>2, <2>5 DEF Opens
  <2>. QED
    BY <2>4, <2>5
<1>. QED
  BY <1>1, <1>2, <1>4, <1>5, <1>6

LEMMA EndpointScopes ==
  ASSUME NEW s \in Listener, NEW w
  PROVE  /\ Opens(s, EnterMethod_def(s), "method_def", w)
         /\ ~(Has(w, "WHATEVER") /\ Has(w, "statements"))
              => Opens(s, EnterSimple_endpoint(s, w), "simple_endpoint", w)
         /\ Opens(s, EnterEvent(s, w), "event", w)
         /\ \A t \in EnterSubscribe(s, w) : Live(t) => Opens(s, t, "subscribe", w)
         /\ Opens(s, EnterCollector(s, w), "collector", w)
<1>. USE ScopersAll
<1>. DEFINE a(x) == [s EXCEPT !.endpoint = x]
            attrs == Has(w, "attribs_or_modifiers")
<1>0. /\ Scopes("method_def", w)
      /\ \A r \in {"simple_endpoint", "event", "subscribe"} : Scopes(r, w) <=> Has(w, "statements")
      /\ Scopes("collector", w) <=> Has(w, "collector_stmts")
  BY ScopedForDomain DEF Scopes, Scoping
<1>9. \A r \in {"method_def", "simple_endpoint", "event", "subscribe", "collector"} :
        /\ "Endpoint" \in KindsBy(r)
        /\ \A u : \A b \in BOOLEAN : Gives(s, u, {"Endpoint"}, b) /\ Scopes(r, w) => Opens(s, u, r, w)
  <2>1. \A r \in {"method_def", "simple_endpoint", "event", "subscribe", "collector"} : "Endpoint" \in KindsBy(r)
    BY DEF KindsBy
  <2>. QED
    BY <2>1, GivesOpens
<1>8. TRUE \in BOOLEAN /\ attrs \in BOOLEAN
  BY DEF Has
<1>7. \A x : /\ "scope" \in DOMAIN a(x) /\ a(x).scope = s.scope
             /\ DOMAIN a(x) = DOMAIN s
  BY DEF Listener
<1>6. "scope" \in DOMAIN s /\ "panic" \in DOMAIN s /\ "apps" \in DOMAIN s
  BY DEF Listener
<1>1. Opens(s, EnterMethod_def(s), "method_def", w)
  <2>. DEFINE t == pushScope(a("rest"), "Endpoint", TRUE, "method_def")
  <2>1. EnterMethod_def(s) = t
    BY DEF EnterMethod_def
  <2>2. Gives(s, t, {"Endpoint"}, TRUE)
    BY <1>7, <1>8, PushesLast
  <2>. HIDE DEF t, a
  <2>. QED
    BY <1>0, <1>8, <1>9, <2>1, <2>2
<1>2. ASSUME ~(Has(w, "WHATEVER") /\ Has(w, "statements"))
      PROVE  Opens(s, EnterSimple_endpoint(s, w), "simple_endpoint", w)
  <2>. DEFINE t == pushScope(a("plain"), "Endpoint", TRUE, "simple_endpoint")
  <2>1. Gives(s, t, {"Endpoint"}, TRUE)
    BY <1>7, <1>8, PushesLast
  <2>2. CASE Has(w, "statements")
    <3>1. EnterSimple_endpoint(s, w) = t
      BY <1>2, <2>2 DEF EnterSimple_endpoint
    <3>. HIDE DEF t, a
    <3>. QED
      BY <1>0, <1>8, <1>9, <2>1, <2>2, <3>1
  <2>3. CASE ~Has(w, "statements")
    <3>1. EnterSimple_endpoint(s, w) = s \/ EnterSimple_endpoint(s, w) = a("plain")
      BY <2>3 DEF EnterSimple_endpoint
    <3>. HIDE DEF t, a
    <3>. QED
      BY <1>0, <1>7, <2>3, <3>1 DEF Opens
  <2>. QED
    BY <2>2, <2>3
<1>3. Opens(s, EnterEvent(s, w), "event", w)
  <2>. DEFINE t == pushScope(a("plain"), "Endpoint", attrs, "event")
  <2>1. Gives(s, t, {"Endpoint"}, attrs)
    BY <1>7, <1>8, PushesLast
  <2>2. EnterEvent(s, w) = IF Has(w, "statements") THEN t ELSE a("plain")
    BY DEF EnterEvent
  <2>. HIDE DEF t, a, attrs
  <2>. QED
    BY <1>0, <1>7, <1>8, <1>9, <2>1, <2>2 DEF Opens
<1>4. ASSUME NEW t \in EnterSubscribe(s, w), Live(t) PROVE Opens(s, t, "subscribe", w)
  <2>. DEFINE p == pushScope(a("plain"), "Endpoint", attrs, "subscribe")
              b == IF Has(w, "statements") THEN p ELSE a("plain")
  <2>1. Gives(s, p, {"Endpoint"}, attrs) /\ DOMAIN p = DOMAIN s
    <3>1. DOMAIN p = DOMAIN s
      BY <1>7 DEF pushScope
    <3>. QED
      BY <3>1, <1>7, <1>8, PushesLast
  <2>2. t \in {IF s.apps[i].endpoints THEN b ELSE Panic(b, "EnterSubscribe") : i \in 1..Len(s.apps)}
              \cup {[b EXCEPT !.apps = Append(@, [NewApp EXCEPT !.endpoints = TRUE])]}
    BY <1>4 DEF EnterSubscribe
  <2>3. DOMAIN b = DOMAIN s
    BY <1>7, <2>1
  <2>4. Has(w, "statements") => b = p
    OBVIOUS
  <2>5. ~Has(w, "statements") => b.scope = s.scope
    BY <1>7
  <2>. HIDE DEF b, p, a, attrs
  <2>6. t.scope = b.scope
    BY <1>6, <2>2, <2>3 DEF Panic
  <2>7. CASE Has(w, "statements")
    <3>1. Gives(s, t, {"Endpoint"}, attrs)
      BY <2>1, <2>4, <2>6, <2>7 DEF Gives
    <3>. QED
      BY <1>0, <1>8, <1>9, <2>7, <3>1
  <2>8. CASE ~Has(w, "statements")
    BY <1>0, <2>5, <2>6, <2>8 DEF Opens
  <2>. QED
    BY <2>7, <2>8
<1>5. Opens(s, EnterCollector(s, w), "collector", w)
  <2>. DEFINE t == pushScope(s, "Endpoint", TRUE, "collector")
  <2>1. Gives(s, t, {"Endpoint"}, TRUE)
    BY <1>6, <1>8, PushesLast
  <2>2. EnterCollector(s, w) = IF Has(w, "collector_stmts") THEN t ELSE s
    BY DEF EnterCollector
  <2>. HIDE DEF t, a, attrs
  <2>. QED
    BY <1>0, <1>8, <1>9, <2>1, <2>2 DEF Opens
<1>. QED
  BY <1>1, <1>2, <1>3, <1>4, <1>5

\* The attributes of a table.
LEMMA TableScopes ==
  ASSUME NEW s \in Listener, NEW r, NEW w, NEW t \in Entered(s, r, w), r \in {"table_stmts", "table_def"}
  PROVE  /\ Older(s.scope, t.scope)
         /\ r = "table_stmts" /\ Has(w, "annotation") /\ s.scope # <<>> => t.scope[Len(s.scope)].attrs
<1>1. t = Enter(s, r, w)
  BY DEF Entered
<1>2. /\ "scope" \in DOMAIN s /\ Older(s.scope, TypeAttrs(s).scope)
      /\ s.scope # <<>> => TypeAttrs(s).scope[Len(s.scope)].attrs
      /\ DOMAIN TypeAttrs(s) = DOMAIN s /\ Older(s.scope, s.scope)
  BY AttrsGiven, SameIsOlder DEF Listener
<1>3. CASE r = "table_stmts"
  <2>. DEFINE b == [TypeAttrs(s) EXCEPT !.types[Len(s.types)].noted = TRUE]
              a == IF Has(w, "annotation") THEN b ELSE s
  <2>1. t = IF Has(w, "field") THEN a ELSE EmptyType(a)
    BY <1>1, <1>3 DEF Enter, EnterTable_stmts
  <2>2. b.scope = TypeAttrs(s).scope /\ DOMAIN b = DOMAIN s
    BY <1>2
  <2>. HIDE DEF b
  <2>3. "scope" \in DOMAIN a
    BY <1>2, <2>2
  <2>4. t.scope = a.scope
    BY <2>1, <2>3 DEF EmptyType
  <2>. QED
    BY <1>2, <2>2, <2>4
<1>4. CASE r = "table_def"
  <2>. DEFINE a == IF Has(w, "attribs_or_modifiers") THEN TypeAttrs(s) ELSE s
  <2>1. t = IF Has(w, "WHATEVER") THEN EmptyType(a) ELSE a
    BY <1>1, <1>4 DEF Enter, EnterTable_def
  <2>2. "scope" \in DOMAIN a
    BY <1>2
  <2>3. t.scope = a.scope
    BY <2>1, <2>2 DEF EmptyType
  <2>. QED
    BY <1>2, <1>4, <2>3
<1>. QED
  BY <1>3, <1>4

\* What an Enter callback does to the scope.
LEMMA EnterScopes ==
  ASSUME NEW s \in Listener, NEW r, NEW w, NEW t \in Entered(s, r, w), Live(t),
         r = "simple_endpoint" => ~(Has(w, "WHATEVER") /\ Has(w, "statements"))
  PROVE  /\ Older(s.scope, t.scope)
         /\ Scopes(r, w) => NewEntry(t.scope[Len(s.scope) + 1], r, w)
         /\ r = "table_stmts" /\ Has(w, "annotation") /\ s.scope # <<>> => t.scope[Len(s.scope)].attrs
         /\ r = "annotation" => TopKind(s) \in Annotated /\ t.scope = s.scope
<1>. DEFINE G1 == {"ret_stmt", "call_stmt", "collector_call_stmt", "collector_http_stmt",
                   "collector_pubsub_call", "collector_action_stmt"}
            G2 == {"if_stmt", "else_stmt", "for_stmt", "group_stmt", "one_of_stmt", "one_of_cases"}
            G3 == {"annotation", "annotation_value", "call_arg", "doc_string"}
            G4 == {"field_type", "alias", "table", "union", "app_decl", "method_def",
                   "simple_endpoint", "event", "subscribe", "collector"}
<1>0. /\ r \in G2 \cup G4 \/ ~Scopes(r, w)
      /\ G4 \cap (G1 \cup G2 \cup G3 \cup {"text_stmt", "table_stmts", "table_def"}) = {}
  BY ScopedForDomain DEF Scopes, Scoping
<1>1. CASE r \in G1
  BY <1>0, <1>1, StatementScopes
<1>2. CASE r \in G2
  <2>1. /\ Older(s.scope, t.scope) /\ t.scope[Len(s.scope) + 1].kind \in KindsBy(r)
    BY <1>2, BlockScopes
  <2>. QED
    BY <1>2, <2>1 DEF NewEntry
<1>3. CASE r \in G3
  BY <1>0, <1>3, LookingScopes, SameIsOlder
<1>4. CASE r = "text_stmt"
  BY <1>0, <1>4, TextScopes
<1>5. CASE r \in {"table_stmts", "table_def"}
  BY <1>0, <1>5, TableScopes
<1>6. CASE r \in G4
  <2>1. Opens(s, t, r, w)
    <3>1. CASE r = "subscribe"
      BY <3>1, EndpointScopes DEF Entered
    <3>2. CASE r \in {"field_type", "alias", "table", "union", "app_decl"}
      BY <3>2, TypeScopes DEF Entered, Enter
    <3>3. CASE r \in {"method_def", "simple_endpoint", "event", "collector"}
      BY <3>3, EndpointScopes DEF Entered, Enter
    <3>. QED
      BY <1>6, <3>1, <3>2, <3>3
  <2>2. CASE Scopes(r, w)
    <3>1. PICK attrs \in BOOLEAN : /\ Gives(s, t, KindsBy(r), attrs)
                                   /\ r \in {"app_decl", "alias", "field_type"} => attrs
                                   /\ r = "union" /\ Has(w, "annotation") => attrs
      BY <2>1, <2>2 DEF Opens
    <3>2. /\ Older(s.scope, t.scope)
          /\ t.scope[Len(s.scope) + 1].kind \in KindsBy(r)
          /\ t.scope[Len(s.scope) + 1].attrs = attrs
      BY <3>1, GivesOlder
    <3>. QED
      BY <1>6, <3>1, <3>2 DEF NewEntry
  <2>3. CASE ~Scopes(r, w)
    BY <1>6, <2>1, <2>3, SameIsOlder DEF Opens
  <2>. QED
    BY <2>2, <2>3
<1>7. CASE r \notin G1 \cup G2 \cup G3 \cup G4 \cup {"text_stmt", "table_stmts", "table_def"}
  <2>1. "scope" \notin EnterTouches(r)
    BY <1>7 DEF EnterTouches
  <2>2. t.scope = s.scope
    BY <2>1, EnteredTouches, ScopeInDomain
  <2>. QED
    BY <1>0, <1>7, <2>2, SameIsOlder
<1>. QED
  BY <1>1, <1>2, <1>3, <1>4, <1>5, <1>6, <1>7

LEMMA PopShrinks ==
  ASSUME NEW s \in Listener, NEW a, "scope" \in DOMAIN a, a.scope = s.scope
  PROVE  Shrinks(s, popScope(a)) /\ Shrinks(s, a)
<1>1. CASE a.scope = <<>>
  BY <1>1 DEF popScope, Panic, Shrinks
<1>2. CASE a.scope # <<>>
  <2>. DEFINE p == Pop(a.scope)
  <2>1. popScope(a) = [a EXCEPT !.scope = p]
    BY <1>2 DEF popScope
  <2>2. p = Pop(s.scope)
    OBVIOUS
  <2>. HIDE DEF p
  <2>. QED
    BY <2>1, <2>2 DEF Shrinks
<1>. QED
  BY <1>1, <1>2

\* A callback that closes a scope pops it, or nothing.
LEMMA ClosingScopes ==
  ASSUME NEW s \in Listener, NEW w
  PROVE  /\ Shrinks(s, ExitField_type(s, w)) /\ Shrinks(s, ExitTable(s)) /\ Shrinks(s, ExitUnion(s, w))
         /\ Shrinks(s, ExitAlias(s, w)) /\ Shrinks(s, ExitApp_decl(s, w)) /\ Shrinks(s, ExitMethod_def(s))
         /\ Shrinks(s, ExitEndpoint(s, w)) /\ Shrinks(s, ExitCollector(s, w)) /\ Shrinks(s, ExitBlock(s))
<1>0. Shrinks(s, s) /\ Shrinks(s, popScope(s))
  <2>1. "scope" \in DOMAIN s
    BY DEF Listener
  <2>. QED
    BY <2>1, PopShrinks
<1>1. \A a, x : Shrinks(s, a) => Shrinks(s, [a EXCEPT !.endpoint = x])
  BY DEF Shrinks
<1>2. \A a, x : /\ Shrinks(s, a) => /\ Shrinks(s, [a EXCEPT !.types = x])
                                    /\ Shrinks(s, [a EXCEPT !.field = x])
                                    /\ Shrinks(s, [a EXCEPT !.typemap = x])
  BY DEF Shrinks
<1>3. Shrinks(s, ExitField_type(s, w))
  <2>. DEFINE a == MakeConstraint(s, HasAny(w, {"size_spec", "array_size"}))
  <2>1. Touches(s, a, {"panic"})
    BY HelpersTouch, TouchesNothing
  <2>2. ExitField_type(s, w) = IF Has(w, "annotations") THEN popScope(a) ELSE a
    BY DEF ExitField_type
  <2>. HIDE DEF a
  <2>. QED
    BY <2>1, <2>2, ScopeInDomain, PopShrinks
<1>4. ASSUME NEW b PROVE Shrinks(s, popScope(applyAnnotations(s, b)))
  <2>1. Touches(s, applyAnnotations(s, b), {"panic"})
    BY HelpersTouch, TouchesNothing
  <2>. QED
    BY <2>1, ScopeInDomain, PopShrinks
<1>5. \A a : Shrinks(s, a) => Shrinks(s, PopType(a))
  BY DEF PopType, Shrinks
<1>6. Shrinks(s, ExitTable(s)) /\ Shrinks(s, ExitUnion(s, w))
  BY <1>4, <1>5 DEF ExitTable, ExitUnion
<1>7. Shrinks(s, ExitAlias(s, w))
  <2>. DEFINE z == [s EXCEPT !.types = Pop(@)]
              a == FreshTypemap(z)
  <2>1. Touches(s, z, {"types", "field", "typemap"})
    BY DEF Touches
  <2>2. Touches(s, a, {"types", "field", "typemap"})
    BY <2>1 DEF Touches, FreshTypemap
  <2>3. ExitAlias(s, w) = IF Has(w, "annotation") THEN popScope(a) ELSE a
    BY DEF ExitAlias
  <2>. HIDE DEF a
  <2>. QED
    BY <2>2, <2>3, ScopeInDomain, PopShrinks
<1>. QED
  BY <1>0, <1>1, <1>3, <1>6, <1>7
  DEF ExitApp_decl, ExitMethod_def, ExitEndpoint, ExitCollector, ExitBlock

\* What an Exit callback does to the scope.
LEMMA ExitScopes ==
  ASSUME NEW s \in Listener, NEW r, NEW w
  PROVE  LET t == Exit(s, r, w)
         IN  /\ r \notin Sets => t.scope \in {s.scope, Pop(s.scope)}
             /\ r \notin Closers \cup Sets => t.scope = s.scope
             /\ r \in Sets /\ Live(t) =>
                  \/ t.scope = s.scope
                  \/ \E e \in ScopeEntry :
                       /\ s.scope # <<>> /\ t.scope = Append(Pop(s.scope), e)
                       /\ e.kind = "Type" /\ e.by = "set_type" /\ e.attrs
<1>. DEFINE t == Exit(s, r, w)
<1>1. CASE r \in Closers
  <2>1. Shrinks(s, Exit(s, r, w))
    BY <1>1, ClosingScopes DEF Closers, Blocked, Exit
  <2>. QED
    BY <1>1, <2>1 DEF Shrinks, Closers, Blocked, Sets
<1>2. CASE r \in {"target", "subscriber", "statements", "collector_stmts"}
  <2>1. \A stmts, c : lastStatement(s, stmts, c).scope = s.scope
    BY DEF lastStatement, Panic, Listener
  <2>2. t.scope = s.scope
    BY <1>2, <2>1 DEF Exit, ExitTarget, ExitSubscriber, ExitStatements
  <2>. QED
    BY <1>2, <2>2 DEF Sets
<1>3. CASE r \in Sets
  <2>. DEFINE a == CurrentType(s, "exitSetOrSequence_type")
              p == popScope(a)
              e == [kind |-> "Type", attrs |-> TRUE, last |-> "", by |-> "set_type"]
              q == pushScope(p, "Type", TRUE, "set_type")
              b == IF s.field.attrs THEN q ELSE a
              c == MakeConstraint(b, Has(w, "size_spec"))
              x == IF Has(w, "set_of") /\ c.field.prim # "" THEN "nativeSet" ELSE ""
  <2>1. t = [c EXCEPT !.field.prim = x]
    BY <1>3 DEF Sets, Exit, exitSetOrSequence_type
  <2>2. Touches(s, a, {"panic"})
    BY HelpersTouch, TouchesNothing
  <2>3. a \in Listener /\ a.scope = s.scope
    <3>1. a.scope = s.scope
      BY <2>2, ScopeInDomain
    <3>2. a \in Listener
      BY CurrentTypeStays DEF Callbacks, Stays
    <3>. QED
      BY <3>1, <3>2
  <2>4. e \in ScopeEntry /\ e.kind = "Type" /\ e.by = "set_type" /\ e.attrs
    BY DEF ScopeEntry, Annotated, Scopers
  <2>5. q = [p EXCEPT !.scope = Append(p.scope, e)]
    BY DEF pushScope
  <2>. HIDE DEF a, e, x
  <2>6. /\ p.panic = "" => s.scope # <<>> /\ p.scope = Pop(s.scope)
        /\ "panic" \in DOMAIN p /\ "scope" \in DOMAIN p
    <3>1. CASE a.scope = <<>>
      BY <2>3, <3>1, PanicIsDead DEF popScope, Panic, Live, Listener
    <3>2. CASE a.scope # <<>>
      BY <2>3, <3>2 DEF popScope, Listener
    <3>. QED
      BY <3>1, <3>2
  <2>. HIDE DEF p
  <2>7. /\ q.panic = p.panic /\ q.scope = Append(p.scope, e)
        /\ "panic" \in DOMAIN q /\ "scope" \in DOMAIN q
    BY <2>5, <2>6
  <2>8. "panic" \in DOMAIN b /\ "scope" \in DOMAIN b /\ "panic" \in DOMAIN a
    BY <2>3, <2>7 DEF Listener
  <2>. HIDE DEF q
  <2>9. ASSUME Live(t)
        PROVE  \/ t.scope = s.scope
               \/ s.scope # <<>> /\ t.scope = Append(Pop(s.scope), e)
    <3>1. b.panic = "" /\ t.scope = b.scope
      <4>. HIDE DEF b
      <4>1. c = b \/ (Live(b) /\ c = [b EXCEPT !.panic = "makeConstraint"]) \/ (~Live(b) /\ c = b)
        BY DEF MakeConstraint, Panic
      <4>. HIDE DEF c
      <4>2. c.panic = ""
        <5>1. t.panic = c.panic
          BY <2>1, <2>8, <4>1
        <5>. QED
          BY <2>9, <5>1 DEF Live
      <4>3. c = b
        BY <2>8, <4>1, <4>2
      <4>. QED
        BY <2>1, <2>8, <4>2, <4>3
    <3>. QED
      BY <2>3, <2>6, <2>7, <3>1
  <2>. QED
    BY <1>3, <2>4, <2>9 DEF Sets
<1>4. CASE r \notin Closers \cup Sets \cup {"target", "subscriber", "statements", "collector_stmts"}
  <2>1. "scope" \notin ExitTouches(r)
    BY <1>4 DEF ExitTouches, Closers, Blocked, Sets
  <2>2. t.scope = s.scope
    BY <2>1, ExitedTouches, ScopeInDomain
  <2>. QED
    BY <1>4, <2>2
<1>. QED
  BY <1>1, <1>2, <1>3, <1>4

-----------------------------------------------------------------------------
\* The callbacks of calls and of the statements of collectors

\* Names and attributes leave the scope alone.
LEMMA NamesAreQuiet ==
  ASSUME NEW s \in Listener, NEW r \in Naming0 \cup Attributes, NEW w, NEW t \in Entered(s, r, w), Live(t)
  PROVE  t.scope = s.scope
<1>1. CASE r = "call_arg"
  BY <1>1, LookingScopes
<1>2. CASE r # "call_arg"
  <2>1. "scope" \notin EnterTouches(r)
    BY <1>2 DEF Naming0, Attributes, EnterTouches
  <2>. QED
    BY <2>1, EnteredTouches, ScopeInDomain
<1>. QED
  BY <1>1, <1>2

LEMMA SaysStill ==
  ASSUME NEW s, NEW t, t.scope = s.scope
  PROVE  \A X : Says(s, X) => Says(t, X)
  BY DEF Says, TopKind

LEMMA CollectorWords ==
  \A w \in Grammar["collector_stmts"] : HasAny(w, Collected)
<1>1. Grammar["collector_stmts"] = collector_stmts
  BY DEF Grammar
<1>2. SUFFICES ASSUME NEW w \in collector_stmts PROVE HasAny(w, Collected)
  BY <1>1
<1>3. PICK a \in Collected : w = <<a>> \o <<"attribs_or_modifiers">>
  <2>1. PICK v \in One(Collected), u \in {<<"attribs_or_modifiers">>} : w = v \o u
    BY <1>2 DEF collector_stmts, **, Collected
  <2>. QED
    BY <2>1 DEF One
<1>4. w[1] = a /\ Len(w) = 2
  BY <1>3
<1>. QED
  BY <1>3, <1>4 DEF HasAny, Has

LEMMA DocWords ==
  \A w \in Grammar["text_stmt"] : Has(w, "doc_string") => w = <<"doc_string">>
<1>1. Grammar["text_stmt"] = text_stmt
  BY DEF Grammar
<1>2. SUFFICES ASSUME NEW w \in text_stmt, Has(w, "doc_string") PROVE w = <<"doc_string">>
  BY <1>1
<1>3. CASE w \in One({"doc_string", "QSTRING", "WHATEVER"})
  BY <1>2, <1>3 DEF One, Has
<1>4. CASE w \in {<<"app_name">>} ** Opt("name_str")
  <2>1. w = <<"app_name">> \o <<>> \/ w = <<"app_name">> \o <<"name_str">>
    BY <1>4 DEF **, Opt
  <2>. QED
    BY <1>2, <2>1 DEF Has
<1>. QED
  BY <1>2, <1>3, <1>4 DEF text_stmt

-----------------------------------------------------------------------------
\* The callbacks that fail, and the names they fail by

LEMMA HelpersDie ==
  ASSUME NEW a, NEW P, Dies(a, P)
  PROVE  /\ \A c \in P : Dies(Panic(a, c), P)
         /\ \A x : /\ Dies([a EXCEPT !.scope = x], P) /\ Dies([a EXCEPT !.types = x], P)
                   /\ Dies([a EXCEPT !.typemap = x], P) /\ Dies([a EXCEPT !.field = x], P)
                   /\ Dies([a EXCEPT !.nativeSet = x], P) /\ Dies([a EXCEPT !.exprs = x], P)
                   /\ Dies([a EXCEPT !.rest_urlparams = x], P) /\ Dies([a EXCEPT !.endpoint = x], P)
                   /\ Dies([a EXCEPT !.pendingDocString = x], P) /\ Dies([a EXCEPT !.returns = x], P)
                   /\ Dies([a EXCEPT !.apps = x], P)
         /\ \A k, b, r : Dies(pushScope(a, k, b, r), P)
         /\ \A k : Dies(PushExpr(a, k), P)
<1>1. \A c \in P : Dies(Panic(a, c), P)
  BY DEF Dies, Panic
<1>2. \A x : /\ Dies([a EXCEPT !.scope = x], P) /\ Dies([a EXCEPT !.types = x], P)
             /\ Dies([a EXCEPT !.typemap = x], P) /\ Dies([a EXCEPT !.field = x], P)
             /\ Dies([a EXCEPT !.nativeSet = x], P) /\ Dies([a EXCEPT !.exprs = x], P)
             /\ Dies([a EXCEPT !.rest_urlparams = x], P) /\ Dies([a EXCEPT !.endpoint = x], P)
             /\ Dies([a EXCEPT !.pendingDocString = x], P) /\ Dies([a EXCEPT !.returns = x], P)
             /\ Dies([a EXCEPT !.apps = x], P)
  BY DEF Dies
<1>3. \A k, b, r : Dies(pushScope(a, k, b, r), P)
  BY DEF Dies, pushScope
<1>4. \A k : Dies(PushExpr(a, k), P)
  BY DEF Dies, PushExpr
<1>. QED
  BY <1>1, <1>2, <1>3, <1>4

LEMMA LookupsDie ==
  ASSUME NEW a, NEW P, Dies(a, P)
  PROVE  /\ "popScope" \in P => Dies(popScope(a), P)
         /\ "addToCurrentScope" \in P => \A x : Dies(addToCurrentScope(a, x), P)
         /\ "lastStatement" \in P => \A x : \A c \in P : Dies(lastStatement(a, x, c), P)
         /\ "peekAttrs" \in P => Dies(peekAttrs(a), P)
         /\ "makeConstraint" \in P => \A x : Dies(MakeConstraint(a, x), P)
         /\ "applyAnnotations" \in P => \A x : Dies(applyAnnotations(a, x), P)
         /\ \A c \in P : /\ Dies(CurrentType(a, c), P) /\ Dies(SomeField(a, c), P) /\ Dies(AddField(a, c), P)
                         /\ \A k : Dies(TopExpr(a, k, c), P)
                         /\ \A n : Dies(popExprs(a, n, c), P)
<1>1. "popScope" \in P => Dies(popScope(a), P)
  BY HelpersDie DEF popScope
<1>2. "addToCurrentScope" \in P => \A x : Dies(addToCurrentScope(a, x), P)
  BY HelpersDie DEF addToCurrentScope
<1>3. "lastStatement" \in P => \A x : \A c \in P : Dies(lastStatement(a, x, c), P)
  BY HelpersDie DEF lastStatement
<1>4. "peekAttrs" \in P => Dies(peekAttrs(a), P)
  BY HelpersDie DEF peekAttrs
<1>5. "makeConstraint" \in P => \A x : Dies(MakeConstraint(a, x), P)
  BY HelpersDie DEF MakeConstraint
<1>6. "applyAnnotations" \in P => \A x : Dies(applyAnnotations(a, x), P)
  BY HelpersDie DEF applyAnnotations
<1>7. ASSUME NEW c \in P
      PROVE  /\ Dies(CurrentType(a, c), P) /\ Dies(SomeField(a, c), P) /\ Dies(AddField(a, c), P)
             /\ \A k : Dies(TopExpr(a, k, c), P)
             /\ \A n : Dies(popExprs(a, n, c), P)
  BY HelpersDie DEF CurrentType, SomeField, AddField, TopExpr, popExprs
<1>. QED
  BY <1>1, <1>2, <1>3, <1>4, <1>5, <1>6, <1>7

\* Without a name to fail by, it runs.
LEMMA Lives == \A a, P : Dies(a, P) /\ P = {} => Live(a)
  BY DEF Dies, Live

LEMMA AliveDies ==
  ASSUME NEW s \in Listener, Live(s)
  PROVE  \A P : Dies(s, P)
  BY DEF Dies, Live, Listener

\* A callback that looks for the type of a field finds the field.
LEMMA FieldIsThere ==
  ASSUME NEW s \in Listener, Live(s), OnField(s), NEW w
  PROVE  /\ Live(EnterReference(s)) /\ Live(ExitReference(s)) /\ Live(EnterTypes(s, w))
         /\ Live(EnterUser_defined_type(s)) /\ Live(EnterField_type(s, w))
         /\ Live(ExitHttp_path_var_with_type(s, w)) /\ Live(ExitParam(s, w))
         /\ Dies(exitSetOrSequence_type(s, w), {"popScope", "makeConstraint"})
<1>1. \A c : CurrentType(s, c) = s /\ SomeField(s, c) = s
  BY DEF CurrentType, SomeField, OnField
<1>2. \A P : Dies(s, P)
  BY AliveDies
<1>3. Dies(EnterTypes(s, w), {}) /\ Dies(ExitParam(s, w), {})
  BY <1>1, <1>2, HelpersDie DEF EnterTypes, ExitParam
<1>4. Dies(EnterField_type(s, w), {})
  <2>. DEFINE a == [s EXCEPT !.field.attrs = HasAny(w, {"attribs_or_modifiers", "annotations"})]
  <2>1. Dies(a, {})
    BY <1>2, HelpersDie
  <2>2. EnterField_type(s, w) = IF Has(w, "annotations") THEN pushScope(a, "Type", TRUE, "field_type") ELSE a
    BY <1>1 DEF EnterField_type
  <2>. HIDE DEF a
  <2>3. Dies(pushScope(a, "Type", TRUE, "field_type"), {})
    BY <2>1, HelpersDie
  <2>. QED
    BY <2>1, <2>2, <2>3
<1>5. Dies(exitSetOrSequence_type(s, w), {"popScope", "makeConstraint"})
  <2>. DEFINE P == {"popScope", "makeConstraint"}
              p == popScope(s)
              b == IF s.field.attrs THEN pushScope(p, "Type", TRUE, "set_type") ELSE s
              c == MakeConstraint(b, Has(w, "size_spec"))
              x == IF Has(w, "set_of") /\ c.field.prim # "" THEN "nativeSet" ELSE ""
  <2>1. exitSetOrSequence_type(s, w) = [c EXCEPT !.field.prim = x]
    BY <1>1 DEF exitSetOrSequence_type
  <2>2. Dies(p, P)
    BY <1>2, LookupsDie
  <2>. HIDE DEF p
  <2>3. Dies(b, P)
    BY <1>2, <2>2, HelpersDie
  <2>. HIDE DEF b
  <2>4. Dies(c, P)
    BY <2>3, LookupsDie
  <2>. HIDE DEF c, x
  <2>5. Dies([c EXCEPT !.field.prim = x], P)
    BY <2>4, HelpersDie
  <2>. QED
    BY <2>1, <2>5
<1>6. Live(ExitHttp_path_var_with_type(s, w)) /\ Live(EnterReference(s)) /\ Live(ExitReference(s))
      /\ Live(EnterUser_defined_type(s))
  BY <1>1 DEF ExitHttp_path_var_with_type, EnterReference, ExitReference, EnterUser_defined_type
<1>. QED
  BY <1>3, <1>4, <1>5, <1>6, Lives

\* A callback that only asks for a name finds one, and one that adds a name has the map for it.
LEMMA NameIsThere ==
  ASSUME NEW s \in Listener, Live(s), NEW w
  PROVE  /\ s.field.top # 0 => /\ Live(ExitView_type_spec(s)) /\ Live(ExitView_param(s))
                               /\ Live(ExitParam(s, w)) \/ Has(w, "reference")
         /\ s.typemap # 0 => Live(EnterView_param(s)) /\ Live(EnterView_return_type(s))
<1>1. \A P : Dies(s, P)
  BY AliveDies
<1>2. s.field.top # 0 => Live(ExitView_type_spec(s)) /\ Live(ExitView_param(s))
  BY DEF ExitView_type_spec, ExitView_param, SomeField
<1>3. ASSUME s.field.top # 0, ~Has(w, "reference") PROVE Dies(ExitParam(s, w), {})
  BY <1>1, <1>3, HelpersDie DEF ExitParam, SomeField
<1>4. ASSUME s.typemap # 0 PROVE Dies(EnterView_param(s), {}) /\ Dies(EnterView_return_type(s), {})
  <2>. DEFINE f == [NoFields EXCEPT !.top = s.typemap, !.all = s.field.all \cup {s.typemap}]
              a == [s EXCEPT !.field = f]
  <2>1. \A c : AddField(s, c) = a
    BY <1>4 DEF AddField
  <2>. HIDE DEF f
  <2>2. Dies(a, {}) /\ Dies([a EXCEPT !.returns = TRUE], {})
    <3>1. Dies(a, {})
      BY <1>1, HelpersDie
    <3>. HIDE DEF a
    <3>. QED
      BY <3>1, HelpersDie
  <2>. QED
    BY <2>1, <2>2 DEF EnterView_param, EnterView_return_type
<1>. QED
  BY <1>2, <1>3, <1>4, Lives

LEMMA StatementParents ==
  \A r \in Rules :
    /\ Alphabet[r] \cap InStatements # {} => r = "statements"
    /\ Alphabet[r] \cap {"if_stmt", "else_stmt"} # {} => r = "if_else"
    /\ "statements" \in Alphabet[r] => r \in Hosts \ {"one_of_stmt"}
    /\ "one_of_cases" \in Alphabet[r] => r = "one_of_stmt"
    /\ Alphabet[r] \cap Collected # {} => r = "collector_stmts"
    /\ "collector_stmts" \in Alphabet[r] => r = "collector"
<1>1. \A r \in Rules : /\ Alphabet[r] \cap InStatements # {} => r = "statements"
                       /\ Alphabet[r] \cap {"if_stmt", "else_stmt"} # {} => r = "if_else"
  BY SMTT(60) DEF Alphabet, Rules, Grammar, InStatements
<1>2. \A r \in Rules : /\ "statements" \in Alphabet[r] => r \in Hosts \ {"one_of_stmt"}
                       /\ "one_of_cases" \in Alphabet[r] => r = "one_of_stmt"
  BY SMTT(60) DEF Alphabet, Rules, Grammar, Hosts, Blocked
<1>3. \A r \in Rules : /\ Alphabet[r] \cap Collected # {} => r = "collector_stmts"
                       /\ "collector_stmts" \in Alphabet[r] => r = "collector"
  BY SMTT(60) DEF Alphabet, Rules, Grammar, Collected
<1>. QED
  BY <1>1, <1>2, <1>3

\* What goes into a block does not fail where there is one.
LEMMA AddedDies ==
  ASSUME NEW s \in Listener, Live(s), NEW P,
         TopKind(s) \notin Blocks => "addToCurrentScope" \in P
  PROVE  /\ \A x : Dies(addToCurrentScope(s, x), P)
         /\ \A k, r : Dies(EnterBlock(s, k, r), P)
<1>1. Dies(s, P)
  BY AliveDies
<1>2. \A x : Dies(addToCurrentScope(s, x), P)
  <2>1. CASE TopKind(s) \in Blocks
    <3>1. SUFFICES ASSUME NEW x PROVE Dies(addToCurrentScope(s, x), P)
      OBVIOUS
    <3>. DEFINE y == [s.scope EXCEPT ![Len(s.scope)].last = x]
    <3>2. addToCurrentScope(s, x) = [s EXCEPT !.scope = y]
      BY <2>1 DEF addToCurrentScope
    <3>. HIDE DEF y
    <3>3. Dies([s EXCEPT !.scope = y], P)
      BY <1>1, HelpersDie
    <3>. QED
      BY <3>2, <3>3
  <2>2. CASE TopKind(s) \notin Blocks
    BY <1>1, <2>2, LookupsDie
  <2>. QED
    BY <2>1, <2>2
<1>3. \A k, r : Dies(EnterBlock(s, k, r), P)
  <2>1. SUFFICES ASSUME NEW k, NEW r PROVE Dies(EnterBlock(s, k, r), P)
    OBVIOUS
  <2>. DEFINE a == addToCurrentScope(s, "other")
  <2>2. Dies(a, P)
    BY <1>2
  <2>3. EnterBlock(s, k, r) = IF Live(a) THEN pushScope(a, k, FALSE, r) ELSE a
    BY DEF EnterBlock
  <2>. HIDE DEF a
  <2>4. Dies(pushScope(a, k, FALSE, r), P)
    BY <2>2, HelpersDie
  <2>. QED
    BY <2>2, <2>3, <2>4
<1>. QED
  BY <1>2, <1>3

LEMMA TextDies ==
  ASSUME NEW s \in Listener, Live(s), NEW P, NEW w,
         TopKind(s) \notin Blocks => "addToCurrentScope" \in P,
         s.endpoint = "rest" => "EnterText_stmt" \in P
  PROVE  Dies(EnterText_stmt(s, w), P)
<1>. DEFINE pending == [s EXCEPT !.pendingDocString = TRUE]
            add == addToCurrentScope(pending, "text")
            added == IF TopKind(s) \in Blocks /\ Top(s.scope).last = "text" THEN pending ELSE add
            plain == addToCurrentScope(s, "action")
<1>1. EnterText_stmt(s, w) = IF Has(w, "doc_string") THEN DocStringOf(pending, added, "EnterText_stmt")
                             ELSE [plain EXCEPT !.pendingDocString = FALSE]
  BY DEF EnterText_stmt
<1>2. Dies(s, P) /\ Dies(plain, P)
  BY AliveDies, AddedDies
<1>3. pending \in Listener /\ Live(pending) /\ TopKind(pending) = TopKind(s) /\ pending.endpoint = s.endpoint
  BY DEF Listener, Live, TopKind
<1>4. Dies(pending, P)
  BY <1>2, HelpersDie
<1>. HIDE DEF pending, plain
<1>5. Dies(add, P)
  BY <1>3, AddedDies
<1>. HIDE DEF add
<1>6. Dies(added, P)
  BY <1>4, <1>5
<1>. HIDE DEF added
<1>7. s.endpoint = "rest" => Dies(Panic(pending, "EnterText_stmt"), P)
  BY <1>4, HelpersDie
<1>8. Dies(DocStringOf(pending, added, "EnterText_stmt"), P)
  BY <1>3, <1>4, <1>6, <1>7 DEF DocStringOf
<1>9. Dies([plain EXCEPT !.pendingDocString = FALSE], P)
  BY <1>2, HelpersDie
<1>. QED
  BY <1>1, <1>8, <1>9

\* Who has annotations, and what is around them.
LEMMA AnnotationParents ==
  \A r \in Rules :
    /\ "annotation_value" \in Alphabet[r] => r = "annotation"
    /\ "multi_line_docstring" \in Alphabet[r] => r = "annotation_value"
    /\ "doc_string" \in Alphabet[r] => r \in {"text_stmt", "multi_line_docstring"}
    /\ "annotation" \in Alphabet[r]
         => r \in {"statements", "annotations", "alias", "app_decl", "union", "table_stmts"}
    /\ "annotations" \in Alphabet[r] => r = "field_type"
    /\ "table_stmts" \in Alphabet[r] => r = "table_def"
    /\ "table_def" \in Alphabet[r] => r = "table"
<1>1. \A r \in Rules :
        /\ "annotation_value" \in Alphabet[r] => r = "annotation"
        /\ "multi_line_docstring" \in Alphabet[r] => r = "annotation_value"
        /\ "doc_string" \in Alphabet[r] => r \in {"text_stmt", "multi_line_docstring"}
  BY SMTT(60) DEF Alphabet, Rules, Grammar
<1>2. \A r \in Rules :
        "annotation" \in Alphabet[r]
          => r \in {"statements", "annotations", "alias", "app_decl", "union", "table_stmts"}
  BY SMTT(60) DEF Alphabet, Rules, Grammar
<1>3. \A r \in Rules :
        /\ "annotations" \in Alphabet[r] => r = "field_type"
        /\ "table_stmts" \in Alphabet[r] => r = "table_def"
        /\ "table_def" \in Alphabet[r] => r = "table"
  BY SMTT(60) DEF Alphabet, Rules, Grammar
<1>. QED
  BY <1>1, <1>2, <1>3

LEMMA EnterLives ==
  ASSUME NEW s \in Listener, Live(s), NEW w
  PROVE  /\ Live(EnterTable_stmts(s, w)) /\ Live(EnterTable_def(s, w)) /\ Live(EnterHttp_path(s))
         /\ Live(EnterParams(s)) /\ Live(EnterMethod_def(s)) /\ Live(EnterSimple_endpoint(s, w))
         /\ Live(EnterRest_endpoint(s)) /\ Live(EnterCollector(s, w)) /\ Live(EnterEvent(s, w))
         /\ Live(EnterView(s)) /\ Live(EnterApp_decl(s, w))
         /\ Live(EnterExpr_func(s)) /\ Live(EnterMatching_rhs(s, w)) /\ Live(EnterExpr_set(s))
         /\ Live(EnterAtomT_implied_dot(s)) /\ Live(EnterExpr_atom_list(s))
         /\ Live(EnterIf_multiple_lines(s, w)) /\ Live(EnterTemplate_statement(s, w))
         /\ Live(EnterTransform(s))
<1>0. Dies(s, {})
  BY AliveDies
<1>1. \A a : Dies(a, {}) => Live(a)
  BY Lives
<1>2. Live(EnterTable_stmts(s, w)) /\ Live(EnterTable_def(s, w))
  <2>1. \A a : Dies(a, {}) => Dies(TypeAttrs(a), {}) /\ Dies(EmptyType(a), {})
    BY DEF Dies, TypeAttrs, EmptyType
  <2>2. \A a, x : Dies(a, {}) => Dies([a EXCEPT !.types[Len(x)].noted = TRUE], {})
    BY DEF Dies
  <2>. QED
    BY <1>0, <1>1, <2>1, <2>2 DEF EnterTable_stmts, EnterTable_def
<1>3. Live(EnterHttp_path(s)) /\ Live(EnterRest_endpoint(s))
  BY <1>0, <1>1 DEF EnterHttp_path, EnterRest_endpoint, Dies
<1>4. \A a : Dies(a, {}) => Dies(FreshTypemap(a), {})
  BY DEF Dies, FreshTypemap
<1>5. Live(EnterParams(s)) /\ Live(EnterView(s))
  BY <1>0, <1>1, <1>4 DEF EnterParams, EnterView, Dies
<1>6. \A x : Dies([s EXCEPT !.endpoint = x], {})
  BY <1>0, HelpersDie
<1>7. \A a, k, b, r : Dies(a, {}) => Dies(pushScope(a, k, b, r), {})
  BY HelpersDie
<1>8. /\ Live(EnterMethod_def(s)) /\ Live(EnterSimple_endpoint(s, w))
      /\ Live(EnterCollector(s, w)) /\ Live(EnterEvent(s, w))
  BY <1>0, <1>1, <1>6, <1>7 DEF EnterMethod_def, EnterSimple_endpoint, EnterCollector, EnterEvent
<1>9. Live(EnterApp_decl(s, w))
  <2>. DEFINE app == currentApp(s)
              a == [s EXCEPT
                     !.apps[s.app] =
                       [types |-> app.types \/ HasAny(w, {"table", "alias", "enum"}),
                        endpoints |-> \/ app.endpoints
                                     \/ HasAny(w, {"simple_endpoint", "rest_endpoint", "event",
                                                   "subscribe", "collector"}),
                        wrapped |-> IF app.wrapped = "no" /\ Has(w, "facade") THEN "made"
                                    ELSE app.wrapped],
                     !.rest_attrs = 0, !.typemap = NewMap(s)]
  <2>1. Dies(a, {})
    BY <1>0 DEF Dies
  <2>2. EnterApp_decl(s, w) \in {a, pushScope(a, "Application", TRUE, "app_decl")}
    BY DEF EnterApp_decl
  <2>. HIDE DEF a
  <2>. QED
    BY <1>1, <1>7, <2>1, <2>2
<1>10. \A k : Live(PushExpr(s, k))
  BY <1>0, <1>1, HelpersDie
<1>. QED
  BY <1>2, <1>3, <1>5, <1>8, <1>9, <1>10
  DEF EnterExpr_func, EnterMatching_rhs, EnterExpr_set, EnterAtomT_implied_dot, EnterExpr_atom_list,
      EnterIf_multiple_lines, EnterTemplate_statement, EnterTransform

\* No other Enter callback ever fails.
LEMMA OthersEnter ==
  ASSUME NEW s \in Listener, Live(s), NEW r, r \notin LooksAtExprs \cup LooksAround, NEW w,
         NEW t \in Entered(s, r, w)
  PROVE  Live(t)
<1>1. CASE r = "name_with_attribs"
  <2>1. t \in EnterName_with_attribs(s)
    BY <1>1 DEF Entered
  <2>2. \A i, x : Live([s EXCEPT !.app = i]) /\ Live([s EXCEPT !.apps = x, !.app = i])
    BY DEF Listener, Live
  <2>. QED
    BY <2>1, <2>2 DEF EnterName_with_attribs
<1>2. CASE r # "name_with_attribs"
  <2>1. t = Enter(s, r, w)
    <3>1. r # "subscribe"
      BY DEF LooksAround
    <3>. QED
      BY <1>2, <3>1 DEF Entered
  <2>2. Live(Enter(s, r, w))
    BY EnterLives DEF Enter, LooksAtExprs, LooksAround, InStatements, Collected
  <2>. QED
    BY <2>1, <2>2
<1>. QED
  BY <1>1, <1>2

\* What is looked at before it is popped or thrown away.
LEMMA PopsDie ==
  ASSUME NEW a, NEW P, Dies(a, P)
  PROVE  a.scope # <<>> => Dies(popScope(a), P)
  BY HelpersDie DEF popScope

LEMMA ScopeIsKept ==
  ASSUME NEW s \in Listener, Live(s)
  PROVE  /\ \A x : MakeConstraint(s, x).scope = s.scope
         /\ \A x : applyAnnotations(s, x).scope = s.scope
  BY DEF MakeConstraint, applyAnnotations, Panic, Listener

\* The Exit callbacks of types.
LEMMA TypesExit ==
  ASSUME NEW s \in Listener, Live(s), NEW w
  PROVE  /\ (Has(w, "annotations") => s.scope # <<>>) => Dies(ExitField_type(s, w), {"makeConstraint"})
         /\ Dies(ExitInplace_tuple(s), {})
         /\ Dies(ExitField(s, w), {"ExitField"})
         /\ s.scope # <<>> => /\ Dies(ExitTable(s), {"applyAnnotations"})
                              /\ Dies(ExitUnion(s, w), {"applyAnnotations"})
         /\ (Has(w, "annotation") => s.scope # <<>>) => Live(ExitAlias(s, w)) /\ Live(ExitApp_decl(s, w))
         /\ Dies(ExitParams(s), {"ExitParams"})
         /\ Dies(ExitView(s, w), {"ExitView"})
<1>1. \A P : Dies(s, P)
  BY AliveDies
<1>2. (Has(w, "annotations") => s.scope # <<>>) => Dies(ExitField_type(s, w), {"makeConstraint"})
  <2>. DEFINE a == MakeConstraint(s, HasAny(w, {"size_spec", "array_size"}))
  <2>1. Dies(a, {"makeConstraint"}) /\ a.scope = s.scope
    BY <1>1, LookupsDie, ScopeIsKept
  <2>2. ExitField_type(s, w) = IF Has(w, "annotations") THEN popScope(a) ELSE a
    BY DEF ExitField_type
  <2>. HIDE DEF a
  <2>. QED
    BY <2>1, <2>2, PopsDie
<1>3. Dies(ExitInplace_tuple(s), {})
  BY <1>1 DEF ExitInplace_tuple, Dies
<1>4. Dies(ExitField(s, w), {"ExitField"})
  <2>1. Dies([s EXCEPT !.field.prim = ""], {"ExitField"})
    BY <1>1 DEF Dies
  <2>. QED
    BY <1>1, <2>1, HelpersDie DEF ExitField
<1>5. ASSUME s.scope # <<>>
      PROVE  Dies(ExitTable(s), {"applyAnnotations"}) /\ Dies(ExitUnion(s, w), {"applyAnnotations"})
  <2>1. \A x : Dies(applyAnnotations(s, x), {"applyAnnotations"}) /\ applyAnnotations(s, x).scope = s.scope
    BY <1>1, LookupsDie, ScopeIsKept
  <2>2. \A x : Dies(popScope(applyAnnotations(s, x)), {"applyAnnotations"})
    BY <1>5, <2>1, PopsDie
  <2>3. \A a : Dies(a, {"applyAnnotations"}) => Dies(PopType(a), {"applyAnnotations"})
    BY DEF Dies, PopType
  <2>. QED
    BY <2>2, <2>3 DEF ExitTable, ExitUnion
<1>6. ASSUME Has(w, "annotation") => s.scope # <<>>
      PROVE  Live(ExitAlias(s, w)) /\ Live(ExitApp_decl(s, w))
  <2>. DEFINE x == Pop(s.types)
              b == [s EXCEPT !.types = x]
              a == FreshTypemap(b)
  <2>1. Dies(b, {}) /\ b.scope = s.scope /\ "scope" \in DOMAIN b
    BY <1>1 DEF Dies, Listener
  <2>2. Dies(a, {}) /\ a.scope = b.scope
    <3>. HIDE DEF b
    <3>. QED
      BY <2>1 DEF Dies, FreshTypemap
  <2>3. ExitAlias(s, w) = IF Has(w, "annotation") THEN popScope(a) ELSE a
    BY DEF ExitAlias
  <2>. HIDE DEF a, b
  <2>4. Dies(ExitAlias(s, w), {})
    BY <1>6, <2>1, <2>2, <2>3, PopsDie
  <2>5. Dies(ExitApp_decl(s, w), {})
    BY <1>1, <1>6, PopsDie DEF ExitApp_decl
  <2>. QED
    BY <2>4, <2>5, Lives
<1>7. Dies(ExitParams(s), {"ExitParams"})
  <2>1. Dies([s EXCEPT !.field = NoFields, !.typemap = 0], {"ExitParams"})
    BY <1>1 DEF Dies
  <2>. QED
    BY <1>1, <2>1, HelpersDie DEF ExitParams
<1>8. Dies(ExitView(s, w), {"ExitView"})
  <2>1. Dies(popExprs(s, 1, "ExitView"), {"ExitView"})
    BY <1>1, LookupsDie
  <2>2. \A a : Dies(a, {"ExitView"}) => Dies([FreshTypemap(a) EXCEPT !.returns = FALSE], {"ExitView"})
    BY DEF Dies, FreshTypemap
  <2>. QED
    BY <1>1, <2>1, <2>2, HelpersDie DEF ExitView
<1>. QED
  BY <1>2, <1>3, <1>4, <1>5, <1>6, <1>7, <1>8

\* Those of endpoints.
LEMMA EndpointsExit ==
  ASSUME NEW s \in Listener, Live(s), NEW w
  PROVE  /\ s.scope # <<>> => Live(ExitBlock(s)) /\ Live(ExitMethod_def(s))
         /\ (Has(w, "statements") => s.scope # <<>>) => Live(ExitEndpoint(s, w))
         /\ (Has(w, "collector_stmts") => s.scope # <<>>) => Live(ExitCollector(s, w))
         /\ Live(ExitHttp_path(s))
         /\ s.urlPrefixes # 0 /\ s.rest_attrs = s.urlPrefixes => Live(ExitRest_endpoint(s))
         /\ Says(s, {"call"}) => Live(ExitTarget(s)) /\ Live(ExitSubscriber(s))
         /\ Says(s, Statements) => Live(ExitStatements(s, w))
<1>1. Dies(s, {}) /\ \A a : Dies(a, {}) => Live(a) /\ Dies([a EXCEPT !.endpoint = ""], {})
  BY AliveDies, Lives, HelpersDie
<1>2. s.scope # <<>> => Dies(popScope(s), {})
  BY <1>1, PopsDie
<1>3. Live(ExitHttp_path(s))
  <2>1. Dies([s EXCEPT !.urlPrefixes = @ + 1], {})
    BY <1>1 DEF Dies
  <2>. QED
    BY <1>1, <2>1 DEF ExitHttp_path
<1>4. s.urlPrefixes # 0 /\ s.rest_attrs = s.urlPrefixes => Live(ExitRest_endpoint(s))
  <2>1. \A x, y : Dies([s EXCEPT !.urlPrefixes = @ - 1, !.rest_attrs = @ - 1,
                                 !.rest_urlparams = x, !.rest_urlparams_len = y], {})
    BY <1>1 DEF Dies
  <2>. QED
    BY <1>1, <2>1 DEF ExitRest_endpoint
<1>5. Says(s, {"call"}) => Live(ExitTarget(s)) /\ Live(ExitSubscriber(s))
  BY DEF Says, ExitTarget, ExitSubscriber, lastStatement
<1>6. Says(s, Statements) => Live(ExitStatements(s, w))
  BY DEF Says, ExitStatements, lastStatement
<1>. QED
  BY <1>1, <1>2, <1>3, <1>4, <1>5, <1>6 DEF ExitBlock, ExitMethod_def, ExitEndpoint, ExitCollector

-----------------------------------------------------------------------------
\* What a callback leaves of the expressions below

LEMMA UptoItself == \A s, m : Live(s) => Upto(s, s, m)
  BY DEF Upto

LEMMA UptoLess ==
  ASSUME NEW s, NEW t, NEW m \in Int, NEW n \in Int, n <= m, Upto(s, t, m)
  PROVE  Upto(s, t, n)
<1>1. \A k \in 1..n : k \in 1..m
  OBVIOUS
<1>. QED
  BY <1>1 DEF Upto

LEMMA UptoPush ==
  ASSUME NEW s \in Listener, Live(s), NEW k
  PROVE  LET t == PushExpr(s, k)
         IN  Upto(s, t, Len(s.exprs)) /\ t.exprs[Len(s.exprs) + 1] = k
<1>1. s.exprs \in Seq(AnyExpr)
  BY ListenerTypes
<1>. DEFINE e == s.exprs
            f == Append(e, k)
            t == PushExpr(s, k)
<1>2. f[Len(e) + 1] = k /\ \A i \in 1..Len(e) : f[i] = e[i]
  BY <1>1
<1>3. t.exprs = f /\ Live(t)
  BY DEF PushExpr, Live, Listener
<1>. HIDE DEF f, t
<1>. QED
  BY <1>2, <1>3 DEF Upto, t

LEMMA UptoPop ==
  ASSUME NEW s \in Listener, Live(s), NEW n \in Nat, n <= Len(s.exprs), NEW c
  PROVE  LET t == popExprs(s, n, c)
         IN  Upto(s, t, Len(s.exprs) - n) /\ Len(t.exprs) = Len(s.exprs) - n /\ t \in Listener
<1>1. s.exprs \in Seq(AnyExpr)
  BY ListenerTypes
<1>. DEFINE e == s.exprs
            f == SubSeq(e, 1, Len(e) - n)
            t == popExprs(s, n, c)
<1>2. Len(f) = Len(e) - n /\ \A i \in 1..(Len(e) - n) : f[i] = e[i]
  BY <1>1
<1>0. t = [s EXCEPT !.exprs = f]
  <2>1. Len(e) \in Nat
    BY <1>1
  <2>. QED
    BY <2>1 DEF popExprs
<1>3. t.exprs = f /\ Live(t)
  BY <1>0 DEF Live, Listener
<1>4. t \in Listener
  <2>1. t = [s EXCEPT !.exprs = f]
    BY <1>0
  <2>2. f \in Seq(AnyExpr)
    BY <1>1
  <2>. HIDE DEF f, t
  <2>. QED
    BY <2>1, <2>2, ExprsStays DEF Stays
<1>. HIDE DEF f, t
<1>. QED
  BY <1>2, <1>3, <1>4 DEF Upto, t

LEMMA UptoCombine ==
  ASSUME NEW s \in Listener, Live(s), NEW n \in Nat, n <= Len(s.exprs), NEW k, NEW c
  PROVE  LET t == Combine(s, n, k, c)
         IN  Upto(s, t, Len(s.exprs) - n) /\ t.exprs[Len(s.exprs) - n + 1] = k
<1>. DEFINE a == popExprs(s, n, c)
<1>1. Upto(s, a, Len(s.exprs) - n) /\ Len(a.exprs) = Len(s.exprs) - n /\ a \in Listener
  BY UptoPop
<1>2. Live(a)
  BY <1>1 DEF Upto
<1>3. Combine(s, n, k, c) = PushExpr(a, k)
  BY DEF Combine
<1>. HIDE DEF a
<1>4. Upto(a, PushExpr(a, k), Len(a.exprs)) /\ PushExpr(a, k).exprs[Len(a.exprs) + 1] = k
  BY <1>1, <1>2, UptoPush
<1>. QED
  BY <1>1, <1>3, <1>4 DEF Upto

LEMMA UptoTop ==
  ASSUME NEW s, NEW kinds, NEW c, Finds(s, Len(s.exprs), kinds)
  PROVE  TopExpr(s, kinds, c) = s
<1>1. s.exprs # <<>>
  BY DEF Finds
<1>. QED
  BY <1>1 DEF Finds, TopExpr, TopIs, Top

LEMMA UptoPut ==
  ASSUME NEW s \in Listener, Live(s), NEW kinds, NEW c, Finds(s, Len(s.exprs) - 1, kinds)
  PROVE  Upto(s, PutInto(s, kinds, c), Len(s.exprs) - 1)
         /\ PutInto(s, kinds, c) \in Listener /\ Len(PutInto(s, kinds, c).exprs) = Len(s.exprs) - 1
<1>. DEFINE a == popExprs(s, 1, c)
<1>0. s.exprs \in Seq(AnyExpr)
  BY ListenerTypes
<1>1. Len(s.exprs) >= 1 /\ Len(s.exprs) - 1 \in 1..(Len(s.exprs) - 1) /\ Len(s.exprs) \in Nat
  BY <1>0 DEF Finds
<1>2. Upto(s, a, Len(s.exprs) - 1) /\ Len(a.exprs) = Len(s.exprs) - 1 /\ a \in Listener
  BY <1>1, UptoPop
<1>3. PutInto(s, kinds, c) = TopExpr(a, kinds, c)
  BY DEF PutInto
<1>. HIDE DEF a
<1>4. Finds(a, Len(a.exprs), kinds)
  BY <1>1, <1>2 DEF Finds, Upto
<1>5. TopExpr(a, kinds, c) = a
  BY <1>4, UptoTop
<1>. QED
  BY <1>2, <1>3, <1>5

\* The Exit callback of a rule that was entered at height b, with all its operands on the stack.
LEMMA ExitKeeps ==
  ASSUME NEW s \in Listener, Live(s), NEW w, Len(w) \in Nat, NEW r \in Inner \cup Rims,
         NEW b \in Nat, b >= Floor(r), Len(s.exprs) = b + (Put(r, w) + Took(r, w)), NEW v \in Seq(Symbols),
         r \in Heirs \cup Makers => Finds(s, b, Kinds(r, v)),
         r = "expr_single_arg_func" => Finds(s, b + 1, {"binexpr"}),
         r = "expr_rank_func" => OnField(s),
         r = "expr_inject_stmt" => TopIs(s, {"call"})
  PROVE  LET t == Exit(s, r, w)
         IN  /\ Upto(s, t, b - Need(r))
             /\ r = "e_single_arg_func" => t.exprs[b + 1] = "binexpr"
             /\ r = "ifvar" => t.exprs[b] = "ifelse"
<1>. DEFINE t == Exit(s, r, w)
            e == s.exprs
<1>20. SUFFICES /\ Upto(s, t, b - Need(r))
                /\ r = "e_single_arg_func" => t.exprs[b + 1] = "binexpr"
                /\ r = "ifvar" => t.exprs[b] = "ifelse"
  OBVIOUS
<1>0. s.exprs \in Seq(AnyExpr) /\ Len(e) \in Nat /\ \A m : Upto(s, s, m)
  <2>1. s.exprs \in Seq(AnyExpr)
    BY ListenerTypes
  <2>. QED
    BY <2>1, UptoItself
<1>1. Need(r) \in {0, 1} /\ Floor(r) \in {0, 1} /\ Need(r) <= Floor(r) /\ b - Need(r) \in Int
  BY DEF Need, Floor, Footed
<1>2. \A m \in Int : m >= b - Need(r) /\ Upto(s, t, m) => Upto(s, t, b - Need(r))
  BY <1>1, UptoLess
<1>3. CASE r \in {"expr_func", "expr_set", "expr_atom_list", "atomT_implied_dot",
                  "if_multiple_lines", "atomT_paren", "atomT", "atom", "powerT", "term", "binexpr",
                  "expr_if_else", "expr", "func_args", "rank_expr_list", "squiggly_args", "relop",
                  "atom_dot_relop", "expr_navigate", "if_controls", "cond_block"}
  <2>1. t = s
    BY <1>3 DEF Exit
  <2>. QED
    BY <1>0, <1>3, <2>1
<1>4. CASE r \in {"literal", "empty_tuple", "atomT_name", "e_single_arg_func"}
  <2>1. Put(r, w) = 0 /\ Took(r, w) = 0
    BY <1>4 DEF Put, Took, Chains, Ones
  <2>2. \E k : t = PushExpr(s, k) /\ (r = "e_single_arg_func" => k = "binexpr")
    BY <1>4 DEF Exit, ExitLiteral, ExitEmpty_tuple, ExitAtomT_name, ExitE_single_arg_func
  <2>3. Upto(s, t, Len(e)) /\ (r = "e_single_arg_func" => t.exprs[Len(e) + 1] = "binexpr")
    BY <2>2, UptoPush
  <2>4. Len(e) = b
    BY <2>1
  <2>. QED
    BY <1>0, <1>1, <1>2, <1>4, <2>3, <2>4
<1>5. CASE r = "matching_rhs"
  <2>1. CASE Has(w, "E_Name")
    <3>1. t = PushExpr(s, "value")
      BY <1>5, <2>1 DEF Exit, ExitMatching_rhs
    <3>2. Upto(s, t, Len(e))
      BY <3>1, UptoPush
    <3>3. Put(r, w) = 0 /\ Took(r, w) = 0
      BY <1>5, <2>1 DEF Put, Took, Chains, Ones, HasAny
    <3>. QED
      BY <1>0, <1>1, <1>2, <1>5, <3>2, <3>3
  <2>2. CASE ~Has(w, "E_Name")
    <3>1. t = s
      BY <1>5, <2>2 DEF Exit, ExitMatching_rhs
    <3>. QED
      BY <1>0, <1>5, <3>1
  <2>. QED
    BY <2>1, <2>2
<1>6. CASE r \in {"func_arg", "rank_expr", "list_item", "control_item", "else_block_stmt", "final_else",
                  "expr_matching", "transform_arg"}
  <2>1. Put(r, w) = 0 /\ Took(r, w) = 1
    BY <1>6 DEF Put, Took, Chains, Ones
  <2>2. Len(e) - 1 = b
    BY <2>1
  <2>3. \E kinds, c : t = PutInto(s, kinds, c) /\ Finds(s, b, kinds)
    <3>1. CASE r = "list_item"
      <4>1. b >= 1 /\ Len(e) = b + 1
        BY <2>1, <3>1 DEF Floor, Footed
      <4>2. Finds(s, b, AnyExpr)
        BY <1>0, <4>1 DEF Finds
      <4>3. t = PutInto(s, AnyExpr, "ExitList_item")
        BY <3>1 DEF Exit, ExitList_item
      <4>. QED
        BY <4>2, <4>3
    <3>2. CASE r = "transform_arg"
      <4>1. Finds(s, b, {"transform"})
        BY <3>2 DEF Makers, Kinds
      <4>. QED
        BY <3>2, <4>1 DEF Exit, ExitTransform_arg
    <3>3. CASE r \in {"func_arg", "rank_expr", "expr_matching"}
      <4>1. Finds(s, b, Kinds(r, v))
        BY <3>3 DEF Heirs, Makers
      <4>. QED
        BY <3>3, <4>1 DEF Exit, ExitFunc_arg, ExitRank_expr, ExitExpr_matching, Kinds
    <3>4. CASE r \in {"control_item", "else_block_stmt", "final_else"}
      <4>1. Finds(s, b, {"ifelse"})
        BY <3>4 DEF Heirs, Kinds
      <4>. QED
        BY <3>4, <4>1 DEF Exit, ExitControl_item, ExitElse_block_stmt, ExitFinal_else
    <3>. QED
      BY <1>6, <3>1, <3>2, <3>3, <3>4
  <2>4. Upto(s, t, Len(e) - 1)
    BY <2>2, <2>3, UptoPut
  <2>. QED
    BY <1>0, <1>1, <1>2, <1>6, <2>2, <2>4
<1>7. CASE r = "first_func_target"
  <2>0. Finds(s, b, {"relexpr"}) /\ Put(r, w) = 0 /\ Took(r, w) = IF Has(w, "E_NULL") THEN 0 ELSE 1
    BY <1>7 DEF Heirs, Kinds, Put, Took, Chains, Ones
  <2>1. CASE Has(w, "E_NULL")
    <3>1. Len(e) = b
      BY <2>0, <2>1
    <3>2. t = s
      BY <1>7, <2>0, <2>1, <3>1, UptoTop DEF Exit, ExitFirst_func_target
    <3>. QED
      BY <1>0, <1>7, <3>2
  <2>2. CASE ~Has(w, "E_NULL")
    <3>1. Len(e) - 1 = b
      BY <2>0, <2>2
    <3>2. t = PutInto(s, {"relexpr"}, "ExitFirst_func_target")
      BY <1>7, <2>2 DEF Exit, ExitFirst_func_target
    <3>3. Upto(s, t, Len(e) - 1)
      BY <2>0, <3>1, <3>2, UptoPut
    <3>. QED
      BY <1>0, <1>1, <1>2, <1>7, <3>1, <3>3
  <2>. QED
    BY <2>1, <2>2
<1>8. CASE r \in {"expr_rank_func", "expr_agg_func", "e_scope_var", "expr_first_func",
                  "expr_navigate_attr", "expr_list", "expr_dot_assign"}
  <2>1. Put(r, w) = 0 /\ Took(r, w) = 0
    BY <1>8 DEF Put, Took, Chains, Ones
  <2>2. Len(e) = b
    BY <2>1
  <2>3. \E kinds, c : t = TopExpr(s, kinds, c) /\ Finds(s, b, kinds)
    <3>1. CASE r \in {"e_scope_var", "expr_list"}
      <4>1. b >= 1 /\ Len(e) = b
        BY <2>2, <3>1 DEF Floor, Footed
      <4>2. Finds(s, b, AnyExpr)
        BY <1>0, <4>1 DEF Finds
      <4>. QED
        BY <3>1, <4>2 DEF Exit, ExitE_scope_var, ExitExpr_list
    <3>2. CASE r \in {"expr_rank_func", "expr_agg_func", "expr_first_func"}
      <4>1. Finds(s, b, {"relexpr"})
        BY <3>2 DEF Makers, Kinds
      <4>2. r = "expr_rank_func" => \A c : SomeField(s, c) = s
        BY DEF OnField, SomeField
      <4>. QED
        BY <3>2, <4>1, <4>2 DEF Exit, ExitExpr_rank_func, ExitExpr_agg_func, ExitExpr_first_func
    <3>3. CASE r \in {"expr_navigate_attr", "expr_dot_assign"}
      <4>1. Finds(s, b, IF r = "expr_dot_assign" THEN {"transform"} ELSE {"navigate"})
        BY <3>3 DEF Heirs, Makers, Kinds
      <4>. QED
        BY <3>3, <4>1 DEF Exit, ExitExpr_navigate_attr, ExitExpr_dot_assign
    <3>. QED
      BY <1>8, <3>1, <3>2, <3>3
  <2>4. t = s
    BY <2>2, <2>3, UptoTop
  <2>. QED
    BY <1>0, <1>8, <2>4
<1>9. CASE r \in {"expr_table_of_op", "expr_any_func", "expr_single_or_null", "expr_snapshot",
                  "expr_count", "termT", "binexprT", "if_one_liner"}
  <2>1. \E n \in Nat : /\ \E k, c : t = Combine(s, n, k, c)
                       /\ n <= Len(e) /\ Len(e) - n >= b - Need(r)
    <3>1. CASE r \in {"expr_table_of_op", "expr_single_or_null", "expr_snapshot", "expr_count"}
      <4>1. Put(r, w) = 0 /\ Took(r, w) = 0 /\ Need(r) = 1 /\ Floor(r) = 1
        BY <3>1 DEF Put, Took, Chains, Ones, Need, Floor, Footed, Needing
      <4>2. \E k, c : t = Combine(s, 1, k, c)
        BY <3>1 DEF Exit, ExitExpr_table_of_op, ExitExpr_single_or_null, ExitExpr_snapshot, ExitExpr_count
      <4>3. 1 \in Nat /\ 1 <= Len(e) /\ Len(e) - 1 >= b - Need(r)
        BY <4>1
      <4>. QED
        BY <4>2, <4>3
    <3>2. CASE r \in {"expr_any_func", "termT", "binexprT"}
      <4>1. Put(r, w) = 0 /\ Took(r, w) = 1 /\ Need(r) = 1 /\ Floor(r) = 1
        BY <3>2 DEF Put, Took, Chains, Ones, Need, Floor, Footed, Needing
      <4>2. \E k, c : t = Combine(s, 2, k, c)
        BY <3>2 DEF Exit, ExitExpr_any_func, ExitTermT, ExitBinexprT
      <4>3. 2 \in Nat /\ 2 <= Len(e) /\ Len(e) - 2 >= b - Need(r)
        BY <4>1
      <4>. QED
        BY <4>2, <4>3
    <3>3. CASE r = "if_one_liner"
      <4>1. Put(r, w) = 0 /\ Took(r, w) = 3 /\ Need(r) = 0
        BY <3>3 DEF Put, Took, Chains, Ones, Need, Needing
      <4>2. \E k, c : t = Combine(s, 3, k, c)
        BY <3>3 DEF Exit, ExitIf_one_liner
      <4>3. 3 \in Nat /\ 3 <= Len(e) /\ Len(e) - 3 >= b - Need(r)
        BY <4>1
      <4>. QED
        BY <4>2, <4>3
    <3>. QED
      BY <1>9, <3>1, <3>2, <3>3
  <2>2. PICK n \in Nat : Upto(s, t, Len(e) - n) /\ Len(e) - n >= b - Need(r)
    BY <2>1, UptoCombine
  <2>3. Len(e) - n \in Int
    BY <1>0
  <2>. QED
    BY <1>2, <1>9, <2>2, <2>3
<1>10. CASE r \in {"power", "unaryTerm"} \cup Chains
  <2>0. Need(r) = 0 /\ r \notin {"e_single_arg_func", "ifvar"}
    BY <1>10 DEF Need, Needing, Chains
  <2>1. t = s \/ \E n \in Nat : /\ \E k, c : t = Combine(s, n, k, c)
                                /\ n <= Len(e) /\ Len(e) - n >= b
    <3>1. CASE r = "power"
      <4>1. Put(r, w) = 0 /\ Took(r, w) = IF Has(w, "powerT") THEN 2 ELSE 1
        BY <3>1 DEF Put, Took, Chains, Ones
      <4>2. t = IF Has(w, "powerT") THEN Combine(s, 2, "binexpr", "ExitPower") ELSE s
        BY <3>1 DEF Exit, ExitPower
      <4>3. Has(w, "powerT") => 2 \in Nat /\ 2 <= Len(e) /\ Len(e) - 2 >= b
        BY <4>1
      <4>. QED
        BY <4>2, <4>3
    <3>2. CASE r = "unaryTerm"
      <4>1. Put(r, w) = 0 /\ Took(r, w) = 1
        BY <3>2 DEF Put, Took, Chains, Ones
      <4>2. t = IF Has(w, "OP") THEN Combine(s, 1, "value", "ExitUnaryTerm") ELSE s
        BY <3>2 DEF Exit, ExitUnaryTerm
      <4>3. 1 \in Nat /\ 1 <= Len(e) /\ Len(e) - 1 >= b
        BY <4>1
      <4>. QED
        BY <4>2, <4>3
    <3>3. CASE r \in Chains
      <4>1. Put(r, w) = 0 /\ Took(r, w) = IF Len(w) > 1 THEN Len(w) ELSE 1
        <5>1. Put(r, w) = 0
          BY <3>3 DEF Put, Chains
        <5>2. Took(r, w) = IF Len(w) > 1 THEN Len(w) ELSE 1
          BY <3>3 DEF Took, Chains, Ones
        <5>. QED
          BY <5>1, <5>2
      <4>2. t = IF Len(w) > 1 THEN Combine(s, Len(w), "binexpr", r) ELSE s
        BY <3>3 DEF Exit, reverseOp, Chains
      <4>3. Len(w) > 1 => Len(w) <= Len(e) /\ Len(e) - Len(w) >= b
        BY <4>1
      <4>. QED
        BY <4>2, <4>3
    <3>. QED
      BY <1>10, <3>1, <3>2, <3>3
  <2>2. CASE t = s
    BY <1>0, <2>0, <2>2
  <2>3. CASE t # s
    <3>1. PICK n \in Nat : Upto(s, t, Len(e) - n) /\ Len(e) - n >= b
      BY <2>1, <2>3, UptoCombine
    <3>2. Len(e) - n \in Int /\ Len(e) - n >= b - Need(r)
      BY <1>0, <2>0, <3>1
    <3>. QED
      BY <1>2, <2>0, <3>1, <3>2
  <2>. QED
    BY <2>2, <2>3
<1>11. CASE r = "expr_single_arg_func"
  <2>. DEFINE c == "ExitExpr_single_arg_func"
              a == popExprs(s, 1, c)
  <2>1. Len(e) = b + 2 /\ b >= 1 /\ Need(r) = 1
    BY <1>11 DEF Put, Took, Chains, Ones, Need, Floor, Footed, Needing
  <2>2. Upto(s, a, Len(e) - 1) /\ Len(a.exprs) = Len(e) - 1 /\ a \in Listener
    BY <2>1, UptoPop
  <2>3. t = Combine(TopExpr(a, {"binexpr"}, c), 2, "binexpr", c)
    BY <1>11 DEF Exit, ExitExpr_single_arg_func
  <2>. HIDE DEF a
  <2>4. Finds(a, Len(a.exprs), {"binexpr"}) /\ Len(a.exprs) = b + 1
    BY <1>11, <2>1, <2>2 DEF Finds, Upto
  <2>5. TopExpr(a, {"binexpr"}, c) = a
    BY <2>4, UptoTop
  <2>6. Upto(a, t, b + 1 - 2)
    <3>1. 2 \in Nat /\ 2 <= Len(a.exprs) /\ Live(a)
      BY <2>1, <2>2, <2>4 DEF Upto
    <3>2. Upto(a, Combine(a, 2, "binexpr", c), Len(a.exprs) - 2)
      BY <2>2, <3>1, UptoCombine
    <3>. QED
      BY <2>3, <2>4, <2>5, <3>2
  <2>7. Upto(s, t, b - Need(r))
    <3>1. \A k \in 1..(b - Need(r)) : k \in 1..(Len(e) - 1) /\ k \in 1..(b + 1 - 2)
      BY <2>1
    <3>. QED
      BY <2>2, <2>6, <3>1 DEF Upto
  <2>. QED
    BY <1>11, <2>7
<1>12. CASE r = "ifvar"
  <2>. DEFINE a == PutInto(s, {"ifvar", "ifelse"}, "ExitIfvar")
  <2>1. Len(e) = b + 1 /\ b >= 1 /\ Need(r) = 1 /\ Finds(s, b, {"ifvar", "ifelse"})
    BY <1>12 DEF Put, Took, Chains, Ones, Need, Floor, Footed, Needing, Heirs, Kinds
  <2>2. Upto(s, a, b) /\ a \in Listener /\ Len(a.exprs) = b
    <3>1. Len(e) - 1 = b
      BY <2>1
    <3>. QED
      BY <2>1, <3>1, UptoPut
  <2>3. t = Combine(a, 1, "ifelse", "ExitIfvar")
    BY <1>12 DEF Exit, ExitIfvar
  <2>. HIDE DEF a
  <2>4. Upto(a, t, b - 1) /\ t.exprs[b - 1 + 1] = "ifelse"
    <3>1. 1 \in Nat /\ 1 <= Len(a.exprs) /\ Live(a)
      BY <2>1, <2>2 DEF Upto
    <3>2. /\ Upto(a, Combine(a, 1, "ifelse", "ExitIfvar"), Len(a.exprs) - 1)
          /\ Combine(a, 1, "ifelse", "ExitIfvar").exprs[Len(a.exprs) - 1 + 1] = "ifelse"
      BY <2>2, <3>1, UptoCombine
    <3>. QED
      BY <2>2, <2>3, <3>2
  <2>5. Upto(s, t, b - Need(r))
    <3>1. \A k \in 1..(b - Need(r)) : k \in 1..b /\ k \in 1..(b - 1)
      BY <2>1
    <3>. QED
      BY <2>2, <2>4, <3>1 DEF Upto
  <2>6. b - 1 + 1 = b
    OBVIOUS
  <2>. QED
    BY <1>12, <2>4, <2>5, <2>6
<1>13. CASE r = "expr_inject_stmt"
  <2>. DEFINE c == "ExitExpr_inject_stmt"
  <2>1. Len(e) = b + 1 /\ Need(r) = 0 /\ Finds(s, b, {"transform"})
    BY <1>13 DEF Put, Took, Chains, Ones, Need, Needing, Makers, Kinds
  <2>2. TopExpr(s, {"call"}, c) = s
    BY <1>13 DEF TopExpr
  <2>3. t = PutInto(s, {"transform"}, c)
    BY <1>13, <2>2 DEF Exit, ExitExpr_inject_stmt
  <2>4. Upto(s, t, b)
    <3>1. Len(e) - 1 = b
      BY <2>1
    <3>. QED
      BY <2>1, <2>3, <3>1, UptoPut
  <2>. QED
    BY <1>2, <1>13, <2>1, <2>4
<1>14. \/ r \in {"expr_func", "expr_set", "expr_atom_list", "atomT_implied_dot",
                "if_multiple_lines", "atomT_paren", "atomT", "atom", "powerT", "term", "binexpr",
                "expr_if_else", "expr", "func_args", "rank_expr_list", "squiggly_args", "relop",
                "atom_dot_relop", "expr_navigate", "if_controls", "cond_block"}
       \/ r \in {"literal", "empty_tuple", "atomT_name", "e_single_arg_func"}
       \/ r \in {"func_arg", "rank_expr", "list_item", "control_item", "else_block_stmt", "final_else",
                 "expr_matching", "transform_arg"}
       \/ r \in {"expr_rank_func", "expr_agg_func", "e_scope_var", "expr_first_func",
                 "expr_navigate_attr", "expr_list", "expr_dot_assign"}
       \/ r \in {"expr_table_of_op", "expr_any_func", "expr_single_or_null", "expr_snapshot",
                 "expr_count", "termT", "binexprT", "if_one_liner"}
       \/ r \in {"power", "unaryTerm"} \cup Chains
       \/ r = "matching_rhs" \/ r = "first_func_target" \/ r = "expr_single_arg_func"
       \/ r = "ifvar" \/ r = "expr_inject_stmt"
  BY DEF Inner, Gainers, Neutral, Chains, Rims
<1>. HIDE DEF t
<1>. QED
  BY <1>3, <1>4, <1>5, <1>6, <1>7, <1>8, <1>9, <1>10, <1>11, <1>12, <1>13, <1>14

\* The Enter callback of a rule at height b, with what it takes and looks for on the stack.
LEMMA EnterKeeps ==
  ASSUME NEW s \in Listener, Live(s), NEW w, NEW r \in Inner \cup Rims,
         NEW b \in Nat, b >= Floor(r), Len(s.exprs) = b,
         r \in Heirs => Finds(s, b, Kinds(r, w)),
         r \in Rims \ {"expr"} => Finds(s, b, {"transform"}),
         r = "squiggly_args" => Finds(s, b, {"binexpr"}),
         r = "expr_rank_func" => s.typemap # 0
  PROVE  LET t == Enter(s, r, w)
         IN  /\ Upto(s, t, b - Need(r))
             /\ r \in (Heirs \cup Makers \cup Pushed) \ {"expr_single_arg_func"}
                  => t.exprs[b + Off(r)] \in Kinds(r, w)
<1>. DEFINE t == Enter(s, r, w)
<1>1. SUFFICES /\ Upto(s, t, b - Need(r))
               /\ r \in (Heirs \cup Makers \cup Pushed) \ {"expr_single_arg_func"}
                    => t.exprs[b + Off(r)] \in Kinds(r, w)
  OBVIOUS
<1>2. Need(r) \in {0, 1} /\ b - Need(r) \in Int /\ b - Need(r) <= b /\ \A m : Upto(s, s, m)
  BY UptoItself DEF Need
<1>3. CASE r \in {"expr_func", "expr_set", "expr_atom_list", "atomT_implied_dot", "if_multiple_lines"}
  <2>1. \E k : t = PushExpr(s, k) /\ (r \in {"expr_func", "if_multiple_lines"} => k \in Kinds(r, w))
    <3>1. CASE r = "if_multiple_lines"
      <4>1. t = PushExpr(s, IF Has(w, "ifvar") THEN "ifvar" ELSE "ifelse")
        BY <3>1 DEF Enter, EnterIf_multiple_lines
      <4>2. Kinds(r, w) = IF Has(w, "ifvar") THEN {"ifvar"} ELSE {"ifelse"}
        BY <3>1 DEF Kinds
      <4>. QED
        BY <4>1, <4>2
    <3>2. CASE r = "expr_func"
      BY <3>2 DEF Enter, EnterExpr_func, Kinds
    <3>3. CASE r \in {"expr_set", "expr_atom_list", "atomT_implied_dot"}
      BY <3>3 DEF Enter, EnterExpr_set, EnterExpr_atom_list, EnterAtomT_implied_dot
    <3>. QED
      BY <1>3, <3>1, <3>2, <3>3
  <2>2. PICK k : t = PushExpr(s, k) /\ (r \in {"expr_func", "if_multiple_lines"} => k \in Kinds(r, w))
    BY <2>1
  <2>3. Upto(s, t, b) /\ t.exprs[b + 1] = k
    BY <2>2, UptoPush
  <2>4. r \in {"expr_func", "if_multiple_lines"} => Off(r) = 1
    BY DEF Off, Pushed
  <2>5. r \notin {"expr_func", "if_multiple_lines"} => r \notin Heirs \cup Makers \cup Pushed
    BY <1>3 DEF Heirs, Makers, Pushed
  <2>6. Upto(s, t, b - Need(r))
    BY <1>2, <2>3, UptoLess
  <2>. QED
    BY <2>2, <2>3, <2>4, <2>5, <2>6
<1>4. CASE r \in {"expr_rank_func", "expr_agg_func", "expr_first_func", "expr_navigate", "expr_matching"}
  <2>1. Need(r) = 1 /\ b >= 1 /\ Off(r) = 0 /\ b + Off(r) = b /\ b - 1 + 1 = b
    BY <1>4 DEF Need, Floor, Footed, Needing, Off, Pushed
  <2>2. \E c : \E k \in Kinds(r, w) : /\ Live(Combine(s, 1, k, c)) => Live(t)
                                      /\ t.exprs = Combine(s, 1, k, c).exprs
    <3>1. CASE r = "expr_rank_func"
      <4>. DEFINE c == "EnterExpr_rank_func"
                  a == Combine(s, 1, "relexpr", c)
      <4>1. t = AddField(a, c) /\ "relexpr" \in Kinds(r, w)
        BY <3>1 DEF Enter, EnterExpr_rank_func, Kinds
      <4>2. popExprs(s, 1, c) = [s EXCEPT !.exprs = SubSeq(@, 1, Len(@) - 1)]
        BY <2>1 DEF popExprs
      <4>3. a.typemap = s.typemap /\ "exprs" \in DOMAIN a /\ "panic" \in DOMAIN a
        BY <4>2 DEF Combine, PushExpr, Listener
      <4>. HIDE DEF a
      <4>4. a.typemap # 0
        BY <3>1, <4>3
      <4>. DEFINE f == [NoFields EXCEPT !.top = a.typemap, !.all = a.field.all \cup {a.typemap}]
      <4>5. t = [a EXCEPT !.field = f]
        BY <4>1, <4>4 DEF AddField
      <4>. HIDE DEF f, t
      <4>6. t.exprs = a.exprs /\ (Live(a) => Live(t))
        BY <4>3, <4>5 DEF Live
      <4>. HIDE DEF c
      <4>7. a = Combine(s, 1, "relexpr", c)
        BY DEF a
      <4>. QED
        BY <4>1, <4>6, <4>7
    <3>2. CASE r = "expr_agg_func"
      BY <3>2 DEF Enter, EnterExpr_agg_func, Kinds
    <3>3. CASE r = "expr_first_func"
      BY <3>3 DEF Enter, EnterExpr_first_func, Kinds
    <3>4. CASE r = "expr_navigate"
      BY <3>4 DEF Enter, EnterExpr_navigate, Kinds
    <3>5. CASE r = "expr_matching"
      BY <3>5 DEF Enter, EnterExpr_matching, Kinds
    <3>. QED
      BY <1>4, <3>1, <3>2, <3>3, <3>4, <3>5
  <2>3. PICK k, c : /\ k \in Kinds(r, w)
                    /\ Live(Combine(s, 1, k, c)) => Live(t)
                    /\ t.exprs = Combine(s, 1, k, c).exprs
    BY <2>2
  <2>4. Upto(s, Combine(s, 1, k, c), b - 1) /\ Combine(s, 1, k, c).exprs[b - 1 + 1] = k
    BY <2>1, UptoCombine
  <2>. DEFINE x == Combine(s, 1, k, c)
  <2>5. Live(x) /\ (\A m \in 1..(b - 1) : x.exprs[m] = s.exprs[m]) /\ x.exprs[b] = k
    BY <2>1, <2>4 DEF Upto
  <2>. HIDE DEF t
  <2>6. Live(t) /\ t.exprs = x.exprs
    BY <2>3, <2>5 DEF Live
  <2>. HIDE DEF x
  <2>7. Upto(s, t, b - 1)
    BY <2>5, <2>6 DEF Upto
  <2>. QED
    <3>1. b - Need(r) = b - 1
      BY <2>1
    <3>2. b + Off(r) = b /\ t.exprs[b] = k
      BY <2>1, <2>5, <2>6
    <3>. QED
      BY <2>3, <2>7, <3>1, <3>2
<1>5. CASE r \in {"transform_arg", "expr_inject_stmt", "expr_dot_assign"}
  <2>1. t = s /\ Kinds(r, w) = {"transform"} /\ Off(r) = 0 /\ b + Off(r) = b
    BY <1>5 DEF Enter, Kinds, Off, Pushed
  <2>2. Finds(s, b, {"transform"})
    BY <1>5 DEF Rims
  <2>. HIDE DEF t
  <2>. QED
    BY <1>2, <2>1, <2>2 DEF Finds
<1>6. CASE r = "squiggly_args"
  <2>1. t = s
    BY <1>6, UptoTop DEF Enter, EnterSquiggly_args
  <2>2. r \notin Heirs \cup Makers \cup Pushed
    BY <1>6 DEF Heirs, Makers, Pushed
  <2>. QED
    BY <1>2, <2>1, <2>2
<1>7. CASE r = "matching_rhs"
  <2>1. r \notin Heirs \cup Makers \cup Pushed
    BY <1>7 DEF Heirs, Makers, Pushed
  <2>2. t = s \/ t = PushExpr(s, "value")
    BY <1>7 DEF Enter, EnterMatching_rhs
  <2>3. Upto(s, t, b)
    BY <1>2, <2>2, UptoPush
  <2>4. Upto(s, t, b - Need(r))
    BY <1>2, <2>3, UptoLess
  <2>. QED
    BY <2>1, <2>4
<1>8. CASE r \in Heirs
  <2>1. t = s /\ Off(r) = 0 /\ b + Off(r) = b
    BY <1>8 DEF Heirs, Enter, Off, Pushed
  <2>2. Finds(s, b, Kinds(r, w))
    BY <1>8
  <2>. HIDE DEF t
  <2>. QED
    BY <1>2, <2>1, <2>2 DEF Finds
<1>9. CASE r \notin Heirs \cup {"expr_func", "expr_set", "expr_atom_list", "atomT_implied_dot",
        "if_multiple_lines", "expr_rank_func", "expr_agg_func", "expr_first_func", "expr_navigate",
        "expr_matching", "transform_arg", "expr_inject_stmt", "expr_dot_assign", "squiggly_args",
        "matching_rhs"}
  <2>1. t = s
    BY <1>9 DEF Enter, Inner, Gainers, Neutral, Rims
  <2>2. r \notin (Heirs \cup Makers \cup Pushed) \ {"expr_single_arg_func"}
    BY <1>9 DEF Makers, Pushed
  <2>. QED
    BY <1>2, <2>1, <2>2
<1>. HIDE DEF t
<1>. QED
  BY <1>3, <1>4, <1>5, <1>6, <1>7, <1>8, <1>9

-----------------------------------------------------------------------------
\* What the children before have left for the next

\* The first m children of a word leave what the others do not.
LEMMA GainedSplit ==
  ASSUME NEW w \in Seq(Symbols), NEW m \in 0..Len(w)
  PROVE  /\ Gained(w) = Gained(SubSeq(w, 1, m)) + Gained(SubSeq(w, m + 1, Len(w)))
         /\ Gained(SubSeq(w, 1, m)) \in Nat /\ Gained(SubSeq(w, m + 1, Len(w))) \in Nat
<1>. DEFINE u == SubSeq(w, 1, m)
            v == SubSeq(w, m + 1, Len(w))
<1>1. u \in Seq(Symbols) /\ v \in Seq(Symbols) /\ w = u \o v
  <2>1. CASE m = 0
    <3>1. u = <<>> /\ v = w
      BY <2>1
    <3>2. <<>> \in Seq(Symbols) /\ w = <<>> \o w
      OBVIOUS
    <3>. HIDE DEF u, v
    <3>. QED
      BY <3>1, <3>2
  <2>2. CASE m # 0
    <3>1. m \in 1..Len(w)
      BY <2>2
    <3>. QED
      BY <3>1
  <2>. QED
    BY <2>1, <2>2
<1>2. Len(u) \in Nat /\ Len(v) \in Nat
  BY <1>1
<1>. HIDE DEF u, v
<1>3. Gained(w) = Gained(u) + Gained(v) /\ Gained(u) \in Nat /\ Gained(v) \in Nat
  BY <1>1, <1>2, GainedCat, GainedType
<1>. QED
  BY <1>3 DEF u, v

\* If the first child leaves a value, so do the first m.
LEMMA FirstGains ==
  ASSUME NEW w \in Seq(Symbols), NEW m \in 1..Len(w), w[1] \in Gainers
  PROVE  Gained(SubSeq(w, 1, m)) >= 1
<1>. DEFINE u == SubSeq(w, 1, m)
            v == SubSeq(u, 2, Len(u))
<1>1. u \in Seq(Symbols) /\ u[1] = w[1] /\ 1 \in 1..Len(u)
  OBVIOUS
<1>. HIDE DEF u
<1>2. NextIs(u, 1)
  BY <1>1, BodyDeep DEF NextIs, Body, Inner
<1>3. Gained(u) = Leaves(u[1]) + Gained(SubSeq(u, 1 + 1, Len(u)))
  BY <1>1, <1>2, GainedNext
<1>4. v \in Seq(Symbols)
  BY <1>1
<1>5. Len(v) \in Nat
  BY <1>4
<1>6. Gained(v) \in Nat
  BY <1>5, GainedType
<1>7. Gained(u) = 1 + Gained(v)
  BY <1>1, <1>3 DEF Leaves
<1>. QED
  BY <1>6, <1>7 DEF u

\* Children that leave nothing.
LEMMA NoneGains ==
  ASSUME NEW A, NEW w \in Seq(A), A \cap Gainers = {}, NEW m \in 0..Len(w)
  PROVE  Gained(SubSeq(w, 1, m)) = 0
<1>1. SubSeq(w, 1, m) \in Seq(A)
  OBVIOUS
<1>. QED
  BY <1>1, GainedNone

\* Took and Put do not look at words that are not kept.
LEMMA SameWord ==
  ASSUME NEW r, r \notin LooksBack, NEW u, NEW w
  PROVE  Put(r, u) = Put(r, w) /\ Took(r, u) = Took(r, w)
<1>1. Put(r, u) = Put(r, w)
  BY DEF Put, LooksBack
<1>2. r \notin Chains
  BY DEF Chains, LooksBack
<1>3. r \notin {"power", "first_func_target", "matching_rhs"}
  BY DEF LooksBack
<1>4. Took(r, u) = Took(r, w)
  BY <1>2, <1>3 DEF Took
<1>. QED
  BY <1>1, <1>4
=============================================================================
