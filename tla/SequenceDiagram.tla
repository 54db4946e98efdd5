-------------------------- MODULE SequenceDiagram --------------------------
(***************************************************************************)
(* The walk that draws a sequence diagram: SequenceDiagramVisitor of       *)
(* pkg/cmdutils/visitor.go on SequenceDiagramWriter of writer.go.          *)
(*                                                                         *)
(* A diagram has a section for each of its entries.  A section follows the *)
(* calls of the entry's statements into the endpoints they call, which may *)
(* call each other in cycles.  A participant of the drawing is activated   *)
(* while one of its endpoints is expanded.  The recursion of the visitor   *)
(* is a stack of frames here, one for each endpoint that is being          *)
(* expanded; every statement is a step.                                    *)
(*                                                                         *)
(* The statements of an endpoint are a flat sequence: a block (if, loop,   *)
(* for, group, one-of) is "open", the choices of a one-of are separated by *)
(* "else", and "close" ends it.                                            *)
(***************************************************************************)
EXTENDS Naturals, Sequences, FiniteSets

CONSTANTS
  App,
  Endpoint,
  AppOf,       \* AppOf[e]: the application that endpoint e belongs to
  Suppressed,  \* the applications whose patterns have "human" or "cron"
  Bodies,      \* what the endpoints may state: functions from Endpoint
  EntryLists,  \* the entries a diagram may have: sequences of Entry
  Blackboxes,  \* the blackboxes it may have: sets of endpoints
  None         \* no endpoint

Statement ==
  {[kind |-> k] : k \in {"action", "ret", "open", "else", "close"}}
    \cup [kind: {"call"}, to: Endpoint]

(* An entry is an endpoint, and the one that "[upto ...]" names.           *)
Entry == [ep: Endpoint, upto: Endpoint \cup {None}]

(* The statements among the first n that are of this kind.                 *)
Marks(statements, kind, n) == {i \in 1..n : statements[i].kind = kind}

(* The blocks of a body nest: it is a statement tree of the module.        *)
Nests(statements) ==
  /\ \A n \in 0..Len(statements) :
       Cardinality(Marks(statements, "close", n)) <= Cardinality(Marks(statements, "open", n))
  /\ Cardinality(Marks(statements, "close", Len(statements)))
       = Cardinality(Marks(statements, "open", Len(statements)))

ASSUME DiagramAssumption ==
  /\ AppOf \in [Endpoint -> App]
  /\ Bodies \subseteq [Endpoint -> Seq(Statement)]
  /\ \A b \in Bodies, e \in Endpoint : Nests(b[e])
  /\ EntryLists \subseteq Seq(Entry)
  /\ Blackboxes \subseteq SUBSET Endpoint
  /\ None \notin Endpoint

VARIABLES
  body,        \* body[e]: the statements of endpoint e
  entries,     \* EndpointCollectionElement.entries
  section,     \* the entry that is drawn
  uptos,       \* EndpointCollectionElement.blackboxes
  visited,     \* SequenceDiagramVisitor.visited
  stack,       \* the endpoints that are being expanded, outermost first
  ind,         \* SequenceDiagramWriter.Ind
  active,      \* SequenceDiagramWriter.Active
  expanded     \* the endpoints that were expanded in this section

input == <<body, entries>>
vars == <<body, entries, section, uptos, visited, stack, ind, active, expanded>>

NotVisited == [e \in Endpoint |-> 0]

Init ==
  /\ body \in Bodies
  /\ entries \in EntryLists
  /\ section = 0
  /\ uptos \in Blackboxes
  /\ visited = NotVisited
  /\ stack = <<>>
  /\ ind = 0
  /\ active = [a \in App |-> 0]
  /\ expanded = {}

---------------------------------------------------------------------------
(* SequenceDiagramWriter.Activate and Deactivate.                          *)
Activate(act, a) == [act EXCEPT ![a] = @ + 1]
Deactivate(act, a) == IF act[a] = 0 THEN act ELSE [act EXCEPT ![a] = @ - 1]

(* GetReturnPayload is not empty.                                          *)
HasPayload(e) == \E i \in DOMAIN body[e] : body[e][i].kind = "ret"

(* A frame: what visitEndpoint knows of an endpoint it expands, the next   *)
(* statement, and whether the function Activated returned is still to      *)
(* deactivate the participant.                                             *)
Frame(e) == [ep |-> e, pos |-> 1, live |-> AppOf[e] \notin Suppressed]

(* isLastStmt: nothing but the ends of blocks comes after statement i.     *)
IsLastStmt(e, i) == \A j \in (i + 1)..Len(body[e]) : body[e][j].kind = "close"

---------------------------------------------------------------------------
(* visitEndpoint for endpoint e, reached with active = act, visited = vis  *)
(* and uptos = up, from the frames st.                                     *)

(* An operator named Mut... is a wrong variant of the operator after it.   *)
(* No action uses it: put in the operator's place, it shows that a         *)
(* property below tells the two apart.                                     *)
MutExpandsAgain(e, vis, up) == body[e] # <<>> /\ e \notin up
MutOnceForEachApp(e, vis, up) ==
  body[e] # <<>> /\ e \notin up /\ \A d \in Endpoint : AppOf[d] = AppOf[e] => vis[d] = 0

Expands(e, vis, up) == body[e] # <<>> /\ e \notin up /\ vis[e] = 0

MutOnlyActivates(e, vis, up, act) ==
  IF body[e] # <<>> /\ HasPayload(e) THEN Activate(act, AppOf[e]) ELSE act

(* A call that is not followed draws the answer.  Under an upto the callee *)
(* is activated for it, and deactivated; a callee that is being expanded   *)
(* already is only deactivated.                                            *)
NotFollowed(e, vis, up, act) ==
  IF body[e] # <<>> /\ HasPayload(e) /\ e \notin up
  THEN Deactivate(act, AppOf[e]) ELSE act

MutNotSuppressed(e, act) == Activate(act, AppOf[e])

Followed(e, act) ==
  IF AppOf[e] \in Suppressed THEN act ELSE Activate(act, AppOf[e])

VisitEndpoint(e, st, vis, up, act) ==
  IF Expands(e, vis, up)
  THEN /\ stack' = Append(st, Frame(e))
       /\ visited' = [vis EXCEPT ![e] = @ + 1]
       /\ active' = Followed(e, act)
  ELSE /\ stack' = st
       /\ visited' = vis
       /\ active' = NotFollowed(e, vis, up, act)

(* visitEndpointCollection goes on to the next entry.  The other entries,  *)
(* and what the entry is drawn up to, are added to the blackboxes.         *)
NextEntry ==
  /\ stack = <<>>
  /\ section < Len(entries)
  /\ section' = section + 1
  /\ LET e == entries[section'].ep
         others == {entries[i].ep : i \in DOMAIN entries} \cup {entries[section'].upto}
     IN /\ uptos' = uptos \cup (others \ {e, None})
        /\ VisitEndpoint(e, <<>>, NotVisited, uptos', active)
        /\ expanded' = {stack'[i].ep : i \in DOMAIN stack'}
  /\ UNCHANGED <<input, ind>>

---------------------------------------------------------------------------
(* visitStatment                                                           *)

Top == stack[Len(stack)]
AtStatement(kind) ==
  /\ stack # <<>>
  /\ Top.pos <= Len(body[Top.ep])
  /\ body[Top.ep][Top.pos].kind = kind
MutNotAdvanced(live) == [stack EXCEPT ![Len(stack)].live = live]
Advanced(live) == [stack EXCEPT ![Len(stack)].pos = @ + 1, ![Len(stack)].live = live]

(* Before a call is drawn as the last statement, its caller is             *)
(* deactivated, unless the call returns something or stays in its app.     *)
Releases(f, to) ==
  IsLastStmt(f.ep, f.pos) /\ ~HasPayload(to) /\ AppOf[to] # AppOf[f.ep]

(* The indentation of a call that is not followed is taken back at once.   *)
VisitCall ==
  /\ AtStatement("call")
  /\ LET to == body[Top.ep][Top.pos].to
         released == Top.live /\ Releases(Top, to)
         act == IF released THEN Deactivate(active, AppOf[Top.ep]) ELSE active
     IN /\ VisitEndpoint(to, Advanced(Top.live /\ ~released), visited, uptos, act)
        /\ ind' = IF Expands(to, visited, uptos) THEN ind + 1 ELSE ind
        /\ expanded' = IF Expands(to, visited, uptos) THEN expanded \cup {to} ELSE expanded
  /\ UNCHANGED <<input, section, uptos>>

(* An action or a return is a line of its own.                             *)
VisitLine ==
  /\ AtStatement("action") \/ AtStatement("ret") \/ AtStatement("else")
  /\ stack' = Advanced(Top.live)
  /\ UNCHANGED <<input, section, uptos, visited, ind, active, expanded>>

OpenBlock ==
  /\ AtStatement("open")
  /\ stack' = Advanced(Top.live)
  /\ ind' = ind + 1
  /\ UNCHANGED <<input, section, uptos, visited, active, expanded>>

CloseBlock ==
  /\ AtStatement("close")
  /\ stack' = Advanced(Top.live)
  /\ ind' = ind - 1
  /\ UNCHANGED <<input, section, uptos, visited, active, expanded>>

MutNeverUnindented(n) == ind
MutUnindentedAlways(n) == ind - 1

(* visitCall unindents after visitEndpoint; an entry was not indented.     *)
Unindented(n) == IF n > 1 THEN ind - 1 ELSE ind

(* The statements are over: visitEndpoint deactivates the participant, if  *)
(* that was not done before the last call, and returns.                    *)
EndOfEndpoint ==
  /\ stack # <<>>
  /\ Top.pos > Len(body[Top.ep])
  /\ active' = IF Top.live THEN Deactivate(active, AppOf[Top.ep]) ELSE active
  /\ visited' = [visited EXCEPT ![Top.ep] = @ - 1]
  /\ stack' = SubSeq(stack, 1, Len(stack) - 1)
  /\ ind' = Unindented(Len(stack))
  /\ UNCHANGED <<input, section, uptos, expanded>>

Next ==
  \/ NextEntry
  \/ VisitCall
  \/ VisitLine
  \/ OpenBlock
  \/ CloseBlock
  \/ EndOfEndpoint

(* The visitor is one goroutine that waits for nothing.                    *)
Spec == Init /\ [][Next]_vars /\ WF_vars(Next)

---------------------------------------------------------------------------
(* Properties                                                              *)

(* Every variable keeps its type: the indentation and the activation       *)
(* counts never fall below zero, where the writer would panic or draw      *)
(* nothing.                                                                *)
TypeOK ==
  /\ body \in [Endpoint -> Seq(Statement)]
  /\ entries \in Seq(Entry)
  /\ section \in 0..Len(entries)
  /\ uptos \subseteq Endpoint
  /\ visited \in [Endpoint -> Nat]
  /\ stack \in Seq([ep: Endpoint, pos: Nat \ {0}, live: BOOLEAN])
  /\ ind \in Nat
  /\ active \in [App -> Nat]
  /\ expanded \subseteq Endpoint

FramesOf(e) == {i \in DOMAIN stack : stack[i].ep = e}

(* visited counts the expansions of an endpoint that are open, and there   *)
(* is at most one: a call into an endpoint that is being expanded is not   *)
(* followed, and every other call is followed anew.                        *)
NoneOpenTwice ==
  \A e \in Endpoint : visited[e] = Cardinality(FramesOf(e)) /\ visited[e] <= 1

(* The statements of this kind that the first n frames of st are past.     *)
PassedBy(b, st, kind, n) ==
  UNION {{i} \X Marks(b[st[i].ep], kind, st[i].pos - 1) : i \in 1..n}

Passed(kind) == PassedBy(body, stack, kind, Len(stack))

(* The indentation is the number of calls and blocks that are open, so the *)
(* writer is never unindented too far, however calls leave blocks open.    *)
IndentBalanced ==
  ind + Cardinality(Passed("close"))
    = Cardinality(Passed("open")) + (IF stack = <<>> THEN 0 ELSE Len(stack) - 1)

LiveFramesOf(a) == {i \in DOMAIN stack : stack[i].live /\ AppOf[stack[i].ep] = a}

(* A participant is never shown active more often than it has expansions   *)
(* that were not released.                                                 *)
OnlyLiveActive == \A a \in App : active[a] <= Cardinality(LiveFramesOf(a))

(* Nobody is active between two sections: no lifeline runs on from one     *)
(* entry of the diagram into the next, or past its end.                    *)
LifelinesClosed == stack = <<>> => \A a \in App : active[a] = 0

(* A set of endpoints that has root and, with an endpoint that is          *)
(* followed, those it calls.                                               *)
Follows(e) == body[e] # <<>> /\ e \notin uptos
ClosedUnderCalls(S, root) ==
  /\ Follows(root) => root \in S
  /\ \A e \in S : \A i \in DOMAIN body[e] :
       body[e][i].kind = "call" /\ Follows(body[e][i].to) => body[e][i].to \in S

(* A section expands what its entry reaches by calls without passing an    *)
(* upto, and nothing else, although recursion is cut off.                  *)
SectionDrawsReachable ==
  stack = <<>> /\ section > 0 =>
    LET root == entries[section].ep
    IN expanded = {e \in Endpoint :
                     \A S \in SUBSET Endpoint : ClosedUnderCalls(S, root) => e \in S}

(* The walk ends, although endpoints call each other in cycles.            *)
WalkEnds == <>(section = Len(entries) /\ stack = <<>>)

(* "Include endpoint in sequence diagram" (docs/website/content/docs/      *)
(* commands/sd.md): what an endpoint that is asked for states is drawn in  *)
(* its section, if the endpoint is no blackbox.                            *)
EntryIncluded ==
  stack = <<>> /\ section > 0 =>
    LET e == entries[section].ep
    IN body[e] # <<>> /\ e \notin UNION Blackboxes => e \in expanded

---------------------------------------------------------------------------
(* The inductive invariant behind the safety properties.                   *)

OpenEndpoints == {stack[i].ep : i \in DOMAIN stack}

(* visited knows the open endpoints, and no two frames have the same.      *)
OpenOnce ==
  /\ \A i, j \in DOMAIN stack : stack[i].ep = stack[j].ep => i = j
  /\ \A e \in Endpoint : visited[e] = IF e \in OpenEndpoints THEN 1 ELSE 0

WithinBodies == \A i \in DOMAIN stack : stack[i].pos <= Len(body[stack[i].ep]) + 1

(* However deep it is cut, the stack has not closed more than it opened.   *)
BlocksNest ==
  \A n \in 0..Len(stack) :
    Cardinality(PassedBy(body, stack, "close", n))
      <= Cardinality(PassedBy(body, stack, "open", n))

(* What is expanded is in every set that the section's entry and the calls *)
(* that are followed make.                                                 *)
ExpandedIsReached ==
  section > 0 =>
    \A S \in SUBSET Endpoint : ClosedUnderCalls(S, entries[section].ep) => expanded \subseteq S

(* A call of an expanded endpoint was expanded, or is still to be made.    *)
FollowedCall(e, i) == i \in DOMAIN body[e] /\ body[e][i].kind = "call" /\ Follows(body[e][i].to)
CallsAwaited ==
  \A e \in expanded : \A i \in DOMAIN body[e] :
    FollowedCall(e, i) => \/ body[e][i].to \in expanded
                          \/ \E k \in DOMAIN stack : stack[k].ep = e /\ stack[k].pos <= i

EntryExpanded == section > 0 /\ Follows(entries[section].ep) => entries[section].ep \in expanded

IInv ==
  /\ TypeOK
  /\ body \in Bodies
  /\ section = 0 => stack = <<>>
  /\ OpenOnce
  /\ WithinBodies
  /\ IndentBalanced
  /\ BlocksNest
  /\ OnlyLiveActive
  /\ OpenEndpoints \subseteq expanded
  /\ ExpandedIsReached
  /\ CallsAwaited
  /\ EntryExpanded
============================================================================
