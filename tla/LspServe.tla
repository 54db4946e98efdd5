------------------------------ MODULE LspServe ------------------------------
(***************************************************************************)
(* Serve of pkg/lspimpl/lspframework/jsonrpc2/serve.go: it accepts network *)
(* clients of the language server, serves each in a goroutine, and returns *)
(* when there have been no clients for idleTimeout.                        *)
(*                                                                         *)
(* Three kinds of goroutines meet on unbuffered channels: the one that     *)
(* accepts, one per client that runs ServeStream, and Serve's own select   *)
(* loop, which alone changes activeConns and the timer.  A time.Timer puts *)
(* its tick into a channel of capacity one; neither Stop nor Reset removes *)
(* a tick that is in it.                                                   *)
(***************************************************************************)
EXTENDS Naturals, FiniteSets

CONSTANTS
  Client,    \* the clients that may connect, each at most once
  Nobody     \* no client

ASSUME ServeAssumption == IsFiniteSet(Client) /\ Nobody \notin Client

VARIABLES
  client,       \* client[c]: how far c's connection is
  accepted,     \* the connection the accept goroutine offers on newConns
  listener,     \* the accept goroutine: "accepting", "failed", "done"
  loop,         \* "select", or how Serve returned
  activeConns,
  armed,        \* the timer is running
  tick,         \* the timer's channel holds a tick
  ctxDone       \* Serve's context is cancelled

env == <<client, accepted, listener>>
vars == <<client, accepted, listener, loop, activeConns, armed, tick, ctxDone>>

Returned == {"idle", "failed", "cancelled"}

Init ==
  /\ client = [c \in Client |-> "away"]
  /\ accepted = Nobody
  /\ listener = "accepting"
  /\ loop = "select"
  /\ activeConns = 0
  /\ armed = TRUE
  /\ tick = FALSE
  /\ ctxDone = FALSE

---------------------------------------------------------------------------
(* Clients, the accept goroutine and the timer                             *)

(* c dials; the connection waits in the listener's backlog.                *)
Dial(c) ==
  /\ client[c] = "away"
  /\ client' = [client EXCEPT ![c] = "dialled"]
  /\ UNCHANGED <<accepted, listener, loop, activeConns, armed, tick, ctxDone>>

(* ln.Accept returns c's connection, which is sent on newConns next.       *)
Accept(c) ==
  /\ listener = "accepting"
  /\ accepted = Nobody
  /\ client[c] = "dialled"
  /\ accepted' = c
  /\ UNCHANGED <<client, listener, loop, activeConns, armed, tick, ctxDone>>

(* ln.Accept fails: the error is sent on doneListening next.               *)
AcceptFail ==
  /\ listener = "accepting"
  /\ accepted = Nobody
  /\ listener' = "failed"
  /\ UNCHANGED <<client, accepted, loop, activeConns, armed, tick, ctxDone>>

(* ServeStream returns: its error is sent on closedConns next.             *)
StreamEnd(c) ==
  /\ client[c] = "served"
  /\ client' = [client EXCEPT ![c] = "closing"]
  /\ UNCHANGED <<accepted, listener, loop, activeConns, armed, tick, ctxDone>>

TimerFire ==
  /\ armed
  /\ armed' = FALSE
  /\ tick' = TRUE
  /\ UNCHANGED <<env, loop, activeConns, ctxDone>>

Cancel ==
  /\ ~ctxDone
  /\ ctxDone' = TRUE
  /\ UNCHANGED <<env, loop, activeConns, armed, tick>>

---------------------------------------------------------------------------
(* The select loop.  When several channels are ready, any may be taken.    *)

(* An operator named Mut... is a wrong variant of the operator after it.   *)
(* No action uses it: put in the operator's place, it shows that a         *)
(* property below tells the two apart.                                     *)
MutTimerKept == armed
MutCountKept == activeConns
MutNoReset(n) == armed
MutCountTwice == activeConns - 2

MutServesInline == accepted # Nobody /\ activeConns = 0

(* newConns is ready.                                                      *)
ConnOffered == accepted # Nobody

(* connTimer.Stop, activeConns--, and Reset when n clients are left.       *)
TimerStopped == FALSE
OneLess == activeConns - 1
TimerReset(n) == armed \/ n = 0

NewConn ==
  /\ loop = "select"
  /\ ConnOffered
  /\ client' = [client EXCEPT ![accepted] = "served"]
  /\ accepted' = Nobody
  /\ activeConns' = activeConns + 1
  /\ armed' = TimerStopped
  /\ UNCHANGED <<listener, loop, tick, ctxDone>>

ClosedConn(c) ==
  /\ loop = "select"
  /\ client[c] = "closing"
  /\ client' = [client EXCEPT ![c] = "gone"]
  /\ activeConns' = OneLess
  /\ armed' = TimerReset(activeConns')
  /\ UNCHANGED <<accepted, listener, loop, tick, ctxDone>>

DoneListening ==
  /\ loop = "select"
  /\ listener = "failed"
  /\ listener' = "done"
  /\ loop' = "failed"
  /\ UNCHANGED <<client, accepted, activeConns, armed, tick, ctxDone>>

IdleTimeout ==
  /\ loop = "select"
  /\ tick
  /\ tick' = FALSE
  /\ loop' = "idle"
  /\ UNCHANGED <<env, activeConns, armed, ctxDone>>

ContextDone ==
  /\ loop = "select"
  /\ ctxDone
  /\ loop' = "cancelled"
  /\ UNCHANGED <<env, activeConns, armed, tick, ctxDone>>

Select ==
  \/ NewConn
  \/ DoneListening
  \/ IdleTimeout
  \/ ContextDone
  \/ \E c \in Client : ClosedConn(c)

Next ==
  \/ Select
  \/ AcceptFail
  \/ TimerFire
  \/ Cancel
  \/ \E c \in Client : Dial(c) \/ Accept(c) \/ StreamEnd(c)

Spec == Init /\ [][Next]_vars

(* Goroutines are scheduled, and a timer that runs fires.  Clients need    *)
(* not come, and need not leave.                                           *)
Fairness ==
  /\ WF_vars(Select)
  /\ WF_vars(TimerFire)
  /\ \A c \in Client : WF_vars(Accept(c)) /\ WF_vars(ClosedConn(c))

FairSpec == Spec /\ Fairness

---------------------------------------------------------------------------
(* Properties                                                              *)

(* Every variable keeps its type; activeConns in particular never falls    *)
(* below zero, where Serve would never start the timer again.              *)
TypeOK ==
  /\ client \in [Client -> {"away", "dialled", "served", "closing", "gone"}]
  /\ accepted \in Client \cup {Nobody}
  /\ listener \in {"accepting", "failed", "done"}
  /\ loop \in {"select"} \cup Returned
  /\ activeConns \in Nat
  /\ armed \in BOOLEAN
  /\ tick \in BOOLEAN
  /\ ctxDone \in BOOLEAN

InService == {c \in Client : client[c] \in {"served", "closing"}}

(* activeConns counts the clients whose ServeStream was started and whose  *)
(* end Serve has not taken yet, so it cannot be zero, and start the timer, *)
(* while one is served.                                                    *)
CountsClients == activeConns = Cardinality(InService)

(* The timer runs only while nobody is served, and while nobody is served  *)
(* it runs or has fired: an idle server cannot miss its timeout.  Nothing  *)
(* is said of a tick while a client is served: Stop leaves it in the       *)
(* channel, and the select loop may take it then and give up as idle.      *)
TimerTracksIdleness ==
  /\ armed => InService = {}
  /\ loop = "select" /\ InService = {} => armed \/ tick

(* A server whose clients have all left for good returns.                  *)
IdleServerReturns ==
  <>[](\A c \in Client : client[c] \in {"away", "gone"}) => <>(loop \in Returned)

(* A client that dials is served although other clients never leave, and   *)
(* although connections are accepted one at a time by a goroutine that     *)
(* waits for the select loop after each.                                   *)
DialledClientsServed ==
  \A c \in Client :
    client[c] = "dialled" ~>
      (client[c] = "served" \/ loop \in Returned \/ listener # "accepting")

---------------------------------------------------------------------------
(* The inductive invariant behind the safety properties.                   *)
IInv ==
  /\ TypeOK
  /\ accepted # Nobody => client[accepted] = "dialled"
  /\ CountsClients
  /\ TimerTracksIdleness
============================================================================
