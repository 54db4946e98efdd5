---------------------------- MODULE JsonRpcConn ----------------------------
(***************************************************************************)
(* One end of a JSON-RPC connection of the language server:                *)
(* pkg/lspimpl/lspframework/jsonrpc2/jsonrpc2.go (Conn, Request), with the *)
(* two handlers the server installs on it, protocol.Canceller and          *)
(* protocol.serverHandler (lsp/protocol/protocol.go, tsserver.go).         *)
(*                                                                         *)
(* Conn.Run reads one message after the other.  A request gets a goroutine *)
(* that waits for the request before it to leave its serial phase, then    *)
(* runs the handler; a response is handed to the Call that waits for it.   *)
(* The peer, the handlers' choices and the goroutines that make calls are  *)
(* the environment; the peer uses an id once and answers a call at most    *)
(* once.                                                                   *)
(***************************************************************************)
EXTENDS Naturals, Sequences

CONSTANTS
  Call,         \* the ids of the calls the peer sends
  Note,         \* the notifications the peer sends, other than cancels
  Cancellable,  \* the calls the peer may send a $/cancelRequest for
  OutCall,      \* the ids of the calls made on this end (Conn.Call)
  App,          \* stands for the goroutines that call and serve no request
  MaxInbox,     \* bound: messages in flight from the peer
  Nobody        \* no call

(* A request that Run reads: a call, a notification, or the cancellation   *)
(* of a call, which is a notification too.                                 *)
Request ==
  [kind: {"call"}, id: Call] \cup [kind: {"note"}, id: Note]
    \cup [kind: {"cancel"}, id: Cancellable]
Response == [kind: {"response"}, id: OutCall]

IsNotify(r) == r.kind # "call"
CallOf(c) == [kind |-> "call", id |-> c]
CancelOf(c) == [kind |-> "cancel", id |-> c]

ASSUME ConnAssumption ==
  /\ Cancellable \subseteq Call
  /\ MaxInbox \in Nat \ {0}
  /\ App \notin Request
  /\ Nobody \notin OutCall

VARIABLES
  inbox,      \* the messages the peer sent that Run has not read
  run,        \* Run: "read", "deliver" (it holds a response), "exited"
  deliverTo,  \* the call whose channel Run sends the response on
  arrived,    \* the requests in the order Run read them
  stage,      \* stage[r]: where the goroutine of request r is
  state,      \* state[r]: Request.state
  handling,   \* Conn.handling: the calls that can be cancelled
  cancelled,  \* the calls whose context is cancelled
  replies,    \* replies[c]: how many responses to c were written
  failed,     \* the calls whose reply could not be marshalled or written
  owed,       \* the calls that were written and the peer has not answered
  cpc,        \* cpc[o]: where the goroutine in Call o is
  owner,      \* owner[o]: the request whose handler made call o, or App
  ctxDone,    \* the calls made by App whose context is cancelled
  pending,    \* Conn.pending
  rchan       \* rchan[o]: the number of responses in o's channel

inVars == <<arrived, stage, state, handling, cancelled, replies, failed>>
outVars == <<owed, cpc, owner, ctxDone, pending, rchan>>
runVars == <<inbox, run, deliverTo>>
vars == <<inbox, run, deliverTo, arrived, stage, state, handling, cancelled,
          replies, failed, owed, cpc, owner, ctxDone, pending, rchan>>

Stage == {"absent", "wire", "blocked", "handle", "calling", "reply", "detached",
          "returned", "unhandled", "lateReply", "unlock", "done"}

Init ==
  /\ inbox = <<>>
  /\ run = "read"
  /\ deliverTo = Nobody
  /\ arrived = <<>>
  /\ stage = [r \in Request |-> "absent"]
  /\ state = [r \in Request |-> "waiting"]
  /\ handling = {}
  /\ cancelled = {}
  /\ replies = [c \in Call |-> 0]
  /\ failed = {}
  /\ owed = {}
  /\ cpc = [o \in OutCall |-> "none"]
  /\ owner = [o \in OutCall |-> App]
  /\ ctxDone = {}
  /\ pending = {}
  /\ rchan = [o \in OutCall |-> 0]

---------------------------------------------------------------------------
(* The peer                                                                *)

PeerRequest(r) ==
  /\ Len(inbox) < MaxInbox
  /\ stage[r] = "absent"
  /\ r.kind = "cancel" => stage[CallOf(r.id)] # "absent"
  /\ inbox' = Append(inbox, r)
  /\ stage' = [stage EXCEPT ![r] = "wire"]
  /\ UNCHANGED <<run, deliverTo, arrived, state, handling, cancelled, replies, failed, outVars>>

(* The peer answers a call that was written; it may do so although a       *)
(* cancellation was sent after the call.                                   *)
PeerResponse(o) ==
  /\ Len(inbox) < MaxInbox
  /\ o \in owed
  /\ inbox' = Append(inbox, [kind |-> "response", id |-> o])
  /\ owed' = owed \ {o}
  /\ UNCHANGED <<run, deliverTo, inVars, cpc, owner, ctxDone, pending, rchan>>

---------------------------------------------------------------------------
(* Conn.Run                                                                *)

(* An operator named Mut... is a wrong variant of the operator after it.   *)
(* No action uses it: put in the operator's place, it shows that a         *)
(* property below tells the two apart.                                     *)
MutCancelsOnlyStarted(r) ==
  IF r.kind = "cancel" /\ stage[CallOf(r.id)] # "blocked" THEN {r.id} ELSE {}

(* Canceller.Request runs inside Run, before the request has a goroutine:  *)
(* Conn.Cancel cancels the context of the call if it is being handled.     *)
CancelledBy(r) ==
  IF r.kind = "cancel" /\ r.id \in handling THEN {r.id} ELSE {}

RunRequest ==
  /\ run = "read"
  /\ inbox # <<>>
  /\ Head(inbox) \in Request
  /\ LET r == Head(inbox) IN
       /\ arrived' = Append(arrived, r)
       /\ cancelled' = cancelled \cup CancelledBy(r)
       /\ handling' = IF IsNotify(r) THEN handling ELSE handling \cup {r.id}
       /\ stage' = [stage EXCEPT ![r] = "blocked"]
  /\ inbox' = Tail(inbox)
  /\ UNCHANGED <<run, deliverTo, state, replies, failed, outVars>>

(* The call is looked up under pendingMu, the response is sent after the   *)
(* unlock: the caller may leave in between.                                *)
RunResponse ==
  /\ run = "read"
  /\ inbox # <<>>
  /\ Head(inbox) \in Response
  /\ inbox' = Tail(inbox)
  /\ \/ /\ Head(inbox).id \in pending
        /\ run' = "deliver"
        /\ deliverTo' = Head(inbox).id
     \/ /\ Head(inbox).id \notin pending
        /\ UNCHANGED <<run, deliverTo>>
  /\ UNCHANGED <<inVars, outVars>>

MutUnbuffered == 0

(* The capacity of the channel a response is sent on.                      *)
RchanCap == 1

(* A send proceeds if the channel has room or somebody receives from it.   *)
CanSend(o) == rchan[o] < RchanCap \/ cpc[o] = "waiting"

RunDeliver ==
  /\ run = "deliver"
  /\ CanSend(deliverTo)
  /\ rchan' = [rchan EXCEPT ![deliverTo] = @ + 1]
  /\ run' = "read"
  /\ deliverTo' = Nobody
  /\ UNCHANGED <<inbox, inVars, owed, cpc, owner, ctxDone, pending>>

(* The stream ends: Run returns, goroutines and calls are left as they are.*)
RunExit ==
  /\ run = "read"
  /\ run' = "exited"
  /\ UNCHANGED <<inbox, deliverTo, inVars, outVars>>

---------------------------------------------------------------------------
(* The goroutine of a request                                              *)

MutUnlockedByStart(r) == state[r] # "waiting"

(* The request's nextRequest channel is closed: Parallel was reached.      *)
NextMayRun(r) == state[r] \in {"parallel", "replied"}

MutMayRunUnordered(r) == TRUE

(* r's thisRequest is closed: it is the nextRequest of the one before r.   *)
MayRun(r) ==
  \E i \in DOMAIN arrived :
    arrived[i] = r /\ (i > 1 => NextMayRun(arrived[i - 1]))

(* Begin serial handling.  Canceller.Deliver hides a cancellation;         *)
(* serverHandler.Deliver answers a call that is already cancelled under a  *)
(* context that is not.                                                    *)
Begin(r) ==
  /\ stage[r] = "blocked"
  /\ MayRun(r)
  /\ state' = [state EXCEPT ![r] = "serial"]
  /\ stage' = [stage EXCEPT ![r] =
       CASE r.kind = "cancel" -> "returned"
         [] r.kind = "call" /\ r.id \in cancelled -> "detached"
         [] OTHER -> "handle"]
  /\ UNCHANGED <<runVars, arrived, handling, cancelled, replies, failed, outVars>>

MutParallelIgnored(s) == s

(* Request.Parallel *)
Parallel(s) == IF s \in {"parallel", "replied"} THEN s ELSE "parallel"

HandlerParallel(r) ==
  /\ stage[r] = "handle"
  /\ state[r] = "serial"
  /\ state' = [state EXCEPT ![r] = Parallel(@)]
  /\ UNCHANGED <<runVars, arrived, stage, handling, cancelled, replies, failed, outVars>>

(* Request.Reply up to the write: the rpc system is unlocked first.        *)
MarkReplied(r) == state' = [state EXCEPT ![r] = "replied"]

HandlerReply(r) ==
  /\ stage[r] = "handle"
  /\ ~IsNotify(r)
  /\ state[r] # "replied"
  /\ MarkReplied(r)
  /\ stage' = [stage EXCEPT ![r] = "reply"]
  /\ UNCHANGED <<runVars, arrived, handling, cancelled, replies, failed, outVars>>

(* The rest of Reply fails: the response is not marshalled, or the stream  *)
(* does not take it.  Reply returns the error, which its callers log or    *)
(* drop; the request stays replied, and Run goes on reading.               *)
NotSent(r) ==
  /\ failed' = failed \cup {r.id}
  /\ UNCHANGED replies

(* Mark and write in one step, under a context that is not cancelled.      *)
DetachedReply(r) ==
  /\ stage[r] = "detached"
  /\ MarkReplied(r)
  /\ \/ /\ replies' = [replies EXCEPT ![r.id] = @ + 1]
        /\ UNCHANGED failed
     \/ NotSent(r)
  /\ stage' = [stage EXCEPT ![r] = "returned"]
  /\ UNCHANGED <<runVars, arrived, handling, cancelled, outVars>>

(* The write of a reply: a stream does not write under a cancelled context.*)
Written(r) == IF r.id \in cancelled THEN 0 ELSE 1

(* Where the goroutine goes on after Reply, whether it failed or not.      *)
AfterReply(s) == IF s = "reply" THEN "handle" ELSE "unlock"

ReplyWrite(r) ==
  /\ stage[r] \in {"reply", "lateReply"}
  /\ \/ /\ replies' = [replies EXCEPT ![r.id] = @ + Written(r)]
        /\ UNCHANGED failed
     \/ NotSent(r)
  /\ stage' = [stage EXCEPT ![r] = AfterReply(@)]
  /\ UNCHANGED <<runVars, arrived, state, handling, cancelled, outVars>>

HandlerReturn(r) ==
  /\ stage[r] = "handle"
  /\ stage' = [stage EXCEPT ![r] = "returned"]
  /\ UNCHANGED <<runVars, arrived, state, handling, cancelled, replies, failed, outVars>>

(* The deferred function: setHandling(req, false), a reply that says the   *)
(* handler did not, Parallel, cancelReq.                                   *)
StopHandling(r) ==
  /\ stage[r] = "returned"
  /\ handling' = IF IsNotify(r) THEN handling ELSE handling \ {r.id}
  /\ stage' = [stage EXCEPT ![r] = "unhandled"]
  /\ UNCHANGED <<runVars, arrived, state, cancelled, replies, failed, outVars>>

MutRepliesAnyway(r) == ~IsNotify(r)
MutLeavesUnanswered(r) == FALSE

DidNotReply(r) == ~IsNotify(r) /\ state[r] # "replied"

DeferredReply(r) ==
  /\ stage[r] = "unhandled"
  /\ \/ /\ DidNotReply(r)
        /\ MarkReplied(r)
        /\ stage' = [stage EXCEPT ![r] = "lateReply"]
     \/ /\ ~DidNotReply(r)
        /\ stage' = [stage EXCEPT ![r] = "unlock"]
        /\ UNCHANGED state
  /\ UNCHANGED <<runVars, arrived, handling, cancelled, replies, failed, outVars>>

DeferredParallel(r) ==
  /\ stage[r] = "unlock"
  /\ state' = [state EXCEPT ![r] = Parallel(@)]
  /\ stage' = [stage EXCEPT ![r] = "done"]
  /\ UNCHANGED <<runVars, arrived, handling, cancelled, replies, failed, outVars>>

---------------------------------------------------------------------------
(* Conn.Call                                                               *)

MutNotRegistered(o) == pending
Registered(o) == pending \cup {o}

(* The call is registered before it is written.  A handler that calls is   *)
(* blocked until the call returns.                                         *)
CallRegister(o, w) ==
  /\ cpc[o] = "none"
  /\ w # App => stage[w] = "handle"
  /\ owner' = [owner EXCEPT ![o] = w]
  /\ pending' = Registered(o)
  /\ cpc' = [cpc EXCEPT ![o] = "registered"]
  /\ stage' = IF w = App THEN stage ELSE [stage EXCEPT ![w] = "calling"]
  /\ UNCHANGED <<runVars, arrived, state, handling, cancelled, replies, failed, owed, ctxDone, rchan>>

(* The context of a call made by a handler is its request's.               *)
ContextDone(o) ==
  \/ o \in ctxDone
  \/ owner[o] # App /\ owner[o].kind = "call" /\ owner[o].id \in cancelled

CallWrite(o) ==
  /\ cpc[o] = "registered"
  /\ ~ContextDone(o)
  /\ owed' = owed \cup {o}
  /\ cpc' = [cpc EXCEPT ![o] = "waiting"]
  /\ UNCHANGED <<runVars, inVars, owner, ctxDone, pending, rchan>>

CallWriteFail(o) ==
  /\ cpc[o] = "registered"
  /\ cpc' = [cpc EXCEPT ![o] = "leaving"]
  /\ UNCHANGED <<runVars, inVars, owed, owner, ctxDone, pending, rchan>>

(* The two branches of the select.                                         *)
CallReceive(o) ==
  /\ cpc[o] = "waiting"
  /\ rchan[o] > 0
  /\ rchan' = [rchan EXCEPT ![o] = @ - 1]
  /\ cpc' = [cpc EXCEPT ![o] = "leaving"]
  /\ UNCHANGED <<runVars, inVars, owed, owner, ctxDone, pending>>

CallCancelled(o) ==
  /\ cpc[o] = "waiting"
  /\ ContextDone(o)
  /\ cpc' = [cpc EXCEPT ![o] = "leaving"]
  /\ UNCHANGED <<runVars, inVars, owed, owner, ctxDone, pending, rchan>>

(* The deferred function deletes the call; Call returns to its caller.     *)
CallReturn(o) ==
  /\ cpc[o] = "leaving"
  /\ pending' = pending \ {o}
  /\ cpc' = [cpc EXCEPT ![o] = "returned"]
  /\ stage' = IF owner[o] = App THEN stage
              ELSE [stage EXCEPT ![owner[o]] = "handle"]
  /\ UNCHANGED <<runVars, arrived, state, handling, cancelled, replies, failed, owed,
                 owner, ctxDone, rchan>>

CancelContext(o) ==
  /\ owner[o] = App
  /\ o \notin ctxDone
  /\ cpc[o] \in {"registered", "waiting"}
  /\ ctxDone' = ctxDone \cup {o}
  /\ UNCHANGED <<runVars, inVars, owed, cpc, owner, pending, rchan>>

---------------------------------------------------------------------------
Goroutine(r) ==
  \/ Begin(r)
  \/ DetachedReply(r)
  \/ ReplyWrite(r)
  \/ HandlerReturn(r)
  \/ StopHandling(r)
  \/ DeferredReply(r)
  \/ DeferredParallel(r)

Caller(o) ==
  \/ CallWrite(o)
  \/ CallWriteFail(o)
  \/ CallReceive(o)
  \/ CallCancelled(o)
  \/ CallReturn(o)

RunLoop == RunRequest \/ RunResponse \/ RunDeliver

Next ==
  \/ RunLoop
  \/ RunExit
  \/ \E r \in Request :
       \/ PeerRequest(r)
       \/ HandlerParallel(r)
       \/ HandlerReply(r)
       \/ Goroutine(r)
  \/ \E o \in OutCall :
       \/ PeerResponse(o)
       \/ CancelContext(o)
       \/ Caller(o)
       \/ \E w \in Request \cup {App} : CallRegister(o, w)

Spec == Init /\ [][Next]_vars

(* Goroutines are scheduled, handlers end, Run reads what is on the        *)
(* stream, and the peer answers the calls it gets.  Nothing is assumed of  *)
(* what the peer sends otherwise, or of cancellations.                     *)
Fairness ==
  /\ WF_vars(RunLoop)
  /\ \A r \in Request : WF_vars(Goroutine(r))
  /\ \A o \in OutCall : WF_vars(Caller(o)) /\ WF_vars(PeerResponse(o))

FairSpec == Spec /\ Fairness

---------------------------------------------------------------------------
(* Properties                                                              *)

(* Every variable keeps its type; no call is answered twice, no channel of *)
(* a Call ever holds two responses, and Run delivers to a known call only. *)
TypeOK ==
  /\ inbox \in Seq(Request \cup Response)
  /\ run \in {"read", "deliver", "exited"}
  /\ deliverTo \in OutCall \cup {Nobody}
  /\ run = "deliver" => deliverTo \in OutCall
  /\ arrived \in Seq(Request)
  /\ stage \in [Request -> Stage]
  /\ state \in [Request -> {"waiting", "serial", "parallel", "replied"}]
  /\ handling \subseteq Call
  /\ cancelled \subseteq Cancellable
  /\ replies \in [Call -> 0..1]
  /\ failed \subseteq Call
  /\ owed \subseteq OutCall
  /\ cpc \in [OutCall -> {"none", "registered", "waiting", "leaving", "returned"}]
  /\ owner \in [OutCall -> Request \cup {App}]
  /\ ctxDone \subseteq OutCall
  /\ pending \subseteq OutCall
  /\ rchan \in [OutCall -> 0..1]

(* A request that is past its wait finds every request that arrived before *)
(* it replied, parallel or over: handlers start in the order of arrival,   *)
(* one at a time until they say otherwise.                                 *)
SerialUntilParallel ==
  \A j \in DOMAIN arrived : \A i \in 1..(j - 1) :
    stage[arrived[j]] # "blocked" => NextMayRun(arrived[i])

(* A call is answered at most once, whoever of the handler, serverHandler  *)
(* and the deferred function does it; nobody answers one whose reply was   *)
(* marked and then failed (Reply sets the state first), and a goroutine    *)
(* that is over leaves its call unanswered only if that reply failed or    *)
(* the call was cancelled.                                                 *)
AnsweredOnce ==
  \A c \in Call :
    /\ replies[c] <= 1
    /\ c \in failed => replies[c] = 0
    /\ stage[CallOf(c)] = "done" => replies[c] = 1 \/ c \in cancelled \cup failed

(* A $/cancelRequest reaches the call it names, also one that still waits  *)
(* for its turn, if the call came before it and its handler has not        *)
(* returned.                                                               *)
CancelReachesCall ==
  \A j \in DOMAIN arrived : \A i \in 1..(j - 1) :
    /\ arrived[j].kind = "cancel"
    /\ arrived[i] = CallOf(arrived[j].id)
    => \/ arrived[j].id \in cancelled
       \/ stage[arrived[i]] \in {"returned", "unhandled", "lateReply", "unlock", "done"}

(* "if we get a wire response between the time this call is cancelled and  *)
(* id is deleted from c.pending, the send to rchan will not block"         *)
RunNeverBlocks == run = "deliver" => CanSend(deliverTo)

(* Every call that is read gets its reply, although requests wait for each *)
(* other and handlers wait for calls of their own.  The reply is lost if   *)
(* the call was cancelled or if it could not be marshalled or written: Run *)
(* does not end the stream then (the TODO in Reply), and the peer waits.   *)
(* If Run has ended the goroutines may wait for calls for ever.            *)
CallsAnswered ==
  \A c \in Call :
    stage[CallOf(c)] = "blocked" ~>
      (replies[c] = 1 \/ c \in cancelled \cup failed \/ run = "exited")

(* Every call made on this end returns while the stream lasts, also one    *)
(* that a handler makes while no other request may run.                    *)
OutCallsReturn ==
  \A o \in OutCall :
    cpc[o] = "waiting" ~> (cpc[o] = "returned" \/ run = "exited")

(* The connection implements RpcService: what it abstracts from a request  *)
(* is whether the request waits, may hold up others, or has given way.     *)
Phase(r) ==
  CASE state[r] = "waiting" -> IF stage[r] = "blocked" THEN "waiting" ELSE "new"
    [] state[r] = "serial" -> "serial"
    [] OTHER -> "released"
PhaseOf == [r \in Request |-> Phase(r)]
AnswersTo == [r \in Request |-> IF IsNotify(r) THEN 0 ELSE replies[r.id]]

Service == INSTANCE RpcService
  WITH Calls <- {r \in Request : ~IsNotify(r)},
       order <- arrived, phase <- PhaseOf, answers <- AnswersTo

(* Requests are taken up one at a time in the order of arrival until they  *)
(* give way, and answered at most once and not before that, whatever the   *)
(* goroutines, cancellations and calls of this end do in between.          *)
ServesInOrder == Service!Spec

(* "RequestCancelledError should be used when a request is cancelled       *)
(* early" (lsp/protocol/protocol.go): a call that is read is answered also *)
(* if it is cancelled, unless its reply fails.                             *)
CancelledCallsAnswered ==
  \A c \in Call :
    stage[CallOf(c)] = "blocked" ~> (replies[c] = 1 \/ c \in failed \/ run = "exited")

---------------------------------------------------------------------------
(* The inductive invariant behind the safety properties and ServesInOrder. *)

(* A request reaches Run once.                                             *)
Arrivals ==
  /\ \A i \in DOMAIN inbox : inbox[i] \in Request => stage[inbox[i]] = "wire"
  /\ \A i, j \in DOMAIN inbox :
       inbox[i] \in Request /\ inbox[j] = inbox[i] => i = j
  /\ \A i \in DOMAIN arrived : stage[arrived[i]] \notin {"absent", "wire"}
  /\ \A i, j \in DOMAIN arrived : arrived[i] = arrived[j] => i = j

(* What the stage of a request says of its state.                          *)
StageFits(r) ==
  /\ stage[r] \in {"absent", "wire", "blocked"} <=> state[r] = "waiting"
  /\ stage[r] = "detached" => ~IsNotify(r) /\ state[r] = "serial"
  /\ stage[r] \in {"reply", "lateReply"} => ~IsNotify(r) /\ state[r] = "replied"

(* The answer to a call is written or fails once, after the call is marked.*)
AnswerFits(r) ==
  ~IsNotify(r) =>
    /\ state[r] # "replied" \/ stage[r] \in {"reply", "lateReply"} =>
         replies[r.id] = 0 /\ r.id \notin failed
    /\ state[r] = "replied" /\ stage[r] \notin {"reply", "lateReply"} =>
         replies[r.id] = 1 \/ r.id \in cancelled \cup failed
    /\ r.id \in failed => replies[r.id] = 0
    /\ stage[r] \in {"unlock", "done"} => state[r] = "replied"

(* The calls that can be cancelled are those from their arrival to the     *)
(* return of their handlers.                                               *)
Past == {"unhandled", "lateReply", "unlock", "done"}
HandlingFits(r) ==
  ~IsNotify(r) => (r.id \in handling <=> stage[r] \notin {"absent", "wire"} \cup Past)

(* A handler that made a call waits for that call alone.                   *)
MadeByHandler(o) == cpc[o] \in {"registered", "waiting", "leaving"} /\ owner[o] # App
CallersWait ==
  /\ \A o \in OutCall : MadeByHandler(o) => stage[owner[o]] = "calling"
  /\ \A o, q \in OutCall :
       MadeByHandler(o) /\ MadeByHandler(q) /\ owner[o] = owner[q] => o = q

(* The response to a call is owed, in flight, held by Run or in the call's *)
(* channel, and in one of these places only.                               *)
InFlight(o) == \E i \in DOMAIN inbox : inbox[i] = [kind |-> "response", id |-> o]
Held(o) == run = "deliver" /\ deliverTo = o
OneResponse(o) ==
  /\ cpc[o] \in {"none", "registered"} => o \notin owed
  /\ cpc[o] \in {"none", "registered"} \/ o \in owed =>
       ~InFlight(o) /\ ~Held(o) /\ rchan[o] = 0
  /\ InFlight(o) => ~Held(o) /\ rchan[o] = 0
  /\ Held(o) => rchan[o] = 0
ResponsesDistinct ==
  \A i, j \in DOMAIN inbox : inbox[i] \in Response /\ inbox[j] = inbox[i] => i = j

IInv ==
  /\ TypeOK
  /\ Arrivals
  /\ \A r \in Request : StageFits(r) /\ AnswerFits(r) /\ HandlingFits(r)
  /\ CallersWait
  /\ ResponsesDistinct
  /\ \A o \in OutCall : OneResponse(o)
  /\ SerialUntilParallel
  /\ CancelReachesCall
============================================================================
