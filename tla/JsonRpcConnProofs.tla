------------------------- MODULE JsonRpcConnProofs -------------------------
(***************************************************************************)
(* Proofs about JsonRpcConn, for any calls, notifications and cancellations*)
(* of the peer and any calls of this end.                                  *)
(***************************************************************************)
EXTENDS JsonRpcConn, TLAPS

---------------------------------------------------------------------------
(* Requests and responses                                                  *)

Kinds == {"call", "note", "cancel"}

LEMMA RequestFacts ==
  ASSUME NEW r \in Request
  PROVE  /\ r.kind \in Kinds
         /\ r.kind = "call" => r.id \in Call /\ r = CallOf(r.id)
         /\ r.kind = "cancel" => r.id \in Cancellable /\ r.id \in Call
                                 /\ CallOf(r.id) \in Request
  BY ConnAssumption DEF Request, Kinds, CallOf

LEMMA CallFacts ==
  ASSUME NEW c \in Call
  PROVE  CallOf(c) \in Request /\ CallOf(c).kind = "call" /\ CallOf(c).id = c
  BY DEF Request, CallOf

LEMMA ResponseFacts ==
  ASSUME NEW m \in Response
  PROVE  m \notin Request /\ m.id \in OutCall /\ m = [kind |-> "response", id |-> m.id]
  BY DEF Request, Response

LEMMA ResponseOf ==
  ASSUME NEW o \in OutCall
  PROVE  /\ [kind |-> "response", id |-> o] \in Response
         /\ [kind |-> "response", id |-> o] \notin Request
         /\ [kind |-> "response", id |-> o].id = o
  BY DEF Request, Response

(* Two calls are the same if their ids are.                                *)
LEMMA SameCall ==
  ASSUME NEW r \in Request, NEW s \in Request, ~IsNotify(r), ~IsNotify(s), r.id = s.id
  PROVE  r = s
  BY RequestFacts DEF IsNotify

---------------------------------------------------------------------------
(* Sequences                                                               *)

LEMMA AppendFacts ==
  ASSUME NEW S, NEW s \in Seq(S), NEW e \in S
  PROVE  /\ Append(s, e) \in Seq(S)
         /\ Len(s) \in Nat
         /\ DOMAIN s = 1..Len(s)
         /\ DOMAIN Append(s, e) = 1..(Len(s) + 1)
         /\ \A i \in 1..Len(s) : Append(s, e)[i] = s[i]
         /\ Append(s, e)[Len(s) + 1] = e
  OBVIOUS

LEMMA TailFacts ==
  ASSUME NEW S, NEW s \in Seq(S), s # <<>>
  PROVE  /\ Tail(s) \in Seq(S)
         /\ Len(s) \in Nat
         /\ Len(s) > 0
         /\ 1 \in DOMAIN s
         /\ Head(s) = s[1]
         /\ Head(s) \in S
         /\ DOMAIN s = 1..Len(s)
         /\ DOMAIN Tail(s) = 1..(Len(s) - 1)
         /\ \A i \in 1..(Len(s) - 1) : Tail(s)[i] = s[i + 1]
  OBVIOUS

---------------------------------------------------------------------------
LEMMA InitIInv == Init => IInv
<1> SUFFICES ASSUME Init PROVE IInv
  OBVIOUS
<1> USE DEF Init
<1>1. TypeOK
  BY DEF TypeOK, Stage
<1>2. Arrivals /\ CallersWait /\ ResponsesDistinct /\ SerialUntilParallel /\ CancelReachesCall
  BY DEF Arrivals, CallersWait, MadeByHandler, ResponsesDistinct, SerialUntilParallel,
         CancelReachesCall
<1>3. \A r \in Request : StageFits(r) /\ AnswerFits(r) /\ HandlingFits(r)
  BY RequestFacts DEF StageFits, AnswerFits, HandlingFits, IsNotify, Past, Kinds
<1>4. \A o \in OutCall : OneResponse(o)
  BY DEF OneResponse, InFlight, Held
<1> QED
  BY <1>1, <1>2, <1>3, <1>4 DEF IInv

---------------------------------------------------------------------------
(* Steps that leave requests alone                                         *)

(* Nothing about requests and callers changes if their variables do not.   *)
LEMMA RequestsUntouched ==
  ASSUME IInv, UNCHANGED inVars
  PROVE  /\ \A r \in Request : StageFits(r)' /\ AnswerFits(r)' /\ HandlingFits(r)'
         /\ SerialUntilParallel'
         /\ CancelReachesCall'
<1> USE DEF IInv, inVars
<1>1. \A r \in Request : StageFits(r)' /\ AnswerFits(r)' /\ HandlingFits(r)'
  BY DEF StageFits, AnswerFits, HandlingFits
<1>2. SerialUntilParallel'
  BY DEF SerialUntilParallel, NextMayRun
<1>3. CancelReachesCall'
  BY DEF CancelReachesCall
<1> QED
  BY <1>1, <1>2, <1>3

(* The calls in progress after the step were in progress before.           *)
LEMMA CallersUntouched ==
  ASSUME IInv, UNCHANGED <<stage, owner>>,
         \A o \in OutCall : MadeByHandler(o)' => MadeByHandler(o)
  PROVE  CallersWait'
  BY DEF IInv, CallersWait

LEMMA InboxUntouched ==
  ASSUME IInv, UNCHANGED <<inbox, arrived, stage>>
  PROVE  Arrivals' /\ ResponsesDistinct' /\ (\A o \in OutCall : InFlight(o)' <=> InFlight(o))
<1> USE DEF IInv
<1>1. Arrivals'
  BY DEF Arrivals
<1>2. ResponsesDistinct'
  BY DEF ResponsesDistinct
<1>3. \A o \in OutCall : InFlight(o)' <=> InFlight(o)
  BY DEF InFlight
<1> QED
  BY <1>1, <1>2, <1>3

LEMMA RunExitKeepsIInv ==
  ASSUME IInv, RunExit
  PROVE  IInv'
<1> USE DEF RunExit, outVars, inVars
<1>1. TypeOK'
  BY DEF IInv, TypeOK
<1>2. CallersWait'
  BY CallersUntouched DEF MadeByHandler
<1>3. \A o \in OutCall : OneResponse(o)'
  BY InboxUntouched DEF IInv, OneResponse, Held
<1> QED
  BY <1>1, <1>2, <1>3, RequestsUntouched, InboxUntouched DEF IInv

(* The goroutine of a call, short of its return, and the end of its context*)
LEMMA CallKeepsIInv ==
  ASSUME IInv, NEW o \in OutCall,
         CallWrite(o) \/ CallWriteFail(o) \/ CallReceive(o) \/ CallCancelled(o) \/ CancelContext(o)
  PROVE  IInv'
<1> USE DEF CallWrite, CallWriteFail, CallReceive, CallCancelled, CancelContext, inVars, runVars
<1>1. TypeOK'
  <2> USE DEF IInv, TypeOK
  <2>1. CASE CallWrite(o)
    BY <2>1
  <2>2. CASE CallWriteFail(o)
    BY <2>2
  <2>3. CASE CallReceive(o)
    BY <2>3
  <2>4. CASE CallCancelled(o)
    BY <2>4
  <2>5. CASE CancelContext(o)
    BY <2>5
  <2> QED
    BY <2>1, <2>2, <2>3, <2>4, <2>5
<1>2. CallersWait'
  BY CallersUntouched DEF MadeByHandler, IInv, TypeOK
<1>3. \A q \in OutCall : OneResponse(q)'
  BY InboxUntouched DEF IInv, TypeOK, OneResponse, Held
<1> QED
  BY <1>1, <1>2, <1>3, RequestsUntouched, InboxUntouched DEF IInv

---------------------------------------------------------------------------
(* Responses: from the peer to the inbox, to Run, to the channel           *)

LEMMA PeerResponseKeepsIInv ==
  ASSUME IInv, NEW o \in OutCall, PeerResponse(o)
  PROVE  IInv'
<1> USE DEF PeerResponse, inVars
<1> DEFINE m == [kind |-> "response", id |-> o]
<1>1. m \in Response /\ m \notin Request /\ m.id = o
  BY ResponseOf
<1>2. inbox \in Seq(Request \cup Response) /\ inbox' = Append(inbox, m)
  BY DEF IInv, TypeOK
<1> HIDE DEF m
<1>3. /\ inbox' \in Seq(Request \cup Response)
      /\ Len(inbox) \in Nat
      /\ DOMAIN inbox = 1..Len(inbox)
      /\ DOMAIN inbox' = 1..(Len(inbox) + 1)
      /\ \A i \in 1..Len(inbox) : inbox'[i] = inbox[i]
      /\ inbox'[Len(inbox) + 1] = m
  BY <1>1, <1>2, AppendFacts
<1>4. ~InFlight(o) /\ ~Held(o) /\ rchan[o] = 0 /\ cpc[o] \notin {"none", "registered"}
  BY DEF IInv, OneResponse
<1>5. \A i \in DOMAIN inbox : inbox[i] # m
  BY <1>4 DEF InFlight, m
<1>6. TypeOK'
  BY <1>3 DEF IInv, TypeOK
<1>7. Arrivals'
  BY <1>1, <1>3 DEF IInv, Arrivals
<1>8. ResponsesDistinct'
  BY <1>3, <1>5 DEF IInv, ResponsesDistinct
<1>9. \A q \in OutCall \ {o} : InFlight(q)' <=> InFlight(q)
  <2>1. \A q \in OutCall \ {o} : [kind |-> "response", id |-> q] # m
    BY <1>1, ResponseOf
  <2> QED
    BY <1>3, <2>1 DEF InFlight
<1>10. \A q \in OutCall : OneResponse(q)'
  <2>1. OneResponse(o)'
    BY <1>4 DEF OneResponse, Held
  <2>2. \A q \in OutCall \ {o} : OneResponse(q)'
    BY <1>9 DEF IInv, OneResponse, Held
  <2> QED
    BY <2>1, <2>2
<1>11. CallersWait'
  BY CallersUntouched DEF MadeByHandler
<1> QED
  BY <1>6, <1>7, <1>8, <1>10, <1>11, RequestsUntouched DEF IInv

(* Run reads a message: what is left is what was behind it.                *)
LEMMA ReadFacts ==
  ASSUME IInv, inbox # <<>>, inbox' = Tail(inbox)
  PROVE  /\ inbox' \in Seq(Request \cup Response)
         /\ Head(inbox) \in Request \cup Response
         /\ \E i \in DOMAIN inbox : inbox[i] = Head(inbox)
         /\ \A i \in DOMAIN inbox' :
              i + 1 \in DOMAIN inbox /\ i \in Nat /\ i # 0 /\ inbox'[i] = inbox[i + 1]
         /\ Head(inbox) \in Request =>
              stage[Head(inbox)] = "wire" /\ \A i \in DOMAIN inbox' : inbox'[i] # Head(inbox)
         /\ Head(inbox) \in Response => \A i \in DOMAIN inbox' : inbox'[i] # Head(inbox)
         /\ ResponsesDistinct'
         /\ \A i, j \in DOMAIN inbox' : inbox'[i] \in Request /\ inbox'[j] = inbox'[i] => i = j
         /\ \A q \in OutCall : InFlight(q)' => InFlight(q)
<1>1. inbox \in Seq(Request \cup Response)
  BY DEF IInv, TypeOK
<1>2. /\ inbox' \in Seq(Request \cup Response)
      /\ Len(inbox) \in Nat
      /\ Len(inbox) > 0
      /\ 1 \in DOMAIN inbox
      /\ Head(inbox) = inbox[1]
      /\ Head(inbox) \in Request \cup Response
      /\ DOMAIN inbox = 1..Len(inbox)
      /\ DOMAIN inbox' = 1..(Len(inbox) - 1)
      /\ \A i \in 1..(Len(inbox) - 1) : inbox'[i] = inbox[i + 1]
  BY <1>1, TailFacts
<1>3. \A i \in DOMAIN inbox' :
        i + 1 \in DOMAIN inbox /\ i \in Nat /\ i # 0 /\ inbox'[i] = inbox[i + 1]
  BY <1>2
<1>4. \A i, j \in DOMAIN inbox : inbox[j] = inbox[i] => i = j
  BY <1>1, <1>2 DEF IInv, Arrivals, ResponsesDistinct
<1>5. \A i \in DOMAIN inbox' : inbox'[i] # Head(inbox)
  BY <1>2, <1>3, <1>4
<1>6. \A i, j \in DOMAIN inbox' : inbox'[j] = inbox'[i] => i = j
  BY <1>2, <1>3, <1>4
<1>7. Head(inbox) \in Request => stage[Head(inbox)] = "wire"
  BY <1>2 DEF IInv, Arrivals
<1>8. ResponsesDistinct'
  BY <1>6 DEF ResponsesDistinct
<1>9. \A q \in OutCall : InFlight(q)' => InFlight(q)
  BY <1>3 DEF InFlight
<1> QED
  BY <1>2, <1>3, <1>5, <1>6, <1>7, <1>8, <1>9

LEMMA RunResponseKeepsIInv ==
  ASSUME IInv, RunResponse
  PROVE  IInv'
<1> USE DEF RunResponse, inVars, outVars
<1>1. PICK o \in OutCall : Head(inbox) = [kind |-> "response", id |-> o]
  <2>1. Head(inbox) \in Response
    OBVIOUS
  <2> QED
    BY <2>1, ResponseFacts
<1>2. Head(inbox) \in Response /\ Head(inbox).id = o /\ InFlight(o)
  <2>1. Head(inbox) \in Response /\ Head(inbox).id = o
    BY <1>1, ResponseOf
  <2>2. PICK i \in DOMAIN inbox : inbox[i] = Head(inbox)
    BY ReadFacts
  <2> QED
    BY <1>1, <2>1, <2>2 DEF InFlight
<1>3. ~InFlight(o)'
  BY <1>1, <1>2, ReadFacts DEF InFlight
<1>4. TypeOK'
  BY <1>2, ReadFacts DEF IInv, TypeOK
<1>5. Arrivals'
  BY ReadFacts DEF IInv, Arrivals
<1>6. \A q \in OutCall : OneResponse(q)'
  BY <1>1, <1>2, <1>3, ReadFacts DEF IInv, OneResponse, Held
<1>7. CallersWait'
  BY CallersUntouched DEF MadeByHandler
<1> QED
  BY <1>4, <1>5, <1>6, <1>7, ReadFacts, RequestsUntouched DEF IInv

LEMMA RunDeliverKeepsIInv ==
  ASSUME IInv, RunDeliver
  PROVE  IInv'
<1> USE DEF RunDeliver, inVars
<1>1. deliverTo \in OutCall /\ Held(deliverTo)
  BY DEF IInv, TypeOK, Held
<1>2. rchan[deliverTo] = 0 /\ ~InFlight(deliverTo)
      /\ cpc[deliverTo] \notin {"none", "registered"} /\ deliverTo \notin owed
  BY <1>1 DEF IInv, OneResponse
<1>3. TypeOK'
  BY <1>1, <1>2 DEF IInv, TypeOK
<1>4. \A q \in OutCall : OneResponse(q)'
  BY <1>1, <1>2, InboxUntouched DEF IInv, TypeOK, OneResponse, Held
<1>5. CallersWait'
  BY CallersUntouched DEF MadeByHandler
<1> QED
  BY <1>3, <1>4, <1>5, InboxUntouched, RequestsUntouched DEF IInv

---------------------------------------------------------------------------
(* Requests: from the peer to the inbox, to Run, through their goroutines  *)

(* A step that leaves the requests behind a request as they are, and the   *)
(* request itself not the one a handler waits in.                          *)
LEMMA CallersKept ==
  ASSUME IInv, NEW r \in Request, stage[r] # "calling", UNCHANGED <<cpc, owner>>,
         \A q \in Request \ {r} : stage'[q] = stage[q]
  PROVE  CallersWait'
  BY DEF IInv, TypeOK, CallersWait, MadeByHandler

LEMMA PeerRequestKeepsIInv ==
  ASSUME IInv, NEW r \in Request, PeerRequest(r)
  PROVE  IInv'
<1> USE DEF PeerRequest, outVars
<1>1. inbox \in Seq(Request \cup Response) /\ inbox' = Append(inbox, r)
  BY DEF IInv, TypeOK
<1>2. /\ inbox' \in Seq(Request \cup Response)
      /\ Len(inbox) \in Nat
      /\ DOMAIN inbox = 1..Len(inbox)
      /\ DOMAIN inbox' = 1..(Len(inbox) + 1)
      /\ \A i \in 1..Len(inbox) : inbox'[i] = inbox[i]
      /\ inbox'[Len(inbox) + 1] = r
  BY <1>1, AppendFacts
<1>3. stage' = [stage EXCEPT ![r] = "wire"] /\ stage \in [Request -> Stage]
      /\ stage'[r] = "wire" /\ \A q \in Request \ {r} : stage'[q] = stage[q]
  BY DEF IInv, TypeOK
<1>4. \A i \in DOMAIN inbox : inbox[i] # r
  BY DEF IInv, Arrivals
<1>5. \A i \in DOMAIN arrived : arrived[i] \in Request \ {r}
  BY DEF IInv, TypeOK, Arrivals
<1>6. \A m \in Response : m # r
  BY ResponseFacts
<1>7. TypeOK'
  BY <1>2, <1>3 DEF IInv, TypeOK, Stage
<1>8. Arrivals'
  <2>1. \A i \in DOMAIN inbox' : inbox'[i] \in Request => stage'[inbox'[i]] = "wire"
    BY <1>2, <1>3, <1>4 DEF IInv, Arrivals
  <2>2. \A i, j \in DOMAIN inbox' : inbox'[i] \in Request /\ inbox'[j] = inbox'[i] => i = j
    BY <1>2, <1>4 DEF IInv, Arrivals
  <2> QED
    BY <1>3, <1>5, <2>1, <2>2 DEF IInv, Arrivals
<1>9. ResponsesDistinct'
  BY <1>2, <1>6 DEF IInv, ResponsesDistinct
<1>10. \A q \in Request : StageFits(q)' /\ AnswerFits(q)' /\ HandlingFits(q)'
  BY <1>3 DEF IInv, StageFits, AnswerFits, HandlingFits, Past
<1>11. CallersWait'
  BY <1>3, CallersKept
<1>12. \A q \in OutCall : OneResponse(q)'
  <2>1. \A q \in OutCall : [kind |-> "response", id |-> q] # r
    BY <1>6, ResponseOf
  <2>2. \A q \in OutCall : InFlight(q)' <=> InFlight(q)
    BY <1>2, <2>1 DEF InFlight
  <2> QED
    BY <2>2 DEF IInv, OneResponse, Held
<1>13. SerialUntilParallel'
  BY <1>3, <1>5 DEF IInv, SerialUntilParallel, NextMayRun
<1>14. CancelReachesCall'
  BY <1>3, <1>5 DEF IInv, CancelReachesCall
<1> QED
  BY <1>7, <1>8, <1>9, <1>10, <1>11, <1>12, <1>13, <1>14 DEF IInv

(* Run takes a request: it is the last one that arrived.                   *)
LEMMA RunRequestKeepsIInv ==
  ASSUME IInv, RunRequest
  PROVE  IInv'
<1> USE DEF RunRequest, outVars
<1>1. PICK r \in Request : r = Head(inbox)
  OBVIOUS
<1>2. /\ arrived' = Append(arrived, r)
      /\ stage' = [stage EXCEPT ![r] = "blocked"]
      /\ cancelled' = cancelled \cup CancelledBy(r)
      /\ handling' = IF IsNotify(r) THEN handling ELSE handling \cup {r.id}
      /\ inbox' = Tail(inbox)
      /\ inbox # <<>>
      /\ UNCHANGED <<run, deliverTo, state, replies, failed, owed, cpc, owner, ctxDone,
                     pending, rchan>>
  BY <1>1
<1> HIDE DEF RunRequest, outVars
<1>3. stage[r] = "wire" /\ \A i \in DOMAIN inbox' : inbox'[i] # r
  BY <1>1, <1>2, ReadFacts
<1>4. stage'[r] = "blocked" /\ \A q \in Request \ {r} : stage'[q] = stage[q]
  BY <1>2 DEF IInv, TypeOK
<1>5. /\ arrived' \in Seq(Request)
      /\ Len(arrived) \in Nat
      /\ DOMAIN arrived = 1..Len(arrived)
      /\ DOMAIN arrived' = 1..(Len(arrived) + 1)
      /\ \A i \in 1..Len(arrived) : arrived'[i] = arrived[i]
      /\ arrived'[Len(arrived) + 1] = r
  BY <1>2, AppendFacts DEF IInv, TypeOK
<1>6. \A i \in DOMAIN arrived : arrived[i] \in Request \ {r}
  BY <1>3 DEF IInv, TypeOK, Arrivals
<1>7. CancelledBy(r) \subseteq Cancellable
  BY RequestFacts DEF CancelledBy
<1>8. TypeOK'
  <2>1. inbox' \in Seq(Request \cup Response)
    BY <1>2, ReadFacts
  <2>2. handling' \subseteq Call
    BY <1>2, RequestFacts DEF IInv, TypeOK, IsNotify, Kinds
  <2>3. stage' \in [Request -> Stage]
    BY <1>2 DEF IInv, TypeOK, Stage
  <2> QED
    BY <1>2, <1>5, <1>7, <2>1, <2>2, <2>3 DEF IInv, TypeOK
<1>9. Arrivals'
  <2>1. \A i \in DOMAIN inbox' : inbox'[i] \in Request => stage'[inbox'[i]] = "wire"
    BY <1>2, <1>3, <1>4, ReadFacts DEF IInv, Arrivals
  <2>2. \A i, j \in DOMAIN inbox' : inbox'[i] \in Request /\ inbox'[j] = inbox'[i] => i = j
    BY <1>2, ReadFacts
  <2>3. \A i \in DOMAIN arrived' : stage'[arrived'[i]] \notin {"absent", "wire"}
    BY <1>4, <1>5, <1>6 DEF IInv, Arrivals
  <2>4. \A i, j \in DOMAIN arrived' : arrived'[i] = arrived'[j] => i = j
    BY <1>5, <1>6 DEF IInv, Arrivals
  <2> QED
    BY <2>1, <2>2, <2>3, <2>4 DEF Arrivals
<1>10. \A q \in Request : StageFits(q)' /\ AnswerFits(q)' /\ HandlingFits(q)'
  <2> TAKE q \in Request
  <2>1. StageFits(q)'
    BY <1>2, <1>3, <1>4 DEF IInv, StageFits
  <2>2. AnswerFits(q)'
    BY <1>2, <1>3, <1>4 DEF IInv, StageFits, AnswerFits
  <2>3. HandlingFits(q)'
    <3>1. CASE q = r
      BY <1>2, <1>4, <3>1 DEF HandlingFits, Past
    <3>2. CASE q # r
      BY <1>2, <1>4, <3>2, SameCall DEF IInv, HandlingFits, Past
    <3> QED
      BY <3>1, <3>2
  <2> QED
    BY <2>1, <2>2, <2>3
<1>11. CallersWait'
  BY <1>2, <1>3, <1>4, CallersKept
<1>12. \A q \in OutCall : OneResponse(q)'
  BY <1>2, ReadFacts DEF IInv, OneResponse, Held
<1>13. SerialUntilParallel'
  BY <1>2, <1>4, <1>5, <1>6 DEF IInv, SerialUntilParallel, NextMayRun
<1>14. CancelReachesCall'
  <2> SUFFICES ASSUME NEW j \in DOMAIN arrived', NEW i \in 1..(j - 1),
                      arrived'[j].kind = "cancel",
                      arrived'[i] = CallOf(arrived'[j].id)
               PROVE  \/ arrived'[j].id \in cancelled'
                      \/ stage'[arrived'[i]] \in
                           {"returned", "unhandled", "lateReply", "unlock", "done"}
    BY DEF CancelReachesCall
  <2>1. i \in DOMAIN arrived /\ arrived'[i] = arrived[i] /\ arrived[i] \in Request \ {r}
        /\ stage'[arrived[i]] = stage[arrived[i]]
    BY <1>4, <1>5, <1>6
  <2>2. CASE j = Len(arrived) + 1
    (* The request is the cancellation: its call is handled or past that.  *)
    <3>1. arrived[i] = CallOf(r.id) /\ r.kind = "cancel" /\ r.id \in Call
      BY <1>5, <2>1, <2>2, RequestFacts
    <3>2. ~IsNotify(arrived[i]) /\ arrived[i].id = r.id
      BY <3>1, CallFacts DEF IsNotify
    <3>3. stage[arrived[i]] \notin {"absent", "wire"}
      BY <2>1 DEF IInv, Arrivals
    <3>4. r.id \in handling \/ stage[arrived[i]] \in Past
      BY <2>1, <3>2, <3>3 DEF IInv, HandlingFits
    <3>5. r.id \in handling => r.id \in cancelled'
      BY <1>2, <3>1 DEF CancelledBy
    <3> QED
      BY <1>5, <2>1, <2>2, <3>4, <3>5 DEF Past
  <2>3. CASE j # Len(arrived) + 1
    BY <1>2, <1>5, <2>1, <2>3 DEF IInv, CancelReachesCall
  <2> QED
    BY <2>2, <2>3
<1> QED
  BY <1>2, <1>8, <1>9, <1>10, <1>11, <1>12, <1>13, <1>14, ReadFacts DEF IInv

(* A handler that starts or ends to wait for its call stays a handler.     *)
LEMMA HandlerWaits ==
  ASSUME IInv, NEW w \in Request,
         stage[w] \in {"handle", "calling"}, stage'[w] \in {"handle", "calling"},
         \A q \in Request \ {w} : stage'[q] = stage[q],
         UNCHANGED <<inbox, arrived, state, handling, cancelled, replies, failed>>
  PROVE  /\ Arrivals'
         /\ \A r \in Request : StageFits(r)' /\ AnswerFits(r)' /\ HandlingFits(r)'
         /\ SerialUntilParallel'
         /\ CancelReachesCall'
<1> USE DEF IInv
<1>1. \A i \in DOMAIN inbox : inbox[i] \in Request => inbox[i] # w
  BY DEF Arrivals
<1>2. \A i \in DOMAIN arrived : arrived[i] \in Request
  BY DEF TypeOK
<1>3. Arrivals'
  BY <1>1, <1>2 DEF Arrivals
<1>4. \A r \in Request : StageFits(r)' /\ AnswerFits(r)' /\ HandlingFits(r)'
  BY DEF StageFits, AnswerFits, HandlingFits, Past
<1>5. SerialUntilParallel'
  BY <1>2 DEF SerialUntilParallel, NextMayRun
<1>6. CancelReachesCall'
  <2> SUFFICES ASSUME NEW j \in DOMAIN arrived, NEW i \in 1..(j - 1),
                      arrived[j].kind = "cancel", arrived[i] = CallOf(arrived[j].id),
                      arrived[j].id \notin cancelled
               PROVE  stage'[arrived[i]] \in
                        {"returned", "unhandled", "lateReply", "unlock", "done"}
    BY DEF CancelReachesCall
  <2>1. stage[arrived[i]] \in {"returned", "unhandled", "lateReply", "unlock", "done"}
    BY DEF CancelReachesCall
  <2>2. arrived[i] \in Request
    BY <1>2 DEF TypeOK
  <2> QED
    BY <2>1, <2>2
<1> QED
  BY <1>3, <1>4, <1>5, <1>6

LEMMA CallRegisterKeepsIInv ==
  ASSUME IInv, NEW o \in OutCall, NEW w \in Request \cup {App}, CallRegister(o, w)
  PROVE  IInv'
<1> USE DEF CallRegister, runVars
<1>1. /\ owner' = [owner EXCEPT ![o] = w] /\ owner'[o] = w
      /\ cpc' = [cpc EXCEPT ![o] = "registered"] /\ cpc'[o] = "registered"
      /\ \A q \in OutCall \ {o} : cpc'[q] = cpc[q] /\ owner'[q] = owner[q]
  BY DEF IInv, TypeOK
<1>2. TypeOK'
  BY ConnAssumption DEF IInv, TypeOK, Stage, Registered
<1>3. ResponsesDistinct'
  BY DEF IInv, ResponsesDistinct
<1>4. \A q \in OutCall : OneResponse(q)'
  BY <1>1 DEF IInv, OneResponse, Held, InFlight
<1>5. CASE w = App
  <2>1. UNCHANGED inVars
    BY <1>5 DEF inVars
  <2>2. CallersWait'
    BY <1>1, <1>5 DEF IInv, CallersWait, MadeByHandler
  <2> QED
    BY <1>2, <1>3, <1>4, <2>1, <2>2, RequestsUntouched, InboxUntouched DEF IInv, inVars
<1>6. CASE w # App
  <2>1. w \in Request /\ stage[w] = "handle" /\ stage'[w] = "calling"
        /\ \A q \in Request \ {w} : stage'[q] = stage[q]
    BY <1>6 DEF IInv, TypeOK
  <2>2. CallersWait'
    BY <1>1, <2>1 DEF IInv, TypeOK, CallersWait, MadeByHandler
  <2> QED
    BY <1>2, <1>3, <1>4, <2>1, <2>2, HandlerWaits DEF IInv
<1> QED
  BY <1>5, <1>6

LEMMA CallReturnKeepsIInv ==
  ASSUME IInv, NEW o \in OutCall, CallReturn(o)
  PROVE  IInv'
<1> USE DEF CallReturn, runVars
<1>1. /\ cpc' = [cpc EXCEPT ![o] = "returned"] /\ cpc'[o] = "returned"
      /\ \A q \in OutCall \ {o} : cpc'[q] = cpc[q]
  BY DEF IInv, TypeOK
<1>2. TypeOK'
  BY DEF IInv, TypeOK, Stage
<1>3. ResponsesDistinct'
  BY DEF IInv, ResponsesDistinct
<1>4. \A q \in OutCall : OneResponse(q)'
  BY <1>1 DEF IInv, OneResponse, Held, InFlight
<1>5. CASE owner[o] = App
  <2>1. UNCHANGED inVars
    BY <1>5 DEF inVars
  <2>2. CallersWait'
    BY <1>1, <1>5 DEF IInv, CallersWait, MadeByHandler
  <2> QED
    BY <1>2, <1>3, <1>4, <2>1, <2>2, RequestsUntouched, InboxUntouched DEF IInv, inVars
<1>6. CASE owner[o] # App
  <2>1. PICK w \in Request : w = owner[o]
    BY <1>6 DEF IInv, TypeOK
  <2>2. MadeByHandler(o) /\ stage[w] = "calling"
    BY <1>6, <2>1 DEF IInv, CallersWait, MadeByHandler
  <2>3. stage'[w] = "handle" /\ \A q \in Request \ {w} : stage'[q] = stage[q]
    BY <1>6, <2>1 DEF IInv, TypeOK
  <2>4. CallersWait'
    BY <1>1, <2>1, <2>2, <2>3 DEF IInv, TypeOK, CallersWait, MadeByHandler
  <2> QED
    BY <1>2, <1>3, <1>4, <2>2, <2>3, <2>4, HandlerWaits DEF IInv
<1> QED
  BY <1>5, <1>6

---------------------------------------------------------------------------
(* The goroutine of a request                                              *)

(* Whoever may run finds all requests before it out of their serial phase. *)
LEMMA MayRunFacts ==
  ASSUME IInv, NEW r \in Request, MayRun(r)
  PROVE  \E i \in DOMAIN arrived :
           arrived[i] = r /\ \A k \in 1..(i - 1) : NextMayRun(arrived[k])
<1>1. PICK i \in DOMAIN arrived : arrived[i] = r /\ (i > 1 => NextMayRun(arrived[i - 1]))
  BY DEF MayRun
<1>2. \A k \in 1..(i - 1) : NextMayRun(arrived[k])
  <2> SUFFICES ASSUME NEW k \in 1..(i - 1) PROVE NextMayRun(arrived[k])
    OBVIOUS
  <2>1. arrived \in Seq(Request) /\ i \in Nat /\ i > 1 /\ i - 1 \in DOMAIN arrived
        /\ NextMayRun(arrived[i - 1]) /\ arrived[i - 1] \in Request
    BY <1>1 DEF IInv, TypeOK
  <2>2. CASE k = i - 1
    BY <2>1, <2>2
  <2>3. CASE k # i - 1
    <3>1. stage[arrived[i - 1]] # "blocked"
      BY <2>1 DEF IInv, StageFits, NextMayRun
    <3> QED
      BY <2>1, <2>3, <3>1 DEF IInv, SerialUntilParallel
  <2> QED
    BY <2>2, <2>3
<1> QED
  BY <1>1, <1>2

(* A step of one goroutine keeps the invariant if it keeps it for its      *)
(* request, does not go back behind a wait, a handler's return or an       *)
(* unlock, and starts the handler only when the request may run.           *)
LEMMA StepOfOne ==
  ASSUME IInv, NEW r \in Request, TypeOK',
         UNCHANGED <<runVars, arrived, cancelled, outVars>>,
         stage[r] \notin {"absent", "wire", "calling"},
         stage'[r] \notin {"absent", "wire", "blocked"},
         stage[r] = "blocked" => MayRun(r),
         stage[r] \in {"returned", "unhandled", "lateReply", "unlock", "done"}
           => stage'[r] \in {"returned", "unhandled", "lateReply", "unlock", "done"},
         NextMayRun(r) => NextMayRun(r)',
         \A q \in Request \ {r} : stage'[q] = stage[q] /\ state'[q] = state[q],
         \A q \in Request \ {r} : ~IsNotify(q) =>
           /\ replies'[q.id] = replies[q.id]
           /\ q.id \in handling' <=> q.id \in handling
           /\ q.id \in failed' <=> q.id \in failed,
         StageFits(r)' /\ AnswerFits(r)' /\ HandlingFits(r)'
  PROVE  IInv'
<1> USE DEF runVars, outVars
<1>1. inbox \in Seq(Request \cup Response) /\ arrived \in Seq(Request)
  BY DEF IInv, TypeOK
<1>2. \A i \in DOMAIN arrived : arrived[i] \in Request
  BY <1>1
<1>3. Arrivals'
  BY <1>2 DEF IInv, Arrivals
<1>4. \A q \in Request : StageFits(q)' /\ AnswerFits(q)' /\ HandlingFits(q)'
  BY DEF IInv, StageFits, AnswerFits, HandlingFits
<1>5. CallersWait'
  BY CallersKept
<1>6. ResponsesDistinct' /\ \A o \in OutCall : OneResponse(o)'
  BY DEF IInv, ResponsesDistinct, OneResponse, InFlight, Held
<1>7. SerialUntilParallel'
  <2> SUFFICES ASSUME NEW j \in DOMAIN arrived, NEW i \in 1..(j - 1),
                      stage'[arrived[j]] # "blocked"
               PROVE  NextMayRun(arrived[i])'
    BY DEF SerialUntilParallel
  <2>1. i \in DOMAIN arrived /\ arrived[i] \in Request /\ arrived[j] \in Request
    BY <1>1, <1>2
  <2>2. NextMayRun(arrived[i])
    <3>1. CASE arrived[j] = r /\ stage[r] = "blocked"
      <4>1. PICK k \in DOMAIN arrived :
              arrived[k] = r /\ \A n \in 1..(k - 1) : NextMayRun(arrived[n])
        BY <3>1, MayRunFacts
      <4>2. k = j
        BY <3>1, <4>1 DEF IInv, Arrivals
      <4> QED
        BY <4>1, <4>2
    <3>2. CASE ~(arrived[j] = r /\ stage[r] = "blocked")
      <4>1. stage[arrived[j]] # "blocked"
        BY <2>1, <3>2
      <4> QED
        BY <4>1 DEF IInv, SerialUntilParallel
    <3> QED
      BY <3>1, <3>2
  <2> QED
    BY <2>1, <2>2 DEF NextMayRun
<1>8. CancelReachesCall'
  <2> SUFFICES ASSUME NEW j \in DOMAIN arrived, NEW i \in 1..(j - 1),
                      arrived[j].kind = "cancel", arrived[i] = CallOf(arrived[j].id),
                      arrived[j].id \notin cancelled
               PROVE  stage'[arrived[i]] \in
                        {"returned", "unhandled", "lateReply", "unlock", "done"}
    BY DEF CancelReachesCall
  <2>1. stage[arrived[i]] \in {"returned", "unhandled", "lateReply", "unlock", "done"}
    BY DEF IInv, CancelReachesCall
  <2>2. arrived[i] \in Request
    BY <1>1
  <2> QED
    BY <2>1, <2>2
<1> QED
  BY <1>3, <1>4, <1>5, <1>6, <1>7, <1>8 DEF IInv

LEMMA BeginKeepsIInv ==
  ASSUME IInv, NEW r \in Request, Begin(r)
  PROVE  IInv'
<1> USE DEF Begin
<1>1. TypeOK'
  BY RequestFacts DEF IInv, TypeOK, Stage, runVars, outVars
<1>2. \A q \in Request \ {r} : stage'[q] = stage[q] /\ state'[q] = state[q]
  BY DEF IInv, TypeOK
<1>3. \A q \in Request \ {r} : ~IsNotify(q) =>
        /\ replies'[q.id] = replies[q.id]
        /\ q.id \in handling' <=> q.id \in handling
        /\ q.id \in failed' <=> q.id \in failed
  <2> SUFFICES ASSUME NEW q \in Request \ {r}, ~IsNotify(q)
               PROVE  /\ replies'[q.id] = replies[q.id]
                      /\ q.id \in handling' <=> q.id \in handling
                      /\ q.id \in failed' <=> q.id \in failed
    OBVIOUS
  <2>1. q.id \in Call /\ (~IsNotify(r) => q.id # r.id)
    BY SameCall, RequestFacts DEF IsNotify
  <2> QED
    BY <2>1 DEF IInv, TypeOK, StageFits
<1>4. StageFits(r)' /\ AnswerFits(r)' /\ HandlingFits(r)'
  BY RequestFacts DEF IInv, TypeOK, StageFits, AnswerFits, HandlingFits, Past, IsNotify, Kinds
<1> QED
  BY <1>1, <1>2, <1>3, <1>4, StepOfOne DEF IInv, TypeOK, StageFits, NextMayRun

LEMMA HandlerParallelKeepsIInv ==
  ASSUME IInv, NEW r \in Request, HandlerParallel(r)
  PROVE  IInv'
<1> USE DEF HandlerParallel, Parallel
<1>1. TypeOK'
  BY RequestFacts DEF IInv, TypeOK, Stage, runVars, outVars
<1>2. \A q \in Request \ {r} : stage'[q] = stage[q] /\ state'[q] = state[q]
  BY DEF IInv, TypeOK
<1>3. \A q \in Request \ {r} : ~IsNotify(q) =>
        /\ replies'[q.id] = replies[q.id]
        /\ q.id \in handling' <=> q.id \in handling
        /\ q.id \in failed' <=> q.id \in failed
  <2> SUFFICES ASSUME NEW q \in Request \ {r}, ~IsNotify(q)
               PROVE  /\ replies'[q.id] = replies[q.id]
                      /\ q.id \in handling' <=> q.id \in handling
                      /\ q.id \in failed' <=> q.id \in failed
    OBVIOUS
  <2>1. q.id \in Call /\ (~IsNotify(r) => q.id # r.id)
    BY SameCall, RequestFacts DEF IsNotify
  <2> QED
    BY <2>1 DEF IInv, TypeOK, StageFits
<1>4. StageFits(r)' /\ AnswerFits(r)' /\ HandlingFits(r)'
  BY RequestFacts DEF IInv, TypeOK, StageFits, AnswerFits, HandlingFits, Past, IsNotify, Kinds
<1> QED
  BY <1>1, <1>2, <1>3, <1>4, StepOfOne DEF IInv, TypeOK, StageFits, NextMayRun

LEMMA HandlerReplyKeepsIInv ==
  ASSUME IInv, NEW r \in Request, HandlerReply(r)
  PROVE  IInv'
<1> USE DEF HandlerReply, MarkReplied
<1>1. TypeOK'
  BY RequestFacts DEF IInv, TypeOK, Stage, runVars, outVars
<1>2. \A q \in Request \ {r} : stage'[q] = stage[q] /\ state'[q] = state[q]
  BY DEF IInv, TypeOK
<1>3. \A q \in Request \ {r} : ~IsNotify(q) =>
        /\ replies'[q.id] = replies[q.id]
        /\ q.id \in handling' <=> q.id \in handling
        /\ q.id \in failed' <=> q.id \in failed
  <2> SUFFICES ASSUME NEW q \in Request \ {r}, ~IsNotify(q)
               PROVE  /\ replies'[q.id] = replies[q.id]
                      /\ q.id \in handling' <=> q.id \in handling
                      /\ q.id \in failed' <=> q.id \in failed
    OBVIOUS
  <2>1. q.id \in Call /\ (~IsNotify(r) => q.id # r.id)
    BY SameCall, RequestFacts DEF IsNotify
  <2> QED
    BY <2>1 DEF IInv, TypeOK, StageFits
<1>4. StageFits(r)' /\ AnswerFits(r)' /\ HandlingFits(r)'
  BY RequestFacts DEF IInv, TypeOK, StageFits, AnswerFits, HandlingFits, Past, IsNotify, Kinds
<1> QED
  BY <1>1, <1>2, <1>3, <1>4, StepOfOne DEF IInv, TypeOK, StageFits, NextMayRun

LEMMA DetachedReplyKeepsIInv ==
  ASSUME IInv, NEW r \in Request, DetachedReply(r)
  PROVE  IInv'
<1> USE DEF DetachedReply, MarkReplied, NotSent
<1>1. TypeOK'
  BY RequestFacts DEF IInv, TypeOK, Stage, runVars, outVars, StageFits, AnswerFits, IsNotify
<1>2. \A q \in Request \ {r} : stage'[q] = stage[q] /\ state'[q] = state[q]
  BY DEF IInv, TypeOK
<1>3. \A q \in Request \ {r} : ~IsNotify(q) =>
        /\ replies'[q.id] = replies[q.id]
        /\ q.id \in handling' <=> q.id \in handling
        /\ q.id \in failed' <=> q.id \in failed
  <2> SUFFICES ASSUME NEW q \in Request \ {r}, ~IsNotify(q)
               PROVE  /\ replies'[q.id] = replies[q.id]
                      /\ q.id \in handling' <=> q.id \in handling
                      /\ q.id \in failed' <=> q.id \in failed
    OBVIOUS
  <2>1. q.id \in Call /\ (~IsNotify(r) => q.id # r.id)
    BY SameCall, RequestFacts DEF IsNotify
  <2> QED
    BY <2>1 DEF IInv, TypeOK, StageFits
<1>4. StageFits(r)' /\ AnswerFits(r)' /\ HandlingFits(r)'
  BY RequestFacts DEF IInv, TypeOK, StageFits, AnswerFits, HandlingFits, Past, IsNotify, Kinds
<1> QED
  BY <1>1, <1>2, <1>3, <1>4, StepOfOne DEF IInv, TypeOK, StageFits, NextMayRun

LEMMA ReplyWriteKeepsIInv ==
  ASSUME IInv, NEW r \in Request, ReplyWrite(r)
  PROVE  IInv'
<1> USE DEF ReplyWrite, Written, AfterReply, NotSent
<1>1. TypeOK'
  BY RequestFacts DEF IInv, TypeOK, Stage, runVars, outVars, StageFits, AnswerFits, IsNotify
<1>2. \A q \in Request \ {r} : stage'[q] = stage[q] /\ state'[q] = state[q]
  BY DEF IInv, TypeOK
<1>3. \A q \in Request \ {r} : ~IsNotify(q) =>
        /\ replies'[q.id] = replies[q.id]
        /\ q.id \in handling' <=> q.id \in handling
        /\ q.id \in failed' <=> q.id \in failed
  <2> SUFFICES ASSUME NEW q \in Request \ {r}, ~IsNotify(q)
               PROVE  /\ replies'[q.id] = replies[q.id]
                      /\ q.id \in handling' <=> q.id \in handling
                      /\ q.id \in failed' <=> q.id \in failed
    OBVIOUS
  <2>1. q.id \in Call /\ (~IsNotify(r) => q.id # r.id)
    BY SameCall, RequestFacts DEF IsNotify
  <2> QED
    BY <2>1 DEF IInv, TypeOK, StageFits
<1>4. StageFits(r)' /\ AnswerFits(r)' /\ HandlingFits(r)'
  <2>1. ~IsNotify(r) /\ r.id \in Call /\ state'[r] = "replied"
    BY RequestFacts DEF IInv, TypeOK, StageFits, IsNotify
  <2>2. stage'[r] \in {"handle", "unlock"} /\ (stage'[r] = "unlock" <=> stage[r] = "lateReply")
    BY DEF IInv, TypeOK
  <2>3. StageFits(r)' /\ HandlingFits(r)'
    BY <2>1, <2>2 DEF IInv, StageFits, HandlingFits, Past, IsNotify
  <2>4. replies[r.id] = 0 /\ r.id \notin failed
    BY <2>1 DEF IInv, AnswerFits
  <2>5. /\ r.id \in failed' => replies'[r.id] = 0
        /\ replies'[r.id] = 1 \/ r.id \in cancelled' \cup failed'
    BY <2>1, <2>4 DEF IInv, TypeOK
  <2> QED
    BY <2>1, <2>2, <2>3, <2>5 DEF AnswerFits
<1> QED
  BY <1>1, <1>2, <1>3, <1>4, StepOfOne DEF IInv, TypeOK, StageFits, NextMayRun

LEMMA HandlerReturnKeepsIInv ==
  ASSUME IInv, NEW r \in Request, HandlerReturn(r)
  PROVE  IInv'
<1> USE DEF HandlerReturn
<1>1. TypeOK'
  BY RequestFacts DEF IInv, TypeOK, Stage, runVars, outVars
<1>2. \A q \in Request \ {r} : stage'[q] = stage[q] /\ state'[q] = state[q]
  BY DEF IInv, TypeOK
<1>3. \A q \in Request \ {r} : ~IsNotify(q) =>
        /\ replies'[q.id] = replies[q.id]
        /\ q.id \in handling' <=> q.id \in handling
        /\ q.id \in failed' <=> q.id \in failed
  <2> SUFFICES ASSUME NEW q \in Request \ {r}, ~IsNotify(q)
               PROVE  /\ replies'[q.id] = replies[q.id]
                      /\ q.id \in handling' <=> q.id \in handling
                      /\ q.id \in failed' <=> q.id \in failed
    OBVIOUS
  <2>1. q.id \in Call /\ (~IsNotify(r) => q.id # r.id)
    BY SameCall, RequestFacts DEF IsNotify
  <2> QED
    BY <2>1 DEF IInv, TypeOK, StageFits
<1>4. StageFits(r)' /\ AnswerFits(r)' /\ HandlingFits(r)'
  BY RequestFacts DEF IInv, TypeOK, StageFits, AnswerFits, HandlingFits, Past, IsNotify, Kinds
<1> QED
  BY <1>1, <1>2, <1>3, <1>4, StepOfOne DEF IInv, TypeOK, StageFits, NextMayRun

LEMMA StopHandlingKeepsIInv ==
  ASSUME IInv, NEW r \in Request, StopHandling(r)
  PROVE  IInv'
<1> USE DEF StopHandling
<1>1. TypeOK'
  BY RequestFacts DEF IInv, TypeOK, Stage, runVars, outVars
<1>2. \A q \in Request \ {r} : stage'[q] = stage[q] /\ state'[q] = state[q]
  BY DEF IInv, TypeOK
<1>3. \A q \in Request \ {r} : ~IsNotify(q) =>
        /\ replies'[q.id] = replies[q.id]
        /\ q.id \in handling' <=> q.id \in handling
        /\ q.id \in failed' <=> q.id \in failed
  <2> SUFFICES ASSUME NEW q \in Request \ {r}, ~IsNotify(q)
               PROVE  /\ replies'[q.id] = replies[q.id]
                      /\ q.id \in handling' <=> q.id \in handling
                      /\ q.id \in failed' <=> q.id \in failed
    OBVIOUS
  <2>1. q.id \in Call /\ (~IsNotify(r) => q.id # r.id)
    BY SameCall, RequestFacts DEF IsNotify
  <2> QED
    BY <2>1 DEF IInv, TypeOK, StageFits
<1>4. StageFits(r)' /\ AnswerFits(r)' /\ HandlingFits(r)'
  BY RequestFacts DEF IInv, TypeOK, StageFits, AnswerFits, HandlingFits, Past, IsNotify, Kinds
<1> QED
  BY <1>1, <1>2, <1>3, <1>4, StepOfOne DEF IInv, TypeOK, StageFits, NextMayRun

LEMMA DeferredReplyKeepsIInv ==
  ASSUME IInv, NEW r \in Request, DeferredReply(r)
  PROVE  IInv'
<1> USE DEF DeferredReply, MarkReplied, DidNotReply
<1>1. TypeOK'
  BY RequestFacts DEF IInv, TypeOK, Stage, runVars, outVars
<1>2. \A q \in Request \ {r} : stage'[q] = stage[q] /\ state'[q] = state[q]
  BY DEF IInv, TypeOK
<1>3. \A q \in Request \ {r} : ~IsNotify(q) =>
        /\ replies'[q.id] = replies[q.id]
        /\ q.id \in handling' <=> q.id \in handling
        /\ q.id \in failed' <=> q.id \in failed
  <2> SUFFICES ASSUME NEW q \in Request \ {r}, ~IsNotify(q)
               PROVE  /\ replies'[q.id] = replies[q.id]
                      /\ q.id \in handling' <=> q.id \in handling
                      /\ q.id \in failed' <=> q.id \in failed
    OBVIOUS
  <2>1. q.id \in Call /\ (~IsNotify(r) => q.id # r.id)
    BY SameCall, RequestFacts DEF IsNotify
  <2> QED
    BY <2>1 DEF IInv, TypeOK, StageFits
<1>4. StageFits(r)' /\ AnswerFits(r)' /\ HandlingFits(r)'
  BY RequestFacts DEF IInv, TypeOK, StageFits, AnswerFits, HandlingFits, Past, IsNotify, Kinds
<1> QED
  BY <1>1, <1>2, <1>3, <1>4, StepOfOne DEF IInv, TypeOK, StageFits, NextMayRun

LEMMA DeferredParallelKeepsIInv ==
  ASSUME IInv, NEW r \in Request, DeferredParallel(r)
  PROVE  IInv'
<1> USE DEF DeferredParallel, Parallel
<1>1. TypeOK'
  BY RequestFacts DEF IInv, TypeOK, Stage, runVars, outVars
<1>2. \A q \in Request \ {r} : stage'[q] = stage[q] /\ state'[q] = state[q]
  BY DEF IInv, TypeOK
<1>3. \A q \in Request \ {r} : ~IsNotify(q) =>
        /\ replies'[q.id] = replies[q.id]
        /\ q.id \in handling' <=> q.id \in handling
        /\ q.id \in failed' <=> q.id \in failed
  <2> SUFFICES ASSUME NEW q \in Request \ {r}, ~IsNotify(q)
               PROVE  /\ replies'[q.id] = replies[q.id]
                      /\ q.id \in handling' <=> q.id \in handling
                      /\ q.id \in failed' <=> q.id \in failed
    OBVIOUS
  <2>1. q.id \in Call /\ (~IsNotify(r) => q.id # r.id)
    BY SameCall, RequestFacts DEF IsNotify
  <2> QED
    BY <2>1 DEF IInv, TypeOK, StageFits
<1>4. StageFits(r)' /\ AnswerFits(r)' /\ HandlingFits(r)'
  BY RequestFacts DEF IInv, TypeOK, StageFits, AnswerFits, HandlingFits, Past, IsNotify, Kinds
<1> QED
  BY <1>1, <1>2, <1>3, <1>4, StepOfOne DEF IInv, TypeOK, StageFits, NextMayRun

---------------------------------------------------------------------------
(* The invariant, and the safety properties it implies                     *)

LEMMA NextKeepsIInv == IInv /\ [Next]_vars => IInv'
<1> SUFFICES ASSUME IInv, [Next]_vars PROVE IInv'
  OBVIOUS
<1>1. CASE RunLoop
  BY <1>1, RunRequestKeepsIInv, RunResponseKeepsIInv, RunDeliverKeepsIInv DEF RunLoop
<1>2. CASE RunExit
  BY <1>2, RunExitKeepsIInv
<1>3. ASSUME NEW r \in Request,
             PeerRequest(r) \/ HandlerParallel(r) \/ HandlerReply(r) \/ Goroutine(r)
      PROVE  IInv'
  BY <1>3, PeerRequestKeepsIInv, HandlerParallelKeepsIInv, HandlerReplyKeepsIInv,
     BeginKeepsIInv, DetachedReplyKeepsIInv, ReplyWriteKeepsIInv, HandlerReturnKeepsIInv,
     StopHandlingKeepsIInv, DeferredReplyKeepsIInv, DeferredParallelKeepsIInv DEF Goroutine
<1>4. ASSUME NEW o \in OutCall, PeerResponse(o) \/ CancelContext(o) \/ Caller(o)
      PROVE  IInv'
  BY <1>4, PeerResponseKeepsIInv, CallKeepsIInv, CallReturnKeepsIInv DEF Caller
<1>5. ASSUME NEW o \in OutCall, NEW w \in Request \cup {App}, CallRegister(o, w)
      PROVE  IInv'
  BY <1>5, CallRegisterKeepsIInv
<1>6. CASE UNCHANGED vars
  <2>1. UNCHANGED inVars /\ UNCHANGED outVars /\ UNCHANGED runVars
    BY <1>6 DEF vars, inVars, outVars, runVars
  <2>2. TypeOK'
    BY <2>1 DEF IInv, TypeOK, inVars, outVars, runVars
  <2>3. CallersWait'
    BY <2>1, CallersUntouched DEF MadeByHandler, inVars, outVars
  <2>4. \A o \in OutCall : OneResponse(o)'
    BY <2>1 DEF IInv, OneResponse, InFlight, Held, outVars, runVars
  <2> QED
    BY <2>1, <2>2, <2>3, <2>4, RequestsUntouched, InboxUntouched DEF IInv, inVars, runVars, outVars
<1> QED
  BY <1>1, <1>2, <1>3, <1>4, <1>5, <1>6 DEF Next

THEOREM Invariance == Spec => []IInv
  BY InitIInv, NextKeepsIInv, PTL DEF Spec

(* Types, and what they say of the connection: no call is answered twice,  *)
(* and no channel holds two responses (Conn.Call, Request.Reply).          *)
THEOREM TypeCorrect == Spec => []TypeOK
<1>1. IInv => TypeOK
  BY DEF IInv
<1> QED
  BY <1>1, Invariance, PTL

(* Handlers start in the order of arrival, and one at a time until they    *)
(* call Parallel or Reply (Conn.Run, Request.Parallel).                    *)
THEOREM HandlersInOrder == Spec => []SerialUntilParallel
<1>1. IInv => SerialUntilParallel
  BY DEF IInv
<1> QED
  BY <1>1, Invariance, PTL

(* A call is answered at most once and not after its reply failed, and it  *)
(* has its answer when its goroutine is over unless it was cancelled or    *)
(* that reply failed (Request.Reply, the deferred function of Conn.Run).   *)
THEOREM CallsAnsweredOnce == Spec => []AnsweredOnce
<1>1. IInv => AnsweredOnce
  <2> SUFFICES ASSUME IInv, NEW c \in Call
               PROVE  /\ replies[c] <= 1
                      /\ c \in failed => replies[c] = 0
                      /\ stage[CallOf(c)] = "done" =>
                           replies[c] = 1 \/ c \in cancelled \cup failed
    BY DEF AnsweredOnce
  <2>1. replies[c] <= 1
    BY DEF IInv, TypeOK
  <2>2. AnswerFits(CallOf(c)) /\ ~IsNotify(CallOf(c)) /\ CallOf(c).id = c
    BY CallFacts DEF IInv, IsNotify
  <2> QED
    BY <2>1, <2>2 DEF AnswerFits
<1> QED
  BY <1>1, Invariance, PTL

(* A cancellation reaches the call it names as long as the handler of the  *)
(* call has not returned (Canceller.Request, Conn.Cancel).                 *)
THEOREM CancelsReachCalls == Spec => []CancelReachesCall
<1>1. IInv => CancelReachesCall
  BY DEF IInv
<1> QED
  BY <1>1, Invariance, PTL

(* The send of a response to a call that is already gone does not block    *)
(* Run (the comment at the select of Conn.Call).                           *)
THEOREM RunSends == Spec => []RunNeverBlocks
<1>1. IInv => RunNeverBlocks
  <2> SUFFICES ASSUME IInv, run = "deliver" PROVE CanSend(deliverTo)
    BY DEF RunNeverBlocks
  <2>1. deliverTo \in OutCall /\ Held(deliverTo)
    BY DEF IInv, TypeOK, Held
  <2>2. rchan[deliverTo] = 0
    BY <2>1 DEF IInv, OneResponse
  <2> QED
    BY <2>2 DEF CanSend, RchanCap
<1> QED
  BY <1>1, Invariance, PTL

---------------------------------------------------------------------------
(* The connection implements RpcService                                    *)

LEMMA PhaseFacts ==
  ASSUME NEW r \in Request
  PROVE  /\ PhaseOf[r] = Phase(r) /\ PhaseOf'[r] = Phase(r)'
         /\ ~IsNotify(r) => AnswersTo[r] = replies[r.id] /\ AnswersTo'[r] = replies'[r.id]
         /\ IsNotify(r) => AnswersTo[r] = 0 /\ AnswersTo'[r] = 0
  BY DEF PhaseOf, AnswersTo, IsNotify

LEMMA AnswersKept == UNCHANGED replies => UNCHANGED AnswersTo
  BY DEF AnswersTo, IsNotify

(* What the service cannot see.                                            *)
LEMMA Unseen ==
  ASSUME IInv, UNCHANGED <<arrived, state, replies>>,
         \A r \in Request : stage'[r] = "blocked" <=> stage[r] = "blocked"
  PROVE  UNCHANGED Service!vars
<1>1. \A r \in Request : Phase(r)' = Phase(r)
  BY DEF Phase
<1>2. UNCHANGED PhaseOf
  BY <1>1 DEF PhaseOf
<1> QED
  BY <1>2, AnswersKept DEF Service!vars

(* A step of one request moves its phase only.                             *)
LEMMA PhaseOfOne ==
  ASSUME NEW r \in Request, NEW x, Phase(r)' = x,
         \A q \in Request \ {r} : stage'[q] = stage[q] /\ state'[q] = state[q]
  PROVE  PhaseOf' = [PhaseOf EXCEPT ![r] = x]
<1>1. \A q \in Request \ {r} : Phase(q)' = Phase(q)
  BY DEF Phase
<1> QED
  BY <1>1 DEF PhaseOf

LEMMA ArriveStep ==
  ASSUME IInv, RunRequest
  PROVE  Service!Next
<1> USE DEF RunRequest, outVars
<1>1. PICK r \in Request : r = Head(inbox)
  OBVIOUS
<1>2. stage[r] = "wire" /\ state[r] = "waiting"
  BY <1>1, ReadFacts DEF IInv, StageFits
<1>3. stage'[r] = "blocked" /\ state' = state
      /\ \A q \in Request \ {r} : stage'[q] = stage[q]
  BY <1>1 DEF IInv, TypeOK
<1>4. Phase(r) = "new" /\ Phase(r)' = "waiting"
  BY <1>2, <1>3 DEF Phase
<1>5. PhaseOf' = [PhaseOf EXCEPT ![r] = "waiting"]
  BY <1>3, <1>4, PhaseOfOne
<1>6. Service!Arrive(r)
  BY <1>1, <1>4, <1>5, PhaseFacts, AnswersKept DEF Service!Arrive
<1> QED
  BY <1>6 DEF Service!Next

LEMMA StartStep ==
  ASSUME IInv, NEW r \in Request, Begin(r)
  PROVE  Service!Next
<1> USE DEF Begin
<1>1. state[r] = "waiting" /\ state'[r] = "serial"
      /\ \A q \in Request \ {r} : stage'[q] = stage[q] /\ state'[q] = state[q]
  BY DEF IInv, TypeOK, StageFits
<1>2. Phase(r) = "waiting" /\ Phase(r)' = "serial"
  BY <1>1 DEF Phase
<1>3. PhaseOf' = [PhaseOf EXCEPT ![r] = "serial"]
  BY <1>1, <1>2, PhaseOfOne
<1>4. \E i \in DOMAIN arrived :
        arrived[i] = r /\ \A j \in 1..(i - 1) : PhaseOf[arrived[j]] = "released"
  <2>1. PICK i \in DOMAIN arrived :
          arrived[i] = r /\ \A k \in 1..(i - 1) : NextMayRun(arrived[k])
    BY MayRunFacts
  <2>2. \A k \in 1..(i - 1) : arrived[k] \in Request
    BY DEF IInv, TypeOK
  <2>3. \A k \in 1..(i - 1) : PhaseOf[arrived[k]] = "released"
    BY <2>1, <2>2, PhaseFacts DEF Phase, NextMayRun
  <2> QED
    BY <2>1, <2>3
<1>5. Service!Start(r)
  BY <1>2, <1>3, <1>4, PhaseFacts, AnswersKept DEF Service!Start
<1> QED
  BY <1>5 DEF Service!Next

(* A step that marks a request parallel or replied ends its serial phase,  *)
(* or was preceded by one that did.                                        *)
LEMMA ReleaseStep ==
  ASSUME IInv, NEW r \in Request, UNCHANGED <<arrived, replies>>,
         state[r] # "waiting", state'[r] \in {"parallel", "replied"},
         \A q \in Request \ {r} : stage'[q] = stage[q] /\ state'[q] = state[q]
  PROVE  [Service!Next]_(Service!vars)
<1>1. Phase(r)' = "released"
  BY DEF Phase
<1>2. PhaseOf' = [PhaseOf EXCEPT ![r] = "released"]
  BY <1>1, PhaseOfOne
<1>3. CASE state[r] = "serial"
  <2>1. Service!Release(r)
    BY <1>2, <1>3, PhaseFacts, AnswersKept DEF Phase, Service!Release
  <2> QED
    BY <2>1 DEF Service!Next
<1>4. CASE state[r] # "serial"
  <2>1. PhaseOf[r] = "released"
    BY <1>4, PhaseFacts DEF Phase
  <2>2. UNCHANGED PhaseOf
    BY <1>2, <2>1 DEF PhaseOf
  <2> QED
    BY <2>2, AnswersKept DEF Service!vars
<1> QED
  BY <1>3, <1>4

(* The write of an answer.                                                 *)
LEMMA AnswerStep ==
  ASSUME IInv, NEW r \in Request, ~IsNotify(r), UNCHANGED arrived,
         replies[r.id] = 0, replies' = [replies EXCEPT ![r.id] = @ + 1],
         state[r] # "waiting", state'[r] \in {"parallel", "replied"},
         \A q \in Request \ {r} : stage'[q] = stage[q] /\ state'[q] = state[q]
  PROVE  Service!Next
<1>1. Phase(r) \in {"serial", "released"} /\ Phase(r)' = "released"
  BY DEF Phase
<1>2. PhaseOf' = [PhaseOf EXCEPT ![r] = "released"]
  BY <1>1, PhaseOfOne
<1>3. r.id \in Call /\ replies'[r.id] = 1
  BY RequestFacts DEF IInv, TypeOK, IsNotify
<1>4. \A q \in Request \ {r} : AnswersTo'[q] = AnswersTo[q]
  <2> SUFFICES ASSUME NEW q \in Request \ {r}, ~IsNotify(q)
               PROVE  replies'[q.id] = replies[q.id]
    BY PhaseFacts
  <2>1. q.id \in Call /\ q.id # r.id
    BY SameCall, RequestFacts DEF IsNotify
  <2> QED
    BY <2>1 DEF IInv, TypeOK
<1>5. AnswersTo[r] = 0 /\ AnswersTo' = [AnswersTo EXCEPT ![r] = 1]
  <2>1. AnswersTo[r] = 0 /\ AnswersTo'[r] = 1
    BY <1>3, PhaseFacts
  <2>2. /\ AnswersTo = [q \in Request |-> AnswersTo[q]]
        /\ AnswersTo' = [q \in Request |-> AnswersTo'[q]]
    BY DEF AnswersTo
  <2> QED
    BY <1>4, <2>1, <2>2
<1>6. Service!Answer(r)
  BY <1>1, <1>2, <1>5, PhaseFacts DEF Service!Answer
<1> QED
  BY <1>6 DEF Service!Next

(* A step of a goroutine is a step of the service, or unseen.              *)
LEMMA GoroutineStep ==
  ASSUME IInv, NEW r \in Request, HandlerParallel(r) \/ HandlerReply(r) \/ Goroutine(r)
  PROVE  [Service!Next]_(Service!vars)
<1> USE DEF IInv
<1>1. CASE Begin(r)
  BY <1>1, StartStep
<1>2. CASE HandlerParallel(r)
  BY <1>2, ReleaseStep DEF HandlerParallel, Parallel, TypeOK
<1>3. CASE HandlerReply(r)
  BY <1>3, ReleaseStep DEF HandlerReply, MarkReplied, TypeOK, StageFits
<1>4. CASE DetachedReply(r)
  <2>1. ~IsNotify(r) /\ state[r] = "serial" /\ replies[r.id] = 0
    BY <1>4 DEF DetachedReply, StageFits, AnswerFits
  <2>2. state'[r] = "replied" /\ \A q \in Request \ {r} : stage'[q] = stage[q] /\ state'[q] = state[q]
    BY <1>4 DEF DetachedReply, MarkReplied, TypeOK
  <2>3. CASE replies' = [replies EXCEPT ![r.id] = @ + 1]
    BY <1>4, <2>1, <2>2, <2>3, AnswerStep DEF DetachedReply
  <2>4. CASE UNCHANGED replies
    BY <1>4, <2>1, <2>2, <2>4, ReleaseStep DEF DetachedReply
  <2> QED
    BY <1>4, <2>3, <2>4 DEF DetachedReply, NotSent
<1>5. CASE ReplyWrite(r)
  <2>1. ~IsNotify(r) /\ state[r] = "replied" /\ replies[r.id] = 0
    BY <1>5 DEF ReplyWrite, StageFits, AnswerFits
  <2>2. UNCHANGED <<arrived, state>> /\ stage'[r] # "blocked" /\ stage[r] # "blocked"
        /\ \A q \in Request \ {r} : stage'[q] = stage[q]
    BY <1>5 DEF ReplyWrite, AfterReply, TypeOK
  <2>3. CASE UNCHANGED replies
    BY <2>2, <2>3, Unseen
  <2>4. CASE replies' = [replies EXCEPT ![r.id] = @ + 0]
    <3>1. replies \in [Call -> 0..1]
      BY DEF TypeOK
    <3>2. UNCHANGED replies
      BY <2>4, <3>1
    <3> QED
      BY <2>3, <3>2
  <2>5. CASE replies' = [replies EXCEPT ![r.id] = @ + 1]
    BY <2>1, <2>2, <2>5, AnswerStep
  <2>6. \/ UNCHANGED replies
        \/ replies' = [replies EXCEPT ![r.id] = @ + 0]
        \/ replies' = [replies EXCEPT ![r.id] = @ + 1]
    BY <1>5 DEF ReplyWrite, Written, NotSent
  <2> QED
    BY <2>3, <2>4, <2>5, <2>6
<1>6. CASE HandlerReturn(r) \/ StopHandling(r)
  BY <1>6, Unseen DEF HandlerReturn, StopHandling, TypeOK
<1>7. CASE DeferredReply(r)
  <2>1. CASE DidNotReply(r)
    BY <1>7, <2>1, ReleaseStep DEF DeferredReply, MarkReplied, TypeOK, StageFits
  <2>2. CASE ~DidNotReply(r)
    BY <1>7, <2>2, Unseen DEF DeferredReply, TypeOK
  <2> QED
    BY <2>1, <2>2
<1>8. CASE DeferredParallel(r)
  BY <1>8, ReleaseStep DEF DeferredParallel, Parallel, TypeOK, StageFits
<1> QED
  BY <1>1, <1>2, <1>3, <1>4, <1>5, <1>6, <1>7, <1>8 DEF Goroutine

(* What the peer and the callers of this end do is unseen.                 *)
LEMMA OtherStep ==
  ASSUME IInv,
         \/ RunResponse \/ RunDeliver \/ RunExit
         \/ \E r \in Request : PeerRequest(r)
         \/ \E o \in OutCall : PeerResponse(o) \/ CancelContext(o) \/ Caller(o)
         \/ \E o \in OutCall, w \in Request \cup {App} : CallRegister(o, w)
         \/ UNCHANGED vars
  PROVE  UNCHANGED Service!vars
<1>1. UNCHANGED <<arrived, state, replies>>
  BY DEF RunResponse, RunDeliver, RunExit, PeerRequest, PeerResponse, CancelContext, Caller,
         CallWrite, CallWriteFail, CallReceive, CallCancelled, CallReturn, CallRegister,
         vars, inVars, outVars, runVars
<1>2. \A r \in Request : stage'[r] = "blocked" <=> stage[r] = "blocked"
  <2>1. CASE UNCHANGED stage
    BY <2>1
  <2>2. ASSUME NEW r \in Request, PeerRequest(r)
        PROVE  \A q \in Request : stage'[q] = "blocked" <=> stage[q] = "blocked"
    BY <2>2 DEF PeerRequest, IInv, TypeOK
  <2>3. ASSUME NEW o \in OutCall, CallReturn(o)
        PROVE  \A q \in Request : stage'[q] = "blocked" <=> stage[q] = "blocked"
    BY <2>3 DEF CallReturn, IInv, TypeOK, CallersWait, MadeByHandler
  <2>4. ASSUME NEW o \in OutCall, NEW w \in Request \cup {App}, CallRegister(o, w)
        PROVE  \A q \in Request : stage'[q] = "blocked" <=> stage[q] = "blocked"
    BY <2>4 DEF CallRegister, IInv, TypeOK
  <2> QED
    BY <2>1, <2>2, <2>3, <2>4 DEF RunResponse, RunDeliver, RunExit, PeerResponse,
       CancelContext, Caller, CallWrite, CallWriteFail, CallReceive, CallCancelled,
       vars, inVars
<1> QED
  BY <1>1, <1>2, Unseen

(* The connection implements RpcService, with any number of requests and   *)
(* calls: requests are taken up in order, one at a time until they give    *)
(* way, and answered at most once, not before that (Conn.Run, Request).    *)
THEOREM Refinement == Spec => ServesInOrder
<1>1. Init => Service!Init
  <2> SUFFICES ASSUME Init PROVE Service!Init
    OBVIOUS
  <2>1. \A r \in Request : Phase(r) = "new"
    BY DEF Init, Phase
  <2>2. \A r \in Request : ~IsNotify(r) => replies[r.id] = 0
    BY RequestFacts DEF Init, IsNotify
  <2> QED
    BY <2>1, <2>2 DEF Init, PhaseOf, AnswersTo, Service!Init
<1>2. IInv /\ [Next]_vars => [Service!Next]_(Service!vars)
  <2> SUFFICES ASSUME IInv, [Next]_vars PROVE [Service!Next]_(Service!vars)
    OBVIOUS
  <2>1. CASE RunRequest
    BY <2>1, ArriveStep
  <2>2. ASSUME NEW r \in Request, HandlerParallel(r) \/ HandlerReply(r) \/ Goroutine(r)
        PROVE  [Service!Next]_(Service!vars)
    BY <2>2, GoroutineStep
  <2> QED
    BY <2>1, <2>2, OtherStep DEF Next, RunLoop
<1> QED
  BY <1>1, <1>2, Invariance, PTL DEF Spec, ServesInOrder, Service!Spec
============================================================================
