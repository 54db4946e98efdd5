----------------------------- MODULE RpcService -----------------------------
(***************************************************************************)
(* What a connection of the language server promises, without goroutines,  *)
(* channels and messages: requests are taken up in the order in which they *)
(* arrive, each when all before it have given way, and a call is answered  *)
(* at most once, never before it was taken up.                             *)
(***************************************************************************)
EXTENDS Naturals, Sequences

CONSTANTS
  Request,   \* the requests that may arrive
  Calls      \* those that are answered

VARIABLES
  order,     \* the requests in the order of their arrival
  phase,     \* phase[r]: "new", "waiting", "serial" or "released"
  answers    \* answers[r]: how often r was answered

vars == <<order, phase, answers>>

Init ==
  /\ order = <<>>
  /\ phase = [r \in Request |-> "new"]
  /\ answers = [r \in Request |-> 0]

Arrive(r) ==
  /\ phase[r] = "new"
  /\ order' = Append(order, r)
  /\ phase' = [phase EXCEPT ![r] = "waiting"]
  /\ UNCHANGED answers

(* Nobody that arrived before the request is waiting or serial.            *)
Start(r) ==
  /\ phase[r] = "waiting"
  /\ \E i \in DOMAIN order :
       order[i] = r /\ \A j \in 1..(i - 1) : phase[order[j]] = "released"
  /\ phase' = [phase EXCEPT ![r] = "serial"]
  /\ UNCHANGED <<order, answers>>

Release(r) ==
  /\ phase[r] = "serial"
  /\ phase' = [phase EXCEPT ![r] = "released"]
  /\ UNCHANGED <<order, answers>>

(* The answer to a call also ends its serial phase.                        *)
Answer(r) ==
  /\ r \in Calls
  /\ phase[r] \in {"serial", "released"}
  /\ answers[r] = 0
  /\ phase' = [phase EXCEPT ![r] = "released"]
  /\ answers' = [answers EXCEPT ![r] = 1]
  /\ UNCHANGED order

Next == \E r \in Request : Arrive(r) \/ Start(r) \/ Release(r) \/ Answer(r)

Spec == Init /\ [][Next]_vars
============================================================================
