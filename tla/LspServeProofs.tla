--------------------------- MODULE LspServeProofs ---------------------------
(***************************************************************************)
(* Proofs about LspServe, for any finite number of clients.                *)
(***************************************************************************)
EXTENDS LspServe, FiniteSetTheorems, TLAPS

LEMMA ServiceIsFinite == IsFiniteSet(InService)
<1>1. InService \subseteq Client
  BY DEF InService
<1> QED
  BY <1>1, ServeAssumption, FS_Subset

LEMMA InitIInv == Init => IInv
<1> SUFFICES ASSUME Init PROVE IInv
  OBVIOUS
<1>1. InService = {}
  BY DEF Init, InService
<1>2. TypeOK
  BY DEF Init, TypeOK
<1> QED
  BY <1>1, <1>2, FS_EmptySet DEF Init, IInv, CountsClients, TimerTracksIdleness

(* The steps that neither start nor end the service of a client, and leave *)
(* the timer to itself or to its tick.                                     *)
LEMMA OthersKeepIInv ==
  ASSUME IInv,
         \/ \E c \in Client : Dial(c) \/ Accept(c) \/ StreamEnd(c)
         \/ AcceptFail \/ TimerFire \/ Cancel
         \/ DoneListening \/ IdleTimeout \/ ContextDone
         \/ UNCHANGED vars
  PROVE  IInv'
<1> USE ServeAssumption DEF IInv, TypeOK, Returned, env
<1>1. CASE \E c \in Client : Dial(c) \/ StreamEnd(c)
  <2>1. PICK c \in Client : Dial(c) \/ StreamEnd(c)
    BY <1>1
  <2>2. InService' = InService
    BY <2>1 DEF InService, Dial, StreamEnd
  <2> QED
    BY <2>1, <2>2 DEF Dial, StreamEnd, CountsClients, TimerTracksIdleness
<1>2. CASE \E c \in Client : Accept(c)
  BY <1>2 DEF Accept, CountsClients, TimerTracksIdleness, InService
<1>3. CASE AcceptFail \/ TimerFire \/ Cancel
  <2>1. InService' = InService /\ client' = client /\ accepted' = accepted
    BY <1>3 DEF AcceptFail, TimerFire, Cancel, InService
  <2>2. activeConns' = activeConns /\ CountsClients'
    BY <1>3, <2>1 DEF AcceptFail, TimerFire, Cancel, CountsClients
  <2>3. TypeOK'
    BY <1>3, <2>1, <2>2 DEF AcceptFail, TimerFire, Cancel
  <2>4. TimerTracksIdleness'
    BY <1>3, <2>1 DEF AcceptFail, TimerFire, Cancel, TimerTracksIdleness
  <2> QED
    BY <2>1, <2>2, <2>3, <2>4
<1>4. CASE DoneListening \/ IdleTimeout \/ ContextDone
  <2>1. InService' = InService /\ client' = client /\ accepted' = accepted
    BY <1>4 DEF DoneListening, IdleTimeout, ContextDone, InService
  <2>2. activeConns' = activeConns /\ CountsClients'
    BY <1>4, <2>1 DEF DoneListening, IdleTimeout, ContextDone, CountsClients
  <2>3. TypeOK'
    BY <1>4, <2>1, <2>2 DEF DoneListening, IdleTimeout, ContextDone
  <2>4. TimerTracksIdleness'
    BY <1>4, <2>1 DEF DoneListening, IdleTimeout, ContextDone, TimerTracksIdleness
  <2> QED
    BY <2>1, <2>2, <2>3, <2>4
<1>5. CASE UNCHANGED vars
  BY <1>5 DEF vars, CountsClients, TimerTracksIdleness, InService
<1> QED
  BY <1>1, <1>2, <1>3, <1>4, <1>5

LEMMA NewConnKeepsIInv ==
  ASSUME IInv, NewConn
  PROVE  IInv'
<1> USE ServeAssumption DEF IInv, TypeOK, NewConn, ConnOffered, TimerStopped
<1>1. accepted \in Client /\ accepted \notin InService
  BY DEF InService
<1>2. InService' = InService \cup {accepted}
  BY <1>1 DEF InService
<1>3. Cardinality(InService') = Cardinality(InService) + 1
  BY <1>1, <1>2, ServiceIsFinite, FS_AddElement
<1>4. CountsClients'
  BY <1>3 DEF CountsClients
<1>5. activeConns' \in Nat /\ client' \in [Client -> {"away", "dialled", "served", "closing", "gone"}]
  OBVIOUS
<1>6. TypeOK'
  BY <1>5
<1>7. TimerTracksIdleness'
  BY <1>2 DEF TimerTracksIdleness
<1> QED
  BY <1>4, <1>6, <1>7

LEMMA ClosedConnKeepsIInv ==
  ASSUME IInv, NEW c \in Client, ClosedConn(c)
  PROVE  IInv'
<1> USE ServeAssumption DEF IInv, TypeOK, ClosedConn, OneLess, TimerReset
<1>1. c \in InService
  BY DEF InService
<1>2. InService' = InService \ {c}
  BY DEF InService
<1>3. /\ Cardinality(InService') = Cardinality(InService) - 1
      /\ Cardinality(InService') \in Nat
  BY <1>1, <1>2, ServiceIsFinite, FS_RemoveElement, FS_CardinalityType
<1>4. CountsClients' /\ activeConns' \in Nat
  BY <1>3 DEF CountsClients
<1>5. activeConns' = 0 <=> InService' = {}
  BY <1>2, <1>4, ServiceIsFinite, FS_RemoveElement, FS_EmptySet DEF CountsClients
<1>6. TypeOK'
  BY <1>4
<1>7. TimerTracksIdleness'
  BY <1>1, <1>5 DEF TimerTracksIdleness
<1>8. accepted' # Nobody => client'[accepted'] = "dialled"
  OBVIOUS
<1> QED
  BY <1>4, <1>6, <1>7, <1>8

(* Serve counts its clients exactly, in every interleaving of the accept   *)
(* goroutine, the clients' goroutines and the timer.  The timer runs only  *)
(* while there is none, and an idle Serve has a timer or a tick.           *)
THEOREM ServeTracksClients ==
  Spec => [](TypeOK /\ CountsClients /\ TimerTracksIdleness)
<1>1. IInv /\ [Next]_vars => IInv'
  BY OthersKeepIInv, NewConnKeepsIInv, ClosedConnKeepsIInv DEF Next, Select
<1>2. IInv => TypeOK /\ CountsClients /\ TimerTracksIdleness
  BY DEF IInv
<1> QED
  BY InitIInv, <1>1, <1>2, PTL DEF Spec
============================================================================
