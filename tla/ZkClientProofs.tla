--------------------------- MODULE ZkClientProofs ---------------------------
(***************************************************************************)
(* A theorem about ZkClient, for any number of clients and lost            *)
(* connections.                                                            *)
(***************************************************************************)
EXTENDS ZkClient, SequenceTheorems, TLAPS

(* The semaphore counts, and the queue announces, connections that there   *)
(* have been.                                                              *)
SemMet == \A c \in Clients : sem[c] > 0 => met[c]

EventsMet ==
    \A c \in Clients : \A i \in 1..Len(events[c]) : events[c][i] = "connected" => met[c]

IInv == TypeOK /\ SemMet /\ EventsMet /\ StartedConnected

(* The invariant holds at first.                                           *)
LEMMA InitInv == Init => IInv
<1> SUFFICES ASSUME Init PROVE IInv
  OBVIOUS
<1>1. TypeOK
  BY BoundAssumption DEF Init, TypeOK, ClientStages
<1>2. SemMet /\ EventsMet /\ StartedConnected
  BY DEF Init, SemMet, EventsMet, StartedConnected
<1> QED
  BY <1>1, <1>2 DEF IInv

(* One event more, behind the others.                                      *)
LEMMA AppendEvent ==
  ASSUME IInv, NEW c \in Clients, NEW e \in {"connected", "connecting"},
         met' \in [Clients -> BOOLEAN],
         \A d \in Clients : met[d] => met'[d],
         e = "connected" => met'[c],
         events' = [events EXCEPT ![c] = Append(@, e)]
  PROVE  events' \in [Clients -> Seq({"connected", "connecting"})] /\ EventsMet'
<1> DEFINE Kinds == {"connected", "connecting"}
<1>1. events[c] \in Seq(Kinds)
  BY DEF IInv, TypeOK
<1>2. /\ Append(events[c], e) \in Seq(Kinds)
      /\ Len(Append(events[c], e)) = Len(events[c]) + 1
      /\ \A i \in 1..Len(events[c]) : Append(events[c], e)[i] = events[c][i]
      /\ Append(events[c], e)[Len(events[c]) + 1] = e
  BY <1>1, AppendProperties
<1>3. events' \in [Clients -> Seq(Kinds)]
  BY <1>2 DEF IInv, TypeOK
<1>4. ASSUME NEW d \in Clients, NEW i \in 1..Len(events'[d]), events'[d][i] = "connected"
      PROVE  met'[d]
  <2>1. CASE d # c
    BY <2>1, <1>4 DEF IInv, TypeOK, EventsMet
  <2>2. CASE d = c
    <3>1. events'[c] = Append(events[c], e)
      BY DEF IInv, TypeOK
    <3>2. Len(events[c]) \in Nat
      BY <1>1, LenProperties
    <3>3. i \in 1..Len(events[c]) \/ i = Len(events[c]) + 1
      BY <3>1, <3>2, <1>2, <1>4, <2>2
    <3> QED
      BY <3>1, <3>3, <1>2, <1>4, <2>2 DEF IInv, EventsMet
  <2> QED
    BY <2>1, <2>2
<1> QED
  BY <1>3, <1>4 DEF EventsMet

(* The first event is taken off.                                           *)
LEMMA TakeEvent ==
  ASSUME IInv, NEW c \in Clients, events[c] # <<>>,
         events' = [events EXCEPT ![c] = Tail(@)], UNCHANGED met
  PROVE  /\ events' \in [Clients -> Seq({"connected", "connecting"})]
         /\ EventsMet'
         /\ Head(events[c]) = "connected" => met[c]
<1> DEFINE Kinds == {"connected", "connecting"}
<1>1. events[c] \in Seq(Kinds)
  BY DEF IInv, TypeOK
<1>2. /\ Tail(events[c]) \in Seq(Kinds)
      /\ Head(events[c]) = events[c][1]
      /\ Len(events[c]) \in Nat \ {0}
      /\ Len(Tail(events[c])) = Len(events[c]) - 1
      /\ \A i \in 1..Len(Tail(events[c])) : Tail(events[c])[i] = events[c][i + 1]
  BY <1>1, HeadTailProperties, LenProperties, EmptySeq
<1>3. events' \in [Clients -> Seq(Kinds)]
  BY <1>2 DEF IInv, TypeOK
<1>4. ASSUME NEW d \in Clients, NEW i \in 1..Len(events'[d]), events'[d][i] = "connected"
      PROVE  met'[d]
  <2>1. CASE d # c
    BY <2>1, <1>4 DEF IInv, TypeOK, EventsMet
  <2>2. CASE d = c
    <3>1. events'[c] = Tail(events[c])
      BY DEF IInv, TypeOK
    <3>2. i \in 1..Len(Tail(events[c])) /\ Tail(events[c])[i] = "connected"
      BY <3>1, <1>4, <2>2
    <3>3. events[c][i + 1] = "connected"
      BY <3>2, <1>2
    <3>4. i + 1 \in 1..Len(events[c])
      BY <3>2, <1>2
    <3> QED
      BY <3>3, <3>4, <2>2 DEF IInv, EventsMet
  <2> QED
    BY <2>1, <2>2
<1>5. Head(events[c]) = "connected" => met[c]
  BY <1>2 DEF IInv, EventsMet
<1> QED
  BY <1>3, <1>4, <1>5 DEF EventsMet

(* Every step keeps the invariant.                                         *)
LEMMA NextInv == IInv /\ [Next]_vars => IInv'
<1> SUFFICES ASSUME IInv, [Next]_vars PROVE IInv'
  OBVIOUS
<1> USE DEF IInv
<1>1. ASSUME NEW c \in Clients, ZookeeperInit(c) PROVE IInv'
  BY <1>1 DEF ZookeeperInit, Go, TypeOK, ClientStages, SemMet, EventsMet, StartedConnected
<1>10. ASSUME NEW c \in Clients, NoHandle(c) PROVE IInv'
  BY <1>10 DEF NoHandle, Go, TypeOK, ClientStages, SemMet, EventsMet, StartedConnected
<1>2. ASSUME NEW c \in Clients, SemInit(c) PROVE IInv'
  BY <1>2 DEF SemInit, StartAtZero, Go, TypeOK, ClientStages, SemMet, EventsMet, StartedConnected
<1>3. ASSUME NEW c \in Clients, SetContext(c) PROVE IInv'
  BY <1>3 DEF SetContext, Go, TypeOK, ClientStages, SemMet, EventsMet, StartedConnected
<1>4. ASSUME NEW c \in Clients, SemWait(c) PROVE IInv'
  BY <1>4 DEF SemWait, Go, TypeOK, ClientStages, SemMet, EventsMet, StartedConnected
<1>5. ASSUME NEW c \in Clients, Close(c) PROVE IInv'
  <2>1. TypeOK'
    BY <1>5 DEF Close, Go, TypeOK, ClientStages
  <2>2. SemMet' /\ EventsMet' /\ StartedConnected'
    BY <1>5 DEF Close, Go, TypeOK, SemMet, EventsMet, StartedConnected
  <2> QED
    BY <2>1, <2>2
<1>6. ASSUME NEW c \in Clients, Connect(c) PROVE IInv'
  <2>1. met' \in [Clients -> BOOLEAN] /\ met'[c] /\ \A d \in Clients : met[d] => met'[d]
    BY <1>6 DEF Connect, TypeOK
  <2>2. events' \in [Clients -> Seq({"connected", "connecting"})] /\ EventsMet'
    BY <1>6, <2>1, AppendEvent DEF Connect
  <2>3. TypeOK'
    BY <1>6, <2>1, <2>2 DEF Connect, TypeOK
  <2>4. SemMet' /\ StartedConnected'
    BY <1>6, <2>1 DEF Connect, SemMet, StartedConnected
  <2> QED
    BY <2>2, <2>3, <2>4
<1>7. ASSUME NEW c \in Clients, Drop(c) PROVE IInv'
  <2>1. events' \in [Clients -> Seq({"connected", "connecting"})] /\ EventsMet'
    BY <1>7, AppendEvent DEF Drop, TypeOK
  <2>2. TypeOK'
    BY <1>7, <2>1, BoundAssumption DEF Drop, TypeOK
  <2>3. SemMet' /\ StartedConnected'
    BY <1>7 DEF Drop, SemMet, StartedConnected
  <2> QED
    BY <2>1, <2>2, <2>3
<1>8. ASSUME NEW c \in Clients, Watch(c) PROVE IInv'
  <2>1. /\ events' \in [Clients -> Seq({"connected", "connecting"})]
        /\ EventsMet'
        /\ Head(events[c]) = "connected" => met[c]
    BY <1>8, TakeEvent DEF Watch
  <2>2. CASE Head(events[c]) = "connected"
    <3>1. Post(c)
      BY <1>8, <2>2 DEF Watch, IsConnected
    <3>2. posts' \in [Clients -> SUBSET {"null", "live", "gone"}]
      BY <3>1 DEF Post, TypeOK
    <3>3. sem' = sem \/ sem' = [sem EXCEPT ![c] = @ + 1]
      BY <3>1 DEF Post
    <3>4. sem' \in [Clients -> Nat] /\ SemMet'
      <4>1. met[c] /\ met' = met
        BY <1>8, <2>1, <2>2 DEF Watch
      <4>2. sem' \in [Clients -> Nat]
        <5>1. sem \in [Clients -> Nat] /\ sem[c] + 1 \in Nat
          BY DEF TypeOK
        <5>2. [sem EXCEPT ![c] = @ + 1] \in [Clients -> Nat]
          BY <5>1
        <5> QED
          BY <5>1, <5>2, <3>3
      <4>3. SemMet'
        <5>1. \A d \in Clients : sem'[d] = sem[d] \/ d = c
          BY <3>3 DEF TypeOK
        <5> QED
          BY <5>1, <4>1 DEF SemMet
      <4> QED
        BY <4>2, <4>3
    <3>5. TypeOK' /\ StartedConnected'
      BY <1>8, <2>1, <3>2, <3>4 DEF Watch, TypeOK, StartedConnected
    <3> QED
      BY <2>1, <3>4, <3>5
  <2>3. CASE Head(events[c]) # "connected"
    <3>1. UNCHANGED <<posts, sem>>
      BY <1>8, <2>3 DEF Watch, IsConnected
    <3> QED
      BY <1>8, <2>1, <3>1 DEF Watch, TypeOK, SemMet, StartedConnected
  <2> QED
    BY <2>2, <2>3
<1>9. ASSUME UNCHANGED vars PROVE IInv'
  BY <1>9 DEF vars, TypeOK, SemMet, EventsMet, StartedConnected
<1> QED
  BY <1>1, <1>2, <1>3, <1>4, <1>5, <1>6, <1>7, <1>8, <1>9, <1>10 DEF Next, Starting, Over

(* Start of no client returns, however many there are and however often    *)
(* the connection is lost, before its session has been connected           *)
(* (zookeeperutil.cc:54-58).                                               *)
THEOREM StartedConnectedHolds == Spec => []StartedConnected
<1>1. IInv => StartedConnected
  BY DEF IInv
<1> QED
  BY <1>1, InitInv, NextInv, PTL DEF Spec

=============================================================================
