------------------------ MODULE KopiRpcChannelProofs ------------------------
(***************************************************************************)
(* Theorems about the calls from end to end, for every set of threads,     *)
(* nodes, methods and descriptors, every limit, every registration and     *)
(* every number of calls and faults.                                       *)
(***************************************************************************)
EXTENDS KopiRpcChannel, FiniteSetTheorems, SequenceTheorems, TLAPS

PoolProofs == INSTANCE KopiConnectPoolProofs

-----------------------------------------------------------------------------
(* The inductive invariant, part by part                                   *)

(* What the pool guarantees of its own variables.                          *)
PoolInv == PoolProofs!TypeOK /\ PoolProofs!OneOwner /\ PoolProofs!LeakInv

(* Where t is in CallMethod agrees with where it is in the pool.           *)
Paired(t) ==
    stage[t] # "dead" =>
        /\ stage[t] \in {"send", "size", "body"} <=> pc[t] = "holding"
        /\ stage[t] = "borrow" <=> pc[t] \notin {"idle", "holding"}

(* t has a method exactly while it is in a call, and then its call has a   *)
(* number and no answer; inside the pool it asks for the address it found. *)
InCall(t) ==
    /\ stage[t] = "none" => path[t] = NoMethod
    /\ stage[t] \notin {"none", "dead"} => path[t] # NoMethod
    /\ path[t] # NoMethod => id[t] \in 1..calls /\ answer[t] = 0
    /\ stage[t] = "store" => data[t] # NoNode
    /\ pc[t] # "idle" => path[t] # NoMethod /\ node[t] = data[t]

CallInv == \A t \in Threads : Paired(t) /\ InCall(t)

(* No two calls have the same number.                                      *)
OwnNumbers ==
    \A t, u \in Threads :
        path[t] # NoMethod /\ path[u] # NoMethod /\ id[t] = id[u] => t = u

(* Every address at hand was once registered for its method.               *)
AddressInv ==
    /\ \A m \in Methods : /\ registry[m] \in listed[m] \union {NoNode}
                          /\ addrCache[m] \in listed[m] \union {NoNode}
    /\ \A t \in Threads : path[t] # NoMethod => data[t] \in listed[path[t]] \union {NoNode}

(* What a thread has asked for is in the cache, or on its way there.       *)
AskedInv ==
    \A t \in Threads, m \in Methods :
        <<t, m>> \in asked => \/ addrCache[m] # NoNode
                              \/ stage[t] \in {"store", "dead"} /\ path[t] = m

(* What the streams of f can hold: nothing, the request of t, its          *)
(* response, or the body of that.                                          *)
Clean(f) == request[f] = <<>> /\ response[f] = <<>>

Requested(t, f) == request[f] = <<Part(path[t], id[t])>> /\ response[f] = <<>>

Bodies(t) == {Part("body", id[t]), Part("junk", id[t])}

Replied(t, f) ==
    /\ request[f] = <<>>
    /\ \/ response[f] = <<Part("size", id[t])>>
       \/ \E b \in Bodies(t) : response[f] = <<Part("size", id[t]), b>>

SizeRead(t, f) == request[f] = <<>> /\ \E b \in Bodies(t) : response[f] = <<b>>

Uses(t, f) ==
    /\ fd[t] = f
    /\ pc[t] = "holding"
    /\ \/ stage[t] \in {"size", "dead"} /\ (Requested(t, f) \/ Replied(t, f))
       \/ stage[t] \in {"body", "dead"} /\ SizeRead(t, f)

InUse(f) == Clean(f) \/ \E t \in Threads : Uses(t, f)

StreamInv == \A f \in Fds : InUse(f)

(* The rest of a frame is only where a segment has ended inside one.       *)
RestCut == \A f \in Fds : rest[f] => cuts[f] > 0

(* A call was executed when, and only when, its response can be there.     *)
Executed(t) ==
    path[t] # NoMethod =>
        /\ stage[t] \notin {"size", "body", "dead"} => served[id[t]] = 0
        /\ pc[t] = "holding" /\ stage[t] # "send" =>
              /\ request[fd[t]] # <<>> => served[id[t]] = 0
              /\ response[fd[t]] # <<>> => served[id[t]] = 1

ServedInv ==
    /\ \A c \in 1..MaxCalls : c > calls => served[c] = 0
    /\ \A t \in Threads : Executed(t)
-----------------------------------------------------------------------------
(* The pool under the calls                                                *)

(* What a provider does with what comes is no step of a caller.            *)
LEMMA ProviderStep ==
  ASSUME NEW f \in Fds, Answering(f)
  PROVE  UNCHANGED <<poolVars, callVars, registry, listed, addrCache, asked, ioFailed>>
<1>1. CASE \E n \in 0..Len(request[f]), cut \in BOOLEAN : Serve(f, n, cut) \/ Ignore(f, n, cut)
  BY <1>1 DEF Serve, Ignore, history
<1>2. CASE Throws(f)
  BY <1>2 DEF Throws, Fault, Dies, history
<1>3. QED
  BY <1>1, <1>2 DEF Answering

(* The assumptions of the pool hold of the pool inside.                    *)
LEMMA PoolAssumptions ==
  PoolProofs!MaxAssumption /\ PoolProofs!NullAssumption /\ PoolProofs!FiniteAssumption
  BY PoolAssumption DEF IsFiniteSet, PoolProofs!IsFiniteSet

(* The steps of the pool are the ones its lemmas are about.                *)
LEMMA PoolBorrows ==
  ASSUME NEW t \in Threads
  PROVE  /\ \A n \in Nodes : Pool!BorrowConnection(t, n) => PoolProofs!BorrowConnection(t, n)
         /\ Pool!BorrowFree(t) => PoolProofs!BorrowFree(t)
         /\ Pool!BorrowReserve(t) => PoolProofs!BorrowReserve(t)
         /\ Pool!BorrowWait(t) => PoolProofs!BorrowWait(t)
         /\ Pool!WakeTake(t) => PoolProofs!WakeTake(t)
         /\ Pool!WakeSleep(t) => PoolProofs!WakeSleep(t)
         /\ Pool!GiveUp(t) => PoolProofs!GiveUp(t)
         /\ Pool!SpuriousWakeup(t) => PoolProofs!SpuriousWakeup(t)
         /\ Pool!Deadline(t) => PoolProofs!Deadline(t)
  BY DEF Pool!BorrowConnection, PoolProofs!BorrowConnection, Pool!FindBucket,
         PoolProofs!FindBucket, Pool!BorrowFree, PoolProofs!BorrowFree, Pool!TakeFree,
         PoolProofs!TakeFree, Pool!PopFree, PoolProofs!PopFree, Pool!BorrowReserve,
         PoolProofs!BorrowReserve, Pool!HasQuota, PoolProofs!HasQuota, Pool!BorrowWait,
         PoolProofs!BorrowWait, Pool!WakeTake, PoolProofs!WakeTake, Pool!WakeSleep,
         PoolProofs!WakeSleep, Pool!GiveUp, PoolProofs!GiveUp, Pool!Leave, PoolProofs!Leave,
         Pool!SpuriousWakeup, PoolProofs!SpuriousWakeup, Pool!Deadline, PoolProofs!Deadline

(* The steps that connect are those the theorems of the pool are about.    *)
LEMMA PoolConnects ==
  ASSUME NEW t \in Threads
  PROVE  /\ Pool!Socket(t) => PoolProofs!Socket(t)
         /\ Pool!SocketFails(t) => PoolProofs!SocketFails(t)
         /\ Pool!ConnectOk(t) => PoolProofs!ConnectOk(t)
         /\ Pool!ConnectFails(t) => PoolProofs!ConnectFails(t)
  BY DEF Pool!Socket, PoolProofs!Socket, Pool!SocketFails, PoolProofs!SocketFails,
         Pool!ConnectOk, PoolProofs!ConnectOk, Pool!ConnectFails, PoolProofs!ConnectFails,
         Pool!CloseFd, PoolProofs!CloseFd

(* So are the steps that give back,                                        *)
LEMMA PoolReturns ==
  ASSUME NEW t \in Threads
  PROVE  /\ Pool!Rollback(t) => PoolProofs!Rollback(t)
         /\ Pool!ReturnHealthy(t) => PoolProofs!ReturnHealthy(t)
         /\ Pool!ReturnBad(t) => PoolProofs!ReturnBad(t)
  BY DEF Pool!Rollback, PoolProofs!Rollback, Pool!ReleaseSlot, PoolProofs!ReleaseSlot,
         Pool!NotifyOne, PoolProofs!NotifyOne, Pool!Sleeping, PoolProofs!Sleeping,
         Pool!Leave, PoolProofs!Leave, Pool!ReturnHealthy, PoolProofs!ReturnHealthy,
         Pool!ReturnBad, PoolProofs!ReturnBad, Pool!CloseFd, PoolProofs!CloseFd

(* and the destructor.                                                     *)
LEMMA PoolDestroyed == Pool!Destroy => PoolProofs!Destroy
  BY DEF Pool!Destroy, PoolProofs!Destroy, Pool!Idle, PoolProofs!Idle

(* Every step of a call is a step of the pool, or none.                    *)
LEMMA PoolNext == [Next]_vars => [PoolProofs!Next]_(PoolProofs!vars)
<1> SUFFICES ASSUME [Next]_vars PROVE PoolProofs!Next \/ UNCHANGED PoolProofs!vars
  OBVIOUS
<1>1. ASSUME UNCHANGED poolVars PROVE UNCHANGED PoolProofs!vars
  BY <1>1 DEF poolVars, PoolProofs!vars
<1>2. CASE UNCHANGED vars
  BY <1>1, <1>2 DEF vars
<1>3. ASSUME NEW t \in Threads, Run(t) \/ BorrowMishap(t) \/ Deadline(t)
      PROVE  PoolProofs!Next \/ UNCHANGED poolVars
  <2>1. CASE GetData(t) \/ Store(t) \/ NoAddress(t) \/ Send(t) \/ RecvSize(t)
    BY <2>1 DEF GetData, Store, NoAddress, Send, RecvSize
  <2>2. CASE Borrow(t)
    BY <2>2, PoolBorrows DEF Borrow, PoolProofs!Next
  <2>3. CASE Borrowing(t) \/ Borrowed(t) \/ BorrowMishap(t) \/ Deadline(t)
    BY <2>3, PoolBorrows, PoolConnects
    DEF Borrowing, Borrowed, Connect, BorrowMishap, Deadline, PoolProofs!Next,
        PoolProofs!Borrowing
  <2>4. CASE NotBorrowed(t) \/ IoFails(t) \/ Answered(t) \/ NotParsed(t)
    BY <2>4, PoolBorrows, PoolReturns
    DEF NotBorrowed, IoFails, Answered, NotParsed, Burn, PoolProofs!Next, PoolProofs!Borrowing
  <2>5. QED
    BY <1>3, <2>1, <2>2, <2>3, <2>4 DEF Run
<1>4. ASSUME NEW t \in Threads, NEW m \in Methods, NEW c \in Controllers, CallMethod(t, m, c)
      PROVE  UNCHANGED poolVars
  BY <1>4 DEF CallMethod
<1>5. ASSUME NEW f \in Fds, Answering(f) \/ Disconnect(f)
      PROVE  UNCHANGED poolVars
  BY <1>5, ProviderStep DEF Disconnect, Fault
<1>6. ASSUME NEW n \in Nodes, ProviderDies(n) \/ ProviderStarts(n)
      PROVE  UNCHANGED poolVars
  BY <1>6 DEF ProviderDies, ProviderStarts, Fault
<1>7. ASSUME NEW m \in Methods, NEW a \in Addresses \union {NoNode}, Reregister(m, a)
      PROVE  UNCHANGED poolVars
  BY <1>7 DEF Reregister, Fault
<1>8. CASE Exit
  BY <1>8, PoolDestroyed DEF Exit, PoolProofs!Next
<1>9. CASE Over
  BY <1>1, <1>9 DEF Over, vars
<1>10. QED
  BY <1>1, <1>2, <1>3, <1>4, <1>5, <1>6, <1>7, <1>8, <1>9 DEF Next

(* The pool's invariant holds at first.                                    *)
LEMMA PoolInitInv == Init => PoolInv
<1>1. Init => PoolProofs!Init
  BY DEF Init, Pool!Init, PoolProofs!Init
<1>2. QED
  BY <1>1, PoolAssumptions, PoolProofs!TypeInit, PoolProofs!OwnerInit, PoolProofs!LeakInit
  DEF PoolInv

(* And after every step of a call.                                         *)
LEMMA PoolNextInv == PoolInv /\ [Next]_vars => PoolInv'
  BY PoolNext, PoolAssumptions, PoolProofs!TypeNext, PoolProofs!OwnerNext, PoolProofs!LeakNext
  DEF PoolInv

(* What the calls use of the pool's invariant.                             *)
LEMMA PoolFacts ==
  ASSUME PoolInv
  PROVE  /\ sock \in [Fds -> Nodes \union {NoNode}]
         /\ pc \in [Threads -> Pool!Stages]
         /\ node \in [Threads -> Nodes \union {NoNode}]
         /\ fd \in [Threads -> Fds \union {NoFd}]
         /\ \A t \in Threads :
               /\ fd[t] # NoFd <=> pc[t] \in {"connecting", "holding"}
               /\ node[t] # NoNode <=> pc[t] # "idle"
               /\ fd[t] # NoFd => sock[fd[t]] = node[t]
               /\ \A u \in Threads : fd[t] # NoFd /\ fd[u] = fd[t] => u = t
  BY DEF PoolInv, PoolProofs!TypeOK, PoolProofs!OneOwner, PoolProofs!ThreadOwns,
         PoolProofs!Stages, Pool!Stages

(* While t acts in the pool, another thread is at most woken.              *)
Others(t) ==
    \A u \in Threads \ {t} :
        /\ fd'[u] = fd[u] /\ node'[u] = node[u]
        /\ pc'[u] = pc[u] \/ (pc[u] = "waiting" /\ pc'[u] = "notified")

(* What a call sees of the pool when it begins to borrow,                  *)
LEMMA AskStep ==
  ASSUME PoolInv, NEW t \in Threads, NEW n \in Nodes, Pool!BorrowConnection(t, n)
  PROVE  /\ Others(t) /\ sock' = sock /\ fd' = fd
         /\ pc[t] = "idle" /\ pc'[t] = "locking" /\ node'[t] = n
  BY PoolFacts DEF Pool!BorrowConnection, Others

(* while it borrows,                                                       *)
LEMMA BorrowingStep ==
  ASSUME PoolInv, NEW t \in Threads,
         \/ Pool!BorrowReserve(t) \/ Pool!BorrowWait(t) \/ Pool!Socket(t)
         \/ Pool!ConnectFails(t) \/ Pool!WakeSleep(t) \/ Pool!SocketFails(t)
         \/ Pool!SpuriousWakeup(t) \/ Pool!Deadline(t)
  PROVE  /\ Others(t) /\ node' = node
         /\ pc[t] \notin {"idle", "holding"} /\ pc'[t] \notin {"idle", "holding"}
<1>1. CASE \/ Pool!BorrowReserve(t) \/ Pool!BorrowWait(t) \/ Pool!WakeSleep(t)
           \/ Pool!SocketFails(t) \/ Pool!SpuriousWakeup(t) \/ Pool!Deadline(t)
  BY <1>1, PoolFacts DEF Others, Pool!BorrowReserve, Pool!BorrowWait, Pool!WakeSleep,
     Pool!SocketFails, Pool!SpuriousWakeup, Pool!Deadline
<1>2. CASE Pool!Socket(t) \/ Pool!ConnectFails(t)
  BY <1>2, PoolFacts DEF Others, Pool!Socket, Pool!ConnectFails
<1>3. QED
  BY <1>1, <1>2

(* when it is lent a connection,                                           *)
LEMMA LendStep ==
  ASSUME PoolInv, NEW t \in Threads,
         Pool!ConnectOk(t) \/ Pool!BorrowFree(t) \/ Pool!WakeTake(t)
  PROVE  /\ Others(t) /\ node' = node /\ sock' = sock
         /\ pc[t] \notin {"idle", "holding"} /\ pc'[t] = "holding"
<1>1. CASE Pool!ConnectOk(t)
  BY <1>1, PoolFacts DEF Others, Pool!ConnectOk
<1>2. CASE Pool!BorrowFree(t) \/ Pool!WakeTake(t)
  BY <1>2, PoolFacts DEF Others, Pool!BorrowFree, Pool!WakeTake, Pool!TakeFree
<1>3. QED
  BY <1>1, <1>2

(* when it leaves the pool,                                                *)
LEMMA LeaveStep ==
  ASSUME PoolInv, NEW t \in Threads,
         \/ Pool!ReturnHealthy(t) \/ Pool!ReturnBad(t)
         \/ Pool!Rollback(t) \/ Pool!GiveUp(t)
  PROVE  /\ Others(t) /\ pc[t] # "idle"
         /\ pc'[t] = "idle" /\ node'[t] = NoNode /\ fd'[t] = NoFd
<1> USE PoolFacts
<1>1. /\ node' = [node EXCEPT ![t] = NoNode]
      /\ pc[t] # "idle"
      /\ \/ fd' = [fd EXCEPT ![t] = NoFd]
         \/ fd' = fd /\ fd[t] = NoFd
  BY DEF Pool!ReturnHealthy, Pool!ReturnBad, Pool!Rollback, Pool!GiveUp, Pool!Leave
<1>2. /\ pc'[t] = "idle"
      /\ \A u \in Threads \ {t} : \/ pc'[u] = pc[u]
                                  \/ pc[u] = "waiting" /\ pc'[u] = "notified"
  <2> DEFINE p == [pc EXCEPT ![t] = "idle"]
  <2>1. \/ pc' = p
        \/ \E u \in Threads : pc[u] = "waiting" /\ pc' = [p EXCEPT ![u] = "notified"]
    BY DEF Pool!ReturnHealthy, Pool!ReturnBad, Pool!Rollback, Pool!GiveUp, Pool!NotifyOne,
           Pool!Sleeping
  <2>2. pc[t] \notin {"idle", "waiting"}
    BY DEF Pool!ReturnHealthy, Pool!ReturnBad, Pool!Rollback, Pool!GiveUp
  <2>3. QED
    BY <2>1, <2>2
<1>3. QED
  BY <1>1, <1>2 DEF Others

(* and of the descriptor that it gives back.                               *)
LEMMA ReturnStep ==
  ASSUME PoolInv, NEW t \in Threads, Pool!ReturnHealthy(t) \/ Pool!ReturnBad(t)
  PROVE  /\ fd[t] \in Fds /\ pc[t] = "holding"
         /\ Pool!ReturnHealthy(t) => sock' = sock
         /\ Pool!ReturnBad(t) => sock' = [sock EXCEPT ![fd[t]] = NoNode]
  BY PoolFacts DEF Pool!ReturnHealthy, Pool!ReturnBad, Pool!CloseFd

-----------------------------------------------------------------------------
(* Type correctness, and where a thread is                                 *)


(* The types hold at first.                                                *)
LEMMA TypesInit == Init => TypeOK /\ CallInv /\ OwnNumbers
<1> SUFFICES ASSUME Init PROVE TypeOK /\ CallInv /\ OwnNumbers
  OBVIOUS
<1>1. Pool!TypeOK
  BY PoolAssumption DEF Init, Pool!Init, Pool!TypeOK, Pool!Stages
<1>2. TypeOK
  BY <1>1, AddressAssumption, BoundAssumption DEF Init, TypeOK, CallStages, Addresses
<1>3. CallInv /\ OwnNumbers
  BY DEF Init, Pool!Init, CallInv, OwnNumbers, Paired, InCall
<1>4. QED
  BY <1>2, <1>3

(* TypeOK in parts: the pool, the calls, the streams and the rest.         *)
Requests == Seq([kind : Methods, call : 1..MaxCalls])

Responses == Seq([kind : {"size", "body", "junk"}, call : 1..MaxCalls])

TypeCalls ==
    /\ stage \in [Threads -> CallStages]
    /\ path \in [Threads -> Methods \union {NoMethod}]
    /\ data \in [Threads -> Addresses \union {NoNode}]
    /\ ctl \in [Threads -> BOOLEAN]
    /\ id \in [Threads -> 0..MaxCalls]
    /\ answer \in [Threads -> 0..MaxCalls]
    /\ calls \in 0..MaxCalls

TypeWires ==
    /\ peer \in [Fds -> BOOLEAN]
    /\ request \in [Fds -> Requests]
    /\ rest \in [Fds -> BOOLEAN] /\ cuts \in [Fds -> Nat]
    /\ response \in [Fds -> Responses]

TypeRest ==
    /\ addrCache \in [Methods -> Addresses \union {NoNode}]
    /\ registry \in [Methods -> Addresses \union {NoNode}]
    /\ up \in [Nodes -> BOOLEAN]
    /\ faults \in 0..MaxFaults
    /\ listed \in [Methods -> SUBSET Addresses]
    /\ asked \subseteq Threads \X Methods
    /\ lost \in Nat /\ ioFailed \in Nat
    /\ served \in [1..MaxCalls -> Nat]

(* The types, part by part.                                                *)
LEMMA TypeParts ==
  /\ TypeOK <=> Pool!TypeOK /\ TypeCalls /\ TypeWires /\ TypeRest
  /\ TypeOK' <=> Pool!TypeOK' /\ TypeCalls' /\ TypeWires' /\ TypeRest'
<1>1. TypeOK <=> Pool!TypeOK /\ TypeCalls /\ TypeWires /\ TypeRest
  BY Zenon DEF TypeOK, TypeCalls, TypeWires, TypeRest, Requests, Responses
<1>2. TypeOK' <=> Pool!TypeOK' /\ TypeCalls' /\ TypeWires' /\ TypeRest'
  BY Zenon DEF TypeOK, TypeCalls, TypeWires, TypeRest, Requests, Responses
<1>3. QED
  BY <1>1, <1>2

(* What is done with the streams.                                          *)
LEMMA HeadIn ==
  ASSUME NEW P
  PROVE  \A s \in Seq(P) : s # <<>> => Head(s) \in P /\ Tail(s) \in Seq(P)
  OBVIOUS

(* Requests on a wire, and what is appended to them or taken from them.    *)
LEMMA RequestsType ==
  /\ <<>> \in Requests
  /\ \A s \in Requests, m \in Methods, c \in 1..MaxCalls : Append(s, Part(m, c)) \in Requests
  /\ \A s \in Requests : s # <<>> => /\ Head(s).kind \in Methods
                                     /\ Head(s).call \in 1..MaxCalls
<1>1. \A m \in Methods, c \in 1..MaxCalls : Part(m, c) \in [kind : Methods, call : 1..MaxCalls]
  BY DEF Part
<1>2. \A s \in Requests : s # <<>> => Head(s) \in [kind : Methods, call : 1..MaxCalls]
  BY HeadIn DEF Requests
<1>3. <<>> \in Requests
  BY DEF Requests
<1>4. \A s \in Requests, m \in Methods, c \in 1..MaxCalls : Append(s, Part(m, c)) \in Requests
  BY <1>1 DEF Requests
<1>5. QED
  BY <1>2, <1>3, <1>4

(* Responses on a wire, whole and cut.                                     *)
LEMMA ResponsesType ==
  /\ <<>> \in Responses
  /\ \A s \in Responses : s # <<>> => Tail(s) \in Responses /\ Head(s).call \in 1..MaxCalls
  /\ \A s \in Responses, k \in 0..2 : k < Len(s) => SubSeq(s, 1, k) \in Responses
  /\ \A s \in Responses, c \in 1..MaxCalls, b \in {"body", "junk"} :
        s \o <<Part("size", c), Part(b, c)>> \in Responses
<1> DEFINE P == [kind : {"size", "body", "junk"}, call : 1..MaxCalls]
<1>1. \A s \in Responses : s # <<>> => Tail(s) \in Responses /\ Head(s) \in P
  BY HeadIn DEF Responses
<1>2. \A s \in Responses, k \in 0..2 : k < Len(s) => SubSeq(s, 1, k) \in Responses
  <2> SUFFICES ASSUME NEW s \in Seq(P), NEW k \in 0..2, k < Len(s)
               PROVE  SubSeq(s, 1, k) \in Seq(P)
    BY DEF Responses
  <2> HIDE DEF P
  <2>1. Len(s) \in Nat /\ \A i \in 1..k : s[i] \in P
    BY LenProperties
  <2>2. QED
    BY <2>1, SubSeqProperties
<1>3. \A c \in 1..MaxCalls, b \in {"size", "body", "junk"} : Part(b, c) \in P
  BY DEF Part
<1>4. \A s \in Responses, c \in 1..MaxCalls, b \in {"body", "junk"} :
         s \o <<Part("size", c), Part(b, c)>> \in Responses
  <2> SUFFICES ASSUME NEW s \in Seq(P), NEW p \in P, NEW q \in P
               PROVE  s \o <<p, q>> \in Seq(P)
    BY <1>3 DEF Responses
  <2> HIDE DEF P
  <2>1. QED
    OBVIOUS
<1>5. <<>> \in Responses
  BY DEF Responses
<1>6. QED
  BY <1>1, <1>2, <1>4, <1>5

(* Every step keeps the types of the calls.                                *)
LEMMA TypeCallsNext ==
  ASSUME TypeCalls, TypeWires, TypeRest, CallInv, PoolInv, [Next]_vars
  PROVE  TypeCalls'
<1> USE AddressAssumption, BoundAssumption
<1>1. ASSUME UNCHANGED callVars PROVE TypeCalls'
  BY <1>1 DEF callVars, TypeCalls
<1>2. ASSUME NEW t \in Threads, NEW r \in 0..MaxCalls, Finish(t, r) PROVE TypeCalls'
  BY <1>2 DEF Finish, TypeCalls, CallStages
<1>3. ASSUME NEW t \in Threads, NEW s \in CallStages, Advance(t, s) PROVE TypeCalls'
  BY <1>3 DEF Advance, TypeCalls
<1>4. ASSUME NEW t \in Threads, NEW m \in Methods, NEW c \in Controllers, CallMethod(t, m, c)
      PROVE  TypeCalls'
  <2>1. addrCache[m] \in Addresses \union {NoNode} /\ c \in BOOLEAN /\ calls + 1 \in 0..MaxCalls
    BY <1>4 DEF CallMethod, TypeRest, TypeCalls
  <2>2. QED
    BY <1>4, <2>1 DEF CallMethod, TypeCalls, CallStages
<1>5. ASSUME NEW t \in Threads, GetData(t) PROVE TypeCalls'
  <2>1. path[t] \in Methods
    BY <1>5 DEF GetData, CallInv, InCall, TypeCalls
  <2>2. registry[path[t]] \in Addresses \union {NoNode}
    BY <2>1 DEF TypeRest
  <2>3. QED
    BY <1>5, <2>2 DEF GetData, TypeCalls, CallStages
<1>6. ASSUME NEW t \in Threads, NoAddress(t) PROVE TypeCalls'
  BY <1>2, <1>6 DEF NoAddress, TypeCalls, CallStages
<1>7. ASSUME NEW t \in Threads,
             \/ Store(t) \/ Borrow(t) \/ Borrowed(t) \/ Send(t) \/ RecvSize(t)
      PROVE  TypeCalls'
  BY <1>3, <1>7 DEF Store, Borrow, Borrowed, Send, RecvSize, CallStages
<1>8. ASSUME NEW t \in Threads, NotBorrowed(t) \/ IoFails(t) \/ NotParsed(t)
      PROVE  TypeCalls'
  BY <1>2, <1>8 DEF NotBorrowed, IoFails, NotParsed
<1>9. ASSUME NEW t \in Threads, Answered(t) PROVE TypeCalls'
  <2>1. response[fd[t]] \in Responses
    BY <1>9, ReturnStep DEF Answered, TypeWires
  <2>2. Head(response[fd[t]]).call \in 0..MaxCalls
    BY <1>9, <2>1, ResponsesType DEF Answered
  <2>3. QED
    BY <1>2, <1>9, <2>2 DEF Answered
<1>10. ASSUME NEW t \in Threads, Borrowing(t) \/ BorrowMishap(t) \/ Deadline(t)
       PROVE  TypeCalls'
  BY <1>1, <1>10 DEF Borrowing, BorrowMishap, Deadline
<1>11. ASSUME NEW f \in Fds, Answering(f) \/ Disconnect(f)
       PROVE  TypeCalls'
  BY <1>1, <1>11, ProviderStep DEF Disconnect, Fault
<1>12. ASSUME NEW n \in Nodes, ProviderDies(n) \/ ProviderStarts(n)
       PROVE  TypeCalls'
  BY <1>1, <1>12 DEF ProviderDies, ProviderStarts, Fault
<1>13. ASSUME NEW m \in Methods, NEW a \in Addresses \union {NoNode}, Reregister(m, a)
       PROVE  TypeCalls'
  BY <1>1, <1>13 DEF Reregister, Fault
<1>14. CASE Exit \/ Over \/ UNCHANGED vars
  BY <1>1, <1>14 DEF Exit, Over, vars
<1>15. QED
  BY <1>4, <1>5, <1>6, <1>7, <1>8, <1>9, <1>10, <1>11, <1>12, <1>13, <1>14 DEF Next, Run

(* What is left when the first frames are gone.                            *)
LEMMA FramesBehind ==
  /\ \A s \in Requests : \A n \in 0..Len(s) : SubSeq(s, n + 1, Len(s)) \in Requests
  /\ \A p : \A n \in 0..Len(<<p>>) : SubSeq(<<p>>, n + 1, Len(<<p>>)) \in {<<>>, <<p>>}
<1> DEFINE P == [kind : Methods, call : 1..MaxCalls]
<1>1. ASSUME NEW s \in Seq(P), NEW n \in 0..Len(s)
      PROVE  SubSeq(s, n + 1, Len(s)) \in Seq(P)
  <2> HIDE DEF P
  <2>1. n + 1 \in Int /\ Len(s) \in Int /\ \A i \in (n + 1)..Len(s) : s[i] \in P
    BY LenProperties
  <2>2. QED
    BY <2>1, SubSeqProperties, Zenon
<1>2. ASSUME NEW p, NEW n \in 0..Len(<<p>>)
      PROVE  SubSeq(<<p>>, n + 1, Len(<<p>>)) \in {<<>>, <<p>>}
  <2>1. Len(<<p>>) = 1 /\ <<p>>[1] = p /\ <<p>> \in Seq({p}) /\ n \in {0, 1}
    BY <1>2
  <2>2. CASE n = 1
    <3>1. SubSeq(<<p>>, 2, 1) = <<>>
      BY SubSeqEmpty
    <3>2. QED
      BY <2>1, <2>2, <3>1
  <2>3. CASE n = 0
    <3>1. /\ SubSeq(<<p>>, 1, 1) \in Seq({p}) /\ Len(SubSeq(<<p>>, 1, 1)) = 1
          /\ SubSeq(<<p>>, 1, 1)[1] = p
      BY <2>1, SubSeqProperties
    <3>2. \A i \in 1..1 : i = 1
      OBVIOUS
    <3>3. SubSeq(<<p>>, 1, 1) = <<p>>
      BY <2>1, <3>1, <3>2, SeqEqual
    <3>4. QED
      BY <2>1, <2>3, <3>3
  <2>4. QED
    BY <2>1, <2>2, <2>3
<1>3. QED
  BY <1>1, <1>2 DEF Requests

(* What OnMessage takes keeps the types of the wires and of the bound.     *)
LEMMA TakeType ==
  ASSUME TypeWires, TypeRest, NEW f \in Fds, NEW n \in 0..Len(request[f]), NEW cut \in BOOLEAN,
         Take(f, n, cut)
  PROVE  /\ request' \in [Fds -> Requests]
         /\ rest' \in [Fds -> BOOLEAN] /\ cuts' \in [Fds -> Nat]
         /\ faults' \in 0..MaxFaults
<1>1. request' = [request EXCEPT ![f] = SubSeq(request[f], n + 1, Len(request[f]))]
  BY DEF Take, TakeBytes, TypeWires
<1>2. SubSeq(request[f], n + 1, Len(request[f])) \in Requests
  BY FramesBehind DEF TypeWires
<1>3. request' \in [Fds -> Requests]
  BY <1>1, <1>2 DEF TypeWires
<1>4. rest' \in [Fds -> BOOLEAN] /\ cuts' \in [Fds -> Nat]
  BY DEF Take, TypeWires
<1>5. faults' \in 0..MaxFaults
  BY BoundAssumption DEF Take, TypeRest
<1>6. QED
  BY <1>3, <1>4, <1>5

(* What a broken connection loses keeps the types of the wires.            *)
LEMMA LoseType ==
  ASSUME TypeWires, NEW F \in SUBSET Fds, Lose(F)
  PROVE  TypeWires'
<1>1. peer' \in [Fds -> BOOLEAN]
  BY DEF Lose, TypeWires
<1>2. request' \in [Fds -> Requests]
  BY RequestsType DEF Lose, TypeWires
<1>3. PICK keep \in [F -> 0..2] :
        response' = [f \in Fds |-> IF f \in F /\ keep[f] < Len(response[f])
                                   THEN SubSeq(response[f], 1, keep[f])
                                   ELSE response[f]]
  BY DEF Lose
<1>4. response' \in [Fds -> Responses]
  BY <1>3, ResponsesType DEF TypeWires
<1>5. rest' \in [Fds -> BOOLEAN] /\ cuts' \in [Fds -> Nat]
  BY DEF Lose, TypeWires
<1>6. QED
  BY <1>1, <1>2, <1>4, <1>5 DEF TypeWires

(* Every step keeps the types of the wires,                                *)
LEMMA TypeWiresNext ==
  ASSUME TypeCalls, TypeWires, TypeRest, CallInv, PoolInv, [Next]_vars
  PROVE  TypeWires'
<1>1. ASSUME UNCHANGED wireVars PROVE TypeWires'
  BY <1>1 DEF wireVars, TypeWires
<1>2. ASSUME NEW f \in Fds, Hangup(f) PROVE TypeWires'
  BY <1>2, RequestsType, ResponsesType DEF Hangup, TypeWires
<1>3. ASSUME NEW t \in Threads, NEW m \in Methods, NEW c \in Controllers, CallMethod(t, m, c)
      PROVE  TypeWires'
  BY <1>1, <1>3 DEF CallMethod
<1>4. ASSUME NEW t \in Threads,
             \/ GetData(t) \/ Store(t) \/ NoAddress(t) \/ Borrow(t) \/ Borrowing(t)
             \/ NotBorrowed(t) \/ BorrowMishap(t) \/ Deadline(t)
      PROVE  TypeWires'
  BY <1>1, <1>4 DEF GetData, Store, NoAddress, Borrow, Borrowing, NotBorrowed, BorrowMishap,
                    Deadline
<1>5. ASSUME NEW t \in Threads, Borrowed(t) PROVE TypeWires'
  BY <1>1, <1>5 DEF Borrowed, Connect, TypeWires
<1>6. ASSUME NEW t \in Threads, Send(t) PROVE TypeWires'
  <2>1. path[t] \in Methods /\ id[t] \in 1..MaxCalls
    BY <1>6, BoundAssumption DEF Send, CallInv, InCall, TypeCalls
  <2>2. \A s \in Requests : Append(s, Part(path[t], id[t])) \in Requests
    BY <2>1, RequestsType
  <2>3. QED
    BY <1>6, <2>2 DEF Send, TypeWires
<1>7. ASSUME NEW t \in Threads, RecvSize(t) PROVE TypeWires'
  BY <1>7, ResponsesType DEF RecvSize, TypeWires
<1>8. ASSUME NEW t \in Threads, IoFails(t) \/ NotParsed(t) PROVE TypeWires'
  BY <1>2, <1>8, ReturnStep DEF IoFails, NotParsed, Burn
<1>9. ASSUME NEW t \in Threads, Answered(t) PROVE TypeWires'
  BY <1>9, ResponsesType DEF Answered, TypeWires
<1>10. ASSUME NEW f \in Fds, NEW n \in 0..Len(request[f]), NEW cut \in BOOLEAN, Serve(f, n, cut)
       PROVE  TypeWires'
  <2>0. Take(f, n, cut) /\ peer' = peer /\ request[f] # <<>>
    BY <1>10 DEF Serve, Take, TypeWires, Requests
  <2>1. PICK c \in 1..MaxCalls : c = Head(request[f]).call
    BY <2>0, RequestsType DEF TypeWires
  <2>2. PICK b \in {"body", "junk"} :
          response' = [response EXCEPT ![f] = @ \o <<Part("size", c), Part(b, c)>>]
    BY <1>10, <2>1 DEF Serve
  <2>3. response' \in [Fds -> Responses]
    BY <2>2, ResponsesType DEF TypeWires
  <2>4. QED
    BY <2>0, <2>3, TakeType DEF TypeWires
<1>11. ASSUME NEW f \in Fds, NEW n \in 0..Len(request[f]), NEW cut \in BOOLEAN, Ignore(f, n, cut)
       PROVE  TypeWires'
  <2>1. Take(f, n, cut) /\ peer' = peer /\ response' = response
    BY <1>11 DEF Ignore
  <2>2. QED
    BY <2>1, TakeType DEF TypeWires
<1>12. ASSUME NEW f \in Fds, Disconnect(f) PROVE TypeWires'
  BY <1>12, LoseType DEF Disconnect
<1>13. ASSUME NEW n, Dies(n) PROVE TypeWires'
  <2>1. {f \in Fds : peer[f] /\ sock[f] = n} \in SUBSET Fds
    OBVIOUS
  <2>2. QED
    BY <1>13, <2>1, LoseType DEF Dies
<1>14. ASSUME NEW n \in Nodes, ProviderStarts(n) PROVE TypeWires'
  BY <1>1, <1>14 DEF ProviderStarts
<1>15. ASSUME NEW m \in Methods, NEW a \in Addresses \union {NoNode}, Reregister(m, a)
       PROVE  TypeWires'
  BY <1>1, <1>15 DEF Reregister
<1>16. CASE Exit
  BY <1>16 DEF Exit, TypeWires
<1>17. CASE Over \/ UNCHANGED vars
  BY <1>1, <1>17 DEF Over, vars
<1>18. QED
  BY <1>3, <1>4, <1>5, <1>6, <1>7, <1>8, <1>9, <1>10, <1>11, <1>12, <1>13, <1>14, <1>15, <1>16,
     <1>17
  DEF Next, Run, Answering, Throws, ProviderDies

(* and those of the rest.                                                  *)
LEMMA TypeRestNext ==
  ASSUME TypeCalls, TypeWires, TypeRest, CallInv, PoolInv, [Next]_vars
  PROVE  TypeRest'
<1> USE AddressAssumption, BoundAssumption
<1>1. ASSUME UNCHANGED <<envVars, addrCache, history>> PROVE TypeRest'
  BY <1>1 DEF envVars, history, TypeRest
<1>2. ASSUME NEW t \in Threads, NEW m \in Methods, NEW c \in Controllers, CallMethod(t, m, c)
      PROVE  TypeRest'
  BY <1>1, <1>2 DEF CallMethod
<1>3. ASSUME NEW t \in Threads,
             \/ NoAddress(t) \/ Borrow(t) \/ Borrowing(t) \/ Borrowed(t) \/ NotBorrowed(t)
             \/ BorrowMishap(t) \/ Deadline(t) \/ Send(t) \/ RecvSize(t) \/ Answered(t)
             \/ NotParsed(t)
      PROVE  TypeRest'
  BY <1>1, <1>3 DEF NoAddress, Borrow, Borrowing, Borrowed, NotBorrowed, BorrowMishap, Deadline,
                    Send, RecvSize, Answered, NotParsed
<1>4. ASSUME NEW t \in Threads, stage[t] \notin {"none", "dead"} PROVE path[t] \in Methods
  BY <1>4 DEF CallInv, InCall, TypeCalls
<1>5. ASSUME NEW t \in Threads, GetData(t) PROVE TypeRest'
  <2>1. <<t, path[t]>> \in Threads \X Methods
    BY <1>4, <1>5 DEF GetData
  <2>2. asked' \subseteq Threads \X Methods
    BY <1>5, <2>1 DEF GetData, TypeRest
  <2>3. QED
    BY <1>5, <2>2 DEF GetData, envVars, TypeRest
<1>6. ASSUME NEW t \in Threads, Store(t) PROVE TypeRest'
  BY <1>4, <1>6 DEF Store, Cache, envVars, history, TypeCalls, TypeRest
<1>7. ASSUME NEW t \in Threads, IoFails(t) PROVE TypeRest'
  BY <1>7 DEF IoFails, envVars, TypeRest
<1>8. ASSUME NEW f \in Fds, NEW n \in 0..Len(request[f]), NEW cut \in BOOLEAN, Serve(f, n, cut)
      PROVE  TypeRest'
  <2>0. Take(f, n, cut) /\ request[f] # <<>>
    BY <1>8 DEF Serve, Take, TypeWires, Requests
  <2>1. PICK c \in 1..MaxCalls : c = Head(request[f]).call
    BY <2>0, RequestsType DEF TypeWires
  <2>2. served' = [served EXCEPT ![c] = @ + 1]
    BY <1>8, <2>1 DEF Serve
  <2>3. served' \in [1..MaxCalls -> Nat]
    BY <2>2 DEF TypeRest
  <2>4. faults' \in 0..MaxFaults
    BY <2>0, TakeType
  <2>5. QED
    BY <1>8, <2>3, <2>4 DEF Serve, TypeRest
<1>9. ASSUME NEW f \in Fds, NEW n \in 0..Len(request[f]), NEW cut \in BOOLEAN, Ignore(f, n, cut)
      PROVE  TypeRest'
  <2>1. faults' \in 0..MaxFaults
    BY <1>9, TakeType DEF Ignore
  <2>2. QED
    BY <1>9, <2>1 DEF Ignore, history, TypeRest
<1>10. ASSUME NEW F \in SUBSET Fds, Lose(F) PROVE lost' \in Nat
  <2>1. Cardinality(F) \in Nat
    BY PoolAssumption, FS_Subset, FS_CardinalityType
  <2>2. QED
    BY <1>10, <2>1 DEF Lose, TypeRest
<1>11. ASSUME Fault PROVE faults' \in 0..MaxFaults /\ UNCHANGED <<addrCache, history>>
  BY <1>11 DEF Fault, TypeRest
<1>12. ASSUME NEW f \in Fds, Disconnect(f) PROVE TypeRest'
  BY <1>10, <1>11, <1>12 DEF Disconnect, history, TypeRest
<1>13. ASSUME NEW n, Dies(n), Fault \/ UNCHANGED <<faults, addrCache, history>> PROVE TypeRest'
  <2>1. {f \in Fds : peer[f] /\ sock[f] = n} \in SUBSET Fds
    OBVIOUS
  <2>2. lost' \in Nat
    BY <1>10, <1>13, <2>1 DEF Dies
  <2>3. faults' \in 0..MaxFaults /\ UNCHANGED <<addrCache, history>>
    BY <1>11, <1>13 DEF TypeRest
  <2>4. QED
    BY <1>13, <2>2, <2>3 DEF Dies, history, TypeRest
<1>13b. ASSUME NEW n \in Nodes, ProviderDies(n) PROVE TypeRest'
  BY <1>13, <1>13b DEF ProviderDies
<1>13c. ASSUME NEW f \in Fds, Throws(f) PROVE TypeRest'
  BY <1>13, <1>13c DEF Throws
<1>14. ASSUME NEW n \in Nodes, ProviderStarts(n) PROVE TypeRest'
  BY <1>14 DEF ProviderStarts, history, TypeRest
<1>15. ASSUME NEW m \in Methods, NEW a \in Addresses \union {NoNode}, Reregister(m, a)
       PROVE  TypeRest'
  <2>1. listed' \in [Methods -> SUBSET Addresses]
    BY <1>15 DEF Reregister, TypeRest
  <2>2. QED
    BY <1>11, <1>15, <2>1 DEF Reregister, history, TypeRest
<1>16. CASE Exit \/ Over \/ UNCHANGED vars
  BY <1>1, <1>16 DEF Exit, Over, vars
<1>17. QED
  BY <1>2, <1>3, <1>5, <1>6, <1>7, <1>8, <1>9, <1>12, <1>13b, <1>13c, <1>14, <1>15, <1>16
  DEF Next, Run, Answering

(* Every step keeps the types.                                             *)
LEMMA TypeNext == TypeOK /\ CallInv /\ PoolInv /\ PoolInv' /\ [Next]_vars => TypeOK'
<1> SUFFICES ASSUME TypeOK, CallInv, PoolInv, PoolInv', [Next]_vars PROVE TypeOK'
  OBVIOUS
<1>1. Pool!TypeOK'
  BY DEF PoolInv, Pool!TypeOK, PoolProofs!TypeOK, Pool!Stages, PoolProofs!Stages
<1>2. TypeCalls /\ TypeWires /\ TypeRest
  BY TypeParts
<1>3. TypeCalls' /\ TypeWires' /\ TypeRest'
  BY <1>2, TypeCallsNext, TypeWiresNext, TypeRestNext
<1>4. QED
  BY <1>1, <1>3, TypeParts

-----------------------------------------------------------------------------
(* Where a thread is                                                       *)

(* While t acts, another thread stays where it is in its call.             *)
CallOthers(t) ==
    \A u \in Threads \ {t} :
        /\ stage'[u] = stage[u] /\ path'[u] = path[u] /\ data'[u] = data[u]
        /\ id'[u] = id[u] /\ answer'[u] = answer[u]

(* A call that goes on changes its stage only.                             *)
LEMMA AdvanceStep ==
  ASSUME TypeCalls, NEW t \in Threads, NEW s, Advance(t, s)
  PROVE  /\ CallOthers(t) /\ stage'[t] = s
         /\ UNCHANGED <<path, data, ctl, id, answer, calls>>
  BY DEF TypeCalls, Advance, CallOthers

(* A call that returns forgets its path and its address.                   *)
LEMMA FinishStep ==
  ASSUME TypeCalls, NEW t \in Threads, NEW r, Finish(t, r)
  PROVE  /\ CallOthers(t) /\ stage'[t] = "none" /\ path'[t] = NoMethod /\ data'[t] = NoNode
         /\ answer'[t] = r /\ id' = id /\ calls' = calls
  BY DEF TypeCalls, Finish, CallOthers

(* A call begins with what the cache has, and with a number of its own.    *)
LEMMA CallMethodStep ==
  ASSUME TypeCalls, NEW t \in Threads, NEW m \in Methods, NEW c \in Controllers,
         CallMethod(t, m, c)
  PROVE  /\ CallOthers(t) /\ stage[t] = "none" /\ stage'[t] \in {"zk", "address"}
         /\ stage'[t] = "zk" <=> addrCache[m] = NoNode
         /\ path'[t] = m /\ data'[t] = addrCache[m] /\ answer'[t] = 0
         /\ calls' = calls + 1 /\ id'[t] = calls + 1 /\ calls < MaxCalls
         /\ UNCHANGED <<poolVars, wireVars, envVars, addrCache, history>>
  BY DEF TypeCalls, CallMethod, CallOthers

(* A call takes from ZooKeeper what the registry has.                      *)
LEMMA GetDataStep ==
  ASSUME TypeCalls, NEW t \in Threads, GetData(t)
  PROVE  /\ CallOthers(t) /\ stage[t] = "zk" /\ stage'[t] \in {"store", "address"}
         /\ data'[t] = registry[path[t]]
         /\ stage'[t] = "store" <=> registry[path[t]] # NoNode
         /\ UNCHANGED <<path, id, answer, calls>>
  BY DEF TypeCalls, GetData, CallOthers

(* What holds of each thread holds after a step of t that leaves the       *)
(* others where they are, if it holds of t.                                *)
LEMMA CallStep ==
  ASSUME TypeCalls, CallInv, NEW t \in Threads, CallOthers(t),
         Others(t) \/ UNCHANGED poolVars,
         calls' \in {calls, calls + 1},
         Paired(t)', InCall(t)'
  PROVE  CallInv'
<1> SUFFICES ASSUME NEW u \in Threads, u # t PROVE Paired(u)' /\ InCall(u)'
  BY DEF CallInv
<1>1. /\ node'[u] = node[u]
      /\ pc'[u] = pc[u] \/ (pc[u] = "waiting" /\ pc'[u] = "notified")
  BY DEF Others, poolVars
<1>2. /\ stage'[u] = stage[u] /\ path'[u] = path[u] /\ data'[u] = data[u]
      /\ id'[u] = id[u] /\ answer'[u] = answer[u]
  BY DEF CallOthers
<1>3. Paired(u) /\ InCall(u)
  BY DEF CallInv
<1>4. Paired(u)'
  BY <1>1, <1>2, <1>3 DEF Paired
<1>5. id[u] \in 1..calls => id[u] \in 1..calls'
  BY BoundAssumption DEF TypeCalls
<1>6. InCall(u)'
  BY <1>1, <1>2, <1>3, <1>5 DEF InCall
<1>7. QED
  BY <1>4, <1>6

(* Every step keeps the calls at the stages that fit their place in the    *)
(* pool.                                                                   *)
LEMMA CallNext ==
  TypeCalls /\ TypeRest /\ CallInv /\ PoolInv /\ PoolInv' /\ [Next]_vars => CallInv'
<1> SUFFICES ASSUME TypeCalls, TypeRest, CallInv, PoolInv, PoolInv', [Next]_vars
             PROVE  CallInv'
  OBVIOUS
<1>0. \A t \in Threads : Paired(t) /\ InCall(t)
  BY DEF CallInv
<1>1. ASSUME UNCHANGED <<callVars, pc, node>> PROVE CallInv'
  BY <1>0, <1>1 DEF CallInv, Paired, InCall, callVars
<1>2. ASSUME NEW t \in Threads, NEW m \in Methods, NEW c \in Controllers, CallMethod(t, m, c)
      PROVE  CallInv'
  <2>1. pc'[t] = "idle"
    BY <1>0, <1>2, CallMethodStep DEF Paired, poolVars
  <2>2. Paired(t)'
    BY <1>2, <2>1, CallMethodStep DEF Paired
  <2>3. calls + 1 \in 1..(calls + 1)
    BY BoundAssumption DEF TypeCalls
  <2>4. InCall(t)'
    BY <1>2, <2>1, <2>3, CallMethodStep, AddressAssumption DEF InCall
  <2>5. QED
    BY <1>2, <2>2, <2>4, CallMethodStep, CallStep
<1>3. ASSUME NEW t \in Threads, GetData(t) PROVE CallInv'
  <2>1. pc[t] = "idle" /\ UNCHANGED poolVars
    BY <1>0, <1>3 DEF GetData, Paired
  <2>2. pc'[t] = "idle"
    BY <2>1 DEF poolVars
  <2>3. Paired(t)'
    BY <1>3, <2>2, GetDataStep DEF Paired
  <2>4. InCall(t)'
    BY <1>0, <1>3, <2>2, GetDataStep DEF InCall
  <2>5. QED
    BY <1>3, <2>1, <2>3, <2>4, GetDataStep, CallStep
<1>4. ASSUME NEW t \in Threads, Store(t) PROVE CallInv'
  <2>1. stage[t] = "store" /\ Advance(t, "address") /\ pc[t] = "idle" /\ UNCHANGED poolVars
    BY <1>0, <1>4 DEF Store, Paired
  <2>2. pc'[t] = "idle"
    BY <2>1 DEF poolVars
  <2>3. Paired(t)' /\ InCall(t)'
    BY <1>0, <2>1, <2>2, AdvanceStep DEF Paired, InCall
  <2>4. QED
    BY <2>1, <2>3, AdvanceStep, CallStep
<1>5. ASSUME NEW t \in Threads, NoAddress(t) PROVE CallInv'
  <2>1. stage[t] = "address" /\ pc[t] = "idle" /\ UNCHANGED poolVars
    BY <1>0, <1>5 DEF NoAddress, Paired
  <2>2. pc' = pc /\ node' = node
    BY <2>1 DEF poolVars
  <2>3. CASE Finish(t, 0)
    <3>1. Paired(t)' /\ InCall(t)'
      BY <2>1, <2>2, <2>3, FinishStep DEF Paired, InCall
    <3>2. QED
      BY <2>1, <2>3, <3>1, FinishStep, CallStep
  <2>4. CASE /\ stage' = [u \in Threads |-> "dead"]
             /\ UNCHANGED <<path, data, ctl, id, answer, calls>>
    BY <1>0, <2>2, <2>4 DEF CallInv, Paired, InCall
  <2>5. QED
    BY <1>5, <2>3, <2>4 DEF NoAddress
<1>6. ASSUME NEW t \in Threads, Borrow(t) PROVE CallInv'
  <2>1. stage[t] = "address" /\ data[t] \in Nodes /\ Advance(t, "borrow")
    BY <1>6 DEF Borrow
  <2>2. Others(t) /\ pc'[t] = "locking" /\ node'[t] = data[t]
    BY <1>6, AskStep DEF Borrow
  <2>3. Paired(t)' /\ InCall(t)'
    BY <1>0, <2>1, <2>2, AdvanceStep DEF Paired, InCall
  <2>4. QED
    BY <2>1, <2>2, <2>3, AdvanceStep, CallStep
<1>7. ASSUME NEW t \in Threads, Borrowing(t) \/ BorrowMishap(t) \/ Deadline(t) PROVE CallInv'
  <2>1. stage[t] = "borrow" /\ UNCHANGED callVars
    BY <1>7 DEF Borrowing, BorrowMishap, Deadline
  <2>2. /\ Others(t) /\ node' = node
        /\ pc[t] \notin {"idle", "holding"} /\ pc'[t] \notin {"idle", "holding"}
    BY <1>7, BorrowingStep DEF Borrowing, BorrowMishap, Deadline
  <2>3. CallOthers(t) /\ calls' = calls
    BY <2>1 DEF CallOthers, callVars
  <2>4. Paired(t)' /\ InCall(t)'
    BY <1>0, <2>1, <2>2 DEF Paired, InCall, callVars
  <2>5. QED
    BY <2>2, <2>3, <2>4, CallStep
<1>8. ASSUME NEW t \in Threads, Borrowed(t) PROVE CallInv'
  <2>1. stage[t] = "borrow" /\ Advance(t, "send")
    BY <1>8 DEF Borrowed
  <2>2. Others(t) /\ node' = node /\ pc[t] \notin {"idle", "holding"} /\ pc'[t] = "holding"
    BY <1>8, LendStep DEF Borrowed, Connect
  <2>3. Paired(t)' /\ InCall(t)'
    BY <1>0, <2>1, <2>2, AdvanceStep DEF Paired, InCall
  <2>4. QED
    BY <2>1, <2>2, <2>3, AdvanceStep, CallStep
<1>9. ASSUME NEW t \in Threads,
             NotBorrowed(t) \/ IoFails(t) \/ Answered(t) \/ NotParsed(t)
      PROVE  CallInv'
  <2>1. PICK r : Finish(t, r)
    BY <1>9 DEF NotBorrowed, IoFails, Answered, NotParsed
  <2>2. Others(t) /\ pc'[t] = "idle" /\ node'[t] = NoNode
    BY <1>9, LeaveStep DEF NotBorrowed, IoFails, Answered, NotParsed, Burn
  <2>3. Paired(t)' /\ InCall(t)'
    BY <2>1, <2>2, FinishStep DEF Paired, InCall
  <2>4. QED
    BY <2>1, <2>2, <2>3, FinishStep, CallStep
<1>10. ASSUME NEW t \in Threads, Send(t) \/ RecvSize(t) PROVE CallInv'
  <2>1. PICK s \in {"size", "body"} : Advance(t, s) /\ stage[t] \in {"send", "size"}
    BY <1>10 DEF Send, RecvSize
  <2>2. UNCHANGED poolVars
    BY <1>10 DEF Send, RecvSize
  <2>3. pc' = pc /\ node' = node
    BY <2>2 DEF poolVars
  <2>4. Paired(t)' /\ InCall(t)'
    BY <1>0, <2>1, <2>3, AdvanceStep DEF Paired, InCall
  <2>5. QED
    BY <2>1, <2>2, <2>4, AdvanceStep, CallStep
<1>11. ASSUME NEW f \in Fds, Answering(f) \/ Disconnect(f) PROVE CallInv'
  BY <1>1, <1>11, ProviderStep DEF Disconnect, Fault, poolVars
<1>12. ASSUME NEW n \in Nodes, ProviderDies(n) \/ ProviderStarts(n) PROVE CallInv'
  BY <1>1, <1>12 DEF ProviderDies, ProviderStarts, Fault, poolVars
<1>13. ASSUME NEW m \in Methods, NEW a \in Addresses \union {NoNode}, Reregister(m, a)
       PROVE  CallInv'
  BY <1>1, <1>13 DEF Reregister, Fault, poolVars
<1>14. CASE Exit \/ Over \/ UNCHANGED vars
  BY <1>1, <1>14 DEF Exit, Over, vars, poolVars, Pool!Destroy
<1>15. QED
  BY <1>2, <1>3, <1>4, <1>5, <1>6, <1>7, <1>8, <1>9, <1>10, <1>11, <1>12, <1>13, <1>14
  DEF Next, Run

(* A call's number is new.                                                 *)
LEMMA NumbersNext ==
  TypeCalls /\ CallInv /\ OwnNumbers /\ [Next]_vars => OwnNumbers'
<1> SUFFICES ASSUME TypeCalls, CallInv, OwnNumbers, [Next]_vars
             PROVE  OwnNumbers'
  OBVIOUS
<1>1. ASSUME id' = id, \A t \in Threads : path'[t] \in {path[t], NoMethod}
      PROVE  OwnNumbers'
  BY <1>1 DEF OwnNumbers
<1>2. ASSUME NEW t \in Threads, NEW m \in Methods, NEW c \in Controllers, CallMethod(t, m, c)
      PROVE  OwnNumbers'
  <2>1. \A u \in Threads \ {t} : path[u] # NoMethod => id[u] # calls + 1
    BY BoundAssumption DEF CallInv, InCall, TypeCalls
  <2>2. id'[t] = calls + 1 /\ CallOthers(t)
    BY <1>2, CallMethodStep
  <2>3. \A u \in Threads \ {t} : path'[u] # NoMethod => id'[u] # id'[t]
    BY <2>1, <2>2 DEF CallOthers
  <2>4. QED
    BY <2>2, <2>3 DEF OwnNumbers, CallOthers
<1>3. ASSUME NEW t \in Threads, Run(t) \/ BorrowMishap(t) \/ Deadline(t) PROVE OwnNumbers'
  <2>1. id' = id /\ path' \in {path, [path EXCEPT ![t] = NoMethod]}
    BY <1>3 DEF Run, BorrowMishap, Deadline, GetData, Store, NoAddress, Borrow, Borrowing,
                Borrowed, NotBorrowed, Send, RecvSize, IoFails, Answered, NotParsed,
                Advance, Finish, callVars
  <2>2. QED
    BY <1>1, <2>1 DEF TypeCalls
<1>4. ASSUME UNCHANGED callVars PROVE OwnNumbers'
  BY <1>1, <1>4 DEF callVars
<1>5. ASSUME NEW f \in Fds, Answering(f) \/ Disconnect(f) PROVE OwnNumbers'
  BY <1>4, <1>5, ProviderStep DEF Disconnect, Fault
<1>6. ASSUME NEW n \in Nodes, ProviderDies(n) \/ ProviderStarts(n) PROVE OwnNumbers'
  BY <1>4, <1>6 DEF ProviderDies, ProviderStarts, Fault
<1>7. ASSUME NEW m \in Methods, NEW a \in Addresses \union {NoNode}, Reregister(m, a)
      PROVE  OwnNumbers'
  BY <1>4, <1>7 DEF Reregister, Fault
<1>8. CASE Exit \/ Over \/ UNCHANGED vars
  BY <1>4, <1>8 DEF Exit, Over, vars
<1>9. QED
  BY <1>2, <1>3, <1>5, <1>6, <1>7, <1>8 DEF Next

(* The calls and the pool agree.                                           *)
Calls == PoolInv /\ TypeOK /\ CallInv /\ OwnNumbers

(* What calls and pool know of each other holds at first.                  *)
LEMMA CallsInit == Init => Calls
  BY PoolInitInv, TypesInit DEF Calls

(* Every step keeps it.                                                    *)
LEMMA CallsNext == Calls /\ [Next]_vars => Calls'
<1> SUFFICES ASSUME Calls, [Next]_vars PROVE Calls'
  OBVIOUS
<1>1. PoolInv'
  BY PoolNextInv DEF Calls
<1>2. TypeCalls /\ TypeRest
  BY TypeParts DEF Calls
<1>3. QED
  BY <1>1, <1>2, TypeNext, CallNext, NumbersNext DEF Calls

(* Every variable of the calls has its type, those of the pool included.   *)
THEOREM TypeCorrect == Spec => []TypeOK
<1>1. Calls => TypeOK
  BY DEF Calls
<1>2. QED
  BY <1>1, CallsInit, CallsNext, PTL DEF Spec

(* Every return path of CallMethod gives the connection back: a thread has *)
(* one exactly while it sends or receives.                                 *)
THEOREM BorrowReturnPairedHolds == Spec => []BorrowReturnPaired
<1>1. Calls => BorrowReturnPaired
  BY DEF Calls, CallInv, Paired, BorrowReturnPaired
<1>2. QED
  BY <1>1, CallsInit, CallsNext, PTL DEF Spec

-----------------------------------------------------------------------------
(* The address cache                                                       *)

(* At first nobody has asked for anything.                                 *)
LEMMA OneLookupInit == Init => AskedInv /\ OneLookup
  BY DEF Init, AskedInv, OneLookup

(* What is cached stays cached.                                            *)
LEMMA CacheGrows ==
  ASSUME TypeCalls, TypeRest, CallInv, NEW t \in Threads, Store(t)
  PROVE  /\ addrCache'[path[t]] # NoNode
         /\ \A m \in Methods : addrCache[m] # NoNode => addrCache'[m] # NoNode
<1>1. path[t] \in Methods /\ data[t] # NoNode
  BY DEF Store, CallInv, InCall, TypeCalls
<1>2. addrCache' = [addrCache EXCEPT ![path[t]] = data[t]]
  BY DEF Store, Cache
<1>3. QED
  BY <1>1, <1>2 DEF TypeRest

(* No step makes a thread ask twice.                                       *)
LEMMA OneLookupNext ==
  Calls /\ AskedInv /\ OneLookup /\ [Next]_vars => AskedInv' /\ OneLookup'
<1> SUFFICES ASSUME Calls, AskedInv, OneLookup, [Next]_vars PROVE AskedInv' /\ OneLookup'
  OBVIOUS
<1>0. TypeCalls /\ TypeRest /\ PoolInv /\ CallInv
  BY TypeParts DEF Calls
<1>1. ASSUME UNCHANGED <<stage, path, addrCache, asked>> PROVE AskedInv' /\ OneLookup'
  BY <1>1 DEF AskedInv, OneLookup
<1>2. ASSUME NEW t \in Threads, CallOthers(t), UNCHANGED <<addrCache, asked>>,
             stage[t] \notin {"store", "dead"}, stage'[t] # "zk"
      PROVE  AskedInv' /\ OneLookup'
  BY <1>2 DEF AskedInv, OneLookup, CallOthers
<1>3. ASSUME NEW t \in Threads, NEW m \in Methods, NEW c \in Controllers, CallMethod(t, m, c)
      PROVE  AskedInv' /\ OneLookup'
  <2>1. /\ CallOthers(t) /\ stage[t] = "none" /\ path'[t] = m
        /\ stage'[t] = "zk" => addrCache[m] = NoNode
        /\ UNCHANGED <<addrCache, asked>>
    BY <1>0, <1>3, CallMethodStep DEF history
  <2>2. AskedInv'
    BY <2>1 DEF AskedInv, CallOthers
  <2>3. OneLookup'
    BY <2>1 DEF AskedInv, OneLookup, CallOthers
  <2>4. QED
    BY <2>2, <2>3
<1>4. ASSUME NEW t \in Threads, GetData(t) PROVE AskedInv' /\ OneLookup'
  <2>1. CallOthers(t) /\ stage[t] = "zk" /\ stage'[t] \in {"store", "address"} /\ path' = path
    BY <1>0, <1>4, GetDataStep
  <2>2. /\ addrCache' = addrCache
        /\ \/ asked' = asked
           \/ asked' = asked \union {<<t, path[t]>>} /\ stage'[t] = "store"
    BY <1>0, <1>4, GetDataStep DEF GetData
  <2>3. AskedInv'
    BY <2>1, <2>2 DEF AskedInv, CallOthers
  <2>4. OneLookup'
    BY <2>1, <2>2 DEF OneLookup, CallOthers
  <2>5. QED
    BY <2>3, <2>4
<1>5. ASSUME NEW t \in Threads, Store(t) PROVE AskedInv' /\ OneLookup'
  <2>1. /\ CallOthers(t) /\ stage[t] = "store" /\ stage'[t] = "address"
        /\ path' = path /\ asked' = asked
    BY <1>0, <1>5, AdvanceStep DEF Store, history
  <2>2. /\ addrCache'[path[t]] # NoNode
        /\ \A m \in Methods : addrCache[m] # NoNode => addrCache'[m] # NoNode
    BY <1>0, <1>5, CacheGrows
  <2>3. AskedInv'
    BY <2>1, <2>2 DEF AskedInv, CallOthers
  <2>4. OneLookup'
    BY <2>1 DEF OneLookup, CallOthers
  <2>5. QED
    BY <2>3, <2>4
<1>6. ASSUME NEW t \in Threads, NoAddress(t) PROVE AskedInv' /\ OneLookup'
  <2>1. CASE Finish(t, 0)
    BY <1>0, <1>2, <1>6, <2>1, FinishStep DEF NoAddress, history
  <2>2. CASE stage' = [u \in Threads |-> "dead"] /\ path' = path
    BY <1>6, <2>2 DEF NoAddress, history, AskedInv, OneLookup
  <2>3. QED
    BY <1>6, <2>1, <2>2 DEF NoAddress
<1>7. ASSUME NEW t \in Threads, \/ Borrow(t) \/ Borrowed(t) \/ Send(t) \/ RecvSize(t)
      PROVE  AskedInv' /\ OneLookup'
  <2>1. PICK s \in CallStages \ {"zk"} : Advance(t, s)
    BY <1>7 DEF Borrow, Borrowed, Send, RecvSize, CallStages
  <2>2. stage[t] \notin {"store", "dead"} /\ UNCHANGED <<addrCache, asked>>
    BY <1>7 DEF Borrow, Borrowed, Send, RecvSize, history
  <2>3. QED
    BY <1>0, <1>2, <2>1, <2>2, AdvanceStep
<1>8. ASSUME NEW t \in Threads,
             NotBorrowed(t) \/ IoFails(t) \/ Answered(t) \/ NotParsed(t)
      PROVE  AskedInv' /\ OneLookup'
  <2>1. PICK r : Finish(t, r)
    BY <1>8 DEF NotBorrowed, IoFails, Answered, NotParsed
  <2>2. stage[t] \notin {"store", "dead"} /\ UNCHANGED <<addrCache, asked>>
    BY <1>8 DEF NotBorrowed, IoFails, Answered, NotParsed, history
  <2>3. QED
    BY <1>0, <1>2, <2>1, <2>2, FinishStep
<1>9. ASSUME NEW t \in Threads, Borrowing(t) \/ BorrowMishap(t) \/ Deadline(t)
      PROVE  AskedInv' /\ OneLookup'
  BY <1>1, <1>9 DEF Borrowing, BorrowMishap, Deadline, callVars, history
<1>10. ASSUME NEW f \in Fds, Answering(f) \/ Disconnect(f) PROVE AskedInv' /\ OneLookup'
  BY <1>1, <1>10, ProviderStep DEF Disconnect, Fault, callVars, history
<1>11. ASSUME NEW n \in Nodes, ProviderDies(n) \/ ProviderStarts(n)
       PROVE  AskedInv' /\ OneLookup'
  BY <1>1, <1>11 DEF ProviderDies, ProviderStarts, Fault, callVars, history
<1>12. ASSUME NEW m \in Methods, NEW a \in Addresses \union {NoNode}, Reregister(m, a)
       PROVE  AskedInv' /\ OneLookup'
  BY <1>1, <1>12 DEF Reregister, Fault, callVars, history
<1>13. CASE Exit \/ Over \/ UNCHANGED vars
  BY <1>1, <1>13 DEF Exit, Over, vars, callVars, history
<1>14. QED
  BY <1>3, <1>4, <1>5, <1>6, <1>7, <1>8, <1>9, <1>10, <1>11, <1>12, <1>13 DEF Next, Run

(* A thread opens at most one ZooKeeper session that finds an address per  *)
(* method: what it asked for is in the cache before it can ask again.      *)
THEOREM OneLookupHolds == Spec => []OneLookup
  BY OneLookupInit, OneLookupNext, CallsInit, CallsNext, PTL DEF Spec

(* Every address at hand was registered for the method it is used for.     *)
LEMMA AddressInit == Init => AddressInv
  BY AddressAssumption DEF Init, AddressInv

(* Every step keeps the addresses to those that were registered.           *)
LEMMA AddressNext == Calls /\ AddressInv /\ [Next]_vars => AddressInv'
<1> SUFFICES ASSUME Calls, AddressInv, [Next]_vars PROVE AddressInv'
  OBVIOUS
<1>0. TypeCalls /\ TypeRest /\ PoolInv /\ CallInv
  BY TypeParts DEF Calls
<1> USE AddressAssumption
<1>1. ASSUME UNCHANGED <<path, data, registry, addrCache, listed>> PROVE AddressInv'
  BY <1>1 DEF AddressInv
<1>2. ASSUME NEW t \in Threads, CallOthers(t), UNCHANGED <<registry, addrCache, listed>>,
             path'[t] # NoMethod => data'[t] \in listed[path'[t]] \union {NoNode}
      PROVE  AddressInv'
  BY <1>2 DEF AddressInv, CallOthers
<1>3. ASSUME NEW t \in Threads, NEW m \in Methods, NEW c \in Controllers, CallMethod(t, m, c)
      PROVE  AddressInv'
  <2>1. /\ CallOthers(t) /\ path'[t] = m /\ data'[t] = addrCache[m]
        /\ UNCHANGED <<registry, addrCache, listed>>
    BY <1>0, <1>3, CallMethodStep DEF envVars
  <2>2. QED
    BY <1>2, <2>1 DEF AddressInv
<1>4. ASSUME NEW t \in Threads, GetData(t) PROVE AddressInv'
  <2>1. /\ CallOthers(t) /\ path' = path /\ data'[t] = registry[path[t]]
        /\ UNCHANGED <<registry, addrCache, listed>>
    BY <1>0, <1>4, GetDataStep DEF GetData, envVars
  <2>2. path[t] \in Methods
    BY <1>0, <1>4 DEF GetData, CallInv, InCall, TypeCalls
  <2>3. QED
    BY <1>2, <2>1, <2>2 DEF AddressInv
<1>5. ASSUME NEW t \in Threads, Store(t) PROVE AddressInv'
  <2>1. /\ UNCHANGED <<path, data, registry, listed>>
        /\ addrCache' = [addrCache EXCEPT ![path[t]] = data[t]]
    BY <1>5 DEF Store, Cache, Advance, envVars
  <2>2. path[t] # NoMethod
    BY <1>0, <1>5 DEF Store, CallInv, InCall
  <2>3. QED
    BY <1>0, <2>1, <2>2 DEF AddressInv, TypeRest
<1>6. ASSUME NEW t \in Threads, NoAddress(t) PROVE AddressInv'
  <2>1. CASE Finish(t, 0)
    BY <1>0, <1>2, <1>6, <2>1, FinishStep DEF NoAddress, envVars
  <2>2. CASE UNCHANGED <<path, data>>
    BY <1>1, <1>6, <2>2 DEF NoAddress, envVars
  <2>3. QED
    BY <1>6, <2>1, <2>2 DEF NoAddress
<1>7. ASSUME NEW t \in Threads,
             \/ Borrow(t) \/ Borrowed(t) \/ Send(t) \/ RecvSize(t)
             \/ Borrowing(t) \/ BorrowMishap(t) \/ Deadline(t)
      PROVE  AddressInv'
  BY <1>1, <1>7 DEF Borrow, Borrowed, Send, RecvSize, Borrowing, BorrowMishap, Deadline,
                    Advance, callVars, envVars
<1>8. ASSUME NEW t \in Threads,
             NotBorrowed(t) \/ IoFails(t) \/ Answered(t) \/ NotParsed(t)
      PROVE  AddressInv'
  <2>1. PICK r : Finish(t, r)
    BY <1>8 DEF NotBorrowed, IoFails, Answered, NotParsed
  <2>2. UNCHANGED <<registry, addrCache, listed>>
    BY <1>8 DEF NotBorrowed, IoFails, Answered, NotParsed, envVars
  <2>3. QED
    BY <1>0, <1>2, <2>1, <2>2, FinishStep
<1>9. ASSUME NEW f \in Fds, Answering(f) \/ Disconnect(f) PROVE AddressInv'
  BY <1>1, <1>9, ProviderStep DEF Disconnect, Fault, callVars
<1>10. ASSUME NEW n \in Nodes, ProviderDies(n) \/ ProviderStarts(n) PROVE AddressInv'
  BY <1>1, <1>10 DEF ProviderDies, Dies, ProviderStarts, Fault, callVars
<1>11. ASSUME NEW m \in Methods, NEW a \in Addresses \union {NoNode}, Reregister(m, a)
       PROVE  AddressInv'
  <2>1. /\ UNCHANGED <<path, data, addrCache>>
        /\ registry' = [registry EXCEPT ![m] = a]
        /\ listed' = [listed EXCEPT ![m] = @ \union ({a} \ {NoNode})]
    BY <1>11 DEF Reregister, Fault, callVars
  <2>2. \A k \in Methods : listed[k] \subseteq listed'[k] /\ registry'[k] \in listed'[k] \union {NoNode}
    BY <1>0, <2>1 DEF AddressInv, TypeRest
  <2>3. \A t \in Threads : path[t] # NoMethod => path[t] \in Methods
    BY <1>0 DEF TypeCalls
  <2>4. QED
    BY <2>1, <2>2, <2>3 DEF AddressInv
<1>12. CASE Exit \/ Over \/ UNCHANGED vars
  BY <1>1, <1>12 DEF Exit, Over, vars, callVars, envVars
<1>13. QED
  BY <1>3, <1>4, <1>5, <1>6, <1>7, <1>8, <1>9, <1>10, <1>11, <1>12 DEF Next, Run

-----------------------------------------------------------------------------
(* The streams                                                             *)

(* A step of t leaves alone the streams it does not read or write.         *)
LEMMA StreamKept ==
  ASSUME PoolInv, NEW t \in Threads, NEW f \in Fds, InUse(f),
         CallOthers(t), Others(t) \/ UNCHANGED poolVars,
         fd[t] # f \/ stage[t] \notin {"size", "body", "dead"},
         request'[f] = request[f], response'[f] = response[f]
  PROVE  InUse(f)'
<1>1. CASE Clean(f)
  BY <1>1 DEF InUse, Clean
<1>2. ASSUME NEW u \in Threads, Uses(u, f) PROVE InUse(f)'
  <2>1. u # t /\ fd[u] = f /\ pc[u] = "holding"
    BY <1>2 DEF Uses
  <2>2. fd'[u] = fd[u] /\ pc'[u] = "holding"
    BY <2>1 DEF Others, poolVars
  <2>3. stage'[u] = stage[u] /\ path'[u] = path[u] /\ id'[u] = id[u]
    BY <2>1 DEF CallOthers
  <2>4. Uses(u, f)'
    BY <1>2, <2>1, <2>2, <2>3 DEF Uses, Requested, Replied, SizeRead, Bodies, Part
  <2>5. QED
    BY <2>4 DEF InUse
<1>3. QED
  BY <1>1, <1>2 DEF InUse

(* A connection in use stays so when its call and its streams stay as they *)
(* are.                                                                    *)
LEMMA InUseSame ==
  ASSUME NEW f \in Fds, InUse(f), UNCHANGED <<stage, path, id, fd, pc>>,
         request'[f] = request[f], response'[f] = response[f]
  PROVE  InUse(f)'
  BY DEF InUse, Uses, Clean, Requested, Replied, SizeRead, Bodies, Part

(* A holder has its streams for itself, and what they hold tells its stage. *)
LEMMA HolderUses ==
  ASSUME PoolInv, NEW t \in Threads, fd[t] # NoFd, InUse(fd[t])
  PROVE  Clean(fd[t]) \/ Uses(t, fd[t])
  BY PoolFacts DEF InUse, Uses

(* What the holder of f finds there.                                       *)
LEMMA SendClean ==
  ASSUME Calls, StreamInv, NEW t \in Threads, stage[t] = "send"
  PROVE  /\ fd[t] \in Fds /\ pc[t] = "holding" /\ Clean(fd[t])
<1>1. pc[t] = "holding" /\ fd[t] \in Fds
  BY PoolFacts DEF Calls, CallInv, Paired
<1>2. QED
  BY <1>1, HolderUses, PoolAssumption DEF StreamInv, InUse, Uses, Calls

(* A size that can be read is of the response to the call that reads it.   *)
LEMMA SizeReplied ==
  ASSUME Calls, StreamInv, NEW t \in Threads, stage[t] = "size", response[fd[t]] # <<>>
  PROVE  fd[t] \in Fds /\ pc[t] = "holding" /\ Replied(t, fd[t])
<1>1. pc[t] = "holding" /\ fd[t] \in Fds
  BY PoolFacts DEF Calls, CallInv, Paired
<1>2. QED
  BY <1>1, HolderUses, PoolAssumption DEF StreamInv, InUse, Uses, Clean, Requested, Calls

(* So is a body.                                                           *)
LEMMA BodyRead ==
  ASSUME Calls, StreamInv, NEW t \in Threads, stage[t] = "body", response[fd[t]] # <<>>
  PROVE  fd[t] \in Fds /\ pc[t] = "holding" /\ SizeRead(t, fd[t])
<1>1. pc[t] = "holding" /\ fd[t] \in Fds
  BY PoolFacts DEF Calls, CallInv, Paired
<1>2. QED
  BY <1>1, HolderUses, PoolAssumption DEF StreamInv, InUse, Uses, Clean, Calls

(* A request on its way belongs to the call that holds the connection.     *)
LEMMA RequestOwner ==
  ASSUME StreamInv, NEW f \in Fds, request[f] # <<>>
  PROVE  \E t \in Threads :
            /\ fd[t] = f /\ pc[t] = "holding" /\ stage[t] \in {"size", "dead"}
            /\ Requested(t, f)
  BY DEF StreamInv, InUse, Uses, Clean, Replied, SizeRead

(* Parts of short streams.                                                 *)
LEMMA ShortParts ==
  ASSUME NEW p, NEW q
  PROVE  /\ Tail(<<p>>) = <<>>
         /\ SubSeq(<<p, q>>, 1, 0) = <<>>
         /\ SubSeq(<<p, q>>, 1, 1) = <<p>>
<1>1. Tail(<<p>>) = <<>>
  OBVIOUS
<1>2. SubSeq(<<p, q>>, 1, 0) = <<>>
  OBVIOUS
<1>3. SubSeq(<<p, q>>, 1, 1) = <<p>>
  <2>1. <<p, q>> \in Seq({p, q}) /\ Len(<<p, q>>) = 2 /\ <<p, q>>[1] = p
    OBVIOUS
  <2>2. /\ SubSeq(<<p, q>>, 1, 1) \in Seq({p, q})
        /\ Len(SubSeq(<<p, q>>, 1, 1)) = 1
        /\ SubSeq(<<p, q>>, 1, 1)[1] = p
    BY <2>1, SubSeqProperties
  <2>3. <<p>> \in Seq({p, q}) /\ Len(<<p>>) = 1 /\ <<p>>[1] = p
    OBVIOUS
  <2>4. \A i \in 1..1 : i = 1
    OBVIOUS
  <2>5. QED
    BY <2>2, <2>3, <2>4, SeqEqual
<1>4. QED
  BY <1>1, <1>2, <1>3

(* What a broken connection keeps of a response is a response still.       *)
LEMMA LoseKeeps ==
  ASSUME TypeWires, NEW F \in SUBSET Fds, Lose(F),
         UNCHANGED <<stage, path, id, fd, pc>>, NEW f \in Fds, InUse(f)
  PROVE  InUse(f)'
<1>1. PICK keep \in [F -> 0..2] :
        response' = [g \in Fds |-> IF g \in F /\ keep[g] < Len(response[g])
                                   THEN SubSeq(response[g], 1, keep[g])
                                   ELSE response[g]]
  BY DEF Lose
<1>2. request'[f] = <<>> \/ request'[f] = request[f]
  BY DEF Lose
<1>3. CASE f \notin F
  <2>1. request'[f] = request[f] /\ response'[f] = response[f]
    BY <1>1, <1>3 DEF Lose
  <2>2. QED
    BY <2>1, InUseSame
<1>4. CASE f \in F
  <2>0. request'[f] = <<>> /\ keep[f] \in 0..2
    BY <1>4 DEF Lose
  <2>1. \/ response'[f] = response[f]
        \/ keep[f] < Len(response[f]) /\ response'[f] = SubSeq(response[f], 1, keep[f])
    BY <1>1, <1>4
  <2>2. CASE response[f] = <<>>
    BY <2>0, <2>1, <2>2 DEF InUse, Clean
  <2>3. ASSUME NEW p, response[f] = <<p>>
        PROVE  response'[f] \in {<<>>, <<p>>}
    BY <2>0, <2>1, <2>3
  <2>4. ASSUME NEW p, NEW q, response[f] = <<p, q>>
        PROVE  response'[f] \in {<<>>, <<p>>, <<p, q>>}
    <3>0. <<p, q>> \in Seq({p, q}) /\ Len(<<p, q>>) = 2
      OBVIOUS
    <3>1. SubSeq(<<p, q>>, 1, 0) = <<>> /\ SubSeq(<<p, q>>, 1, 1) = <<p>>
      BY ShortParts
    <3>2. CASE response'[f] = response[f]
      BY <2>4, <3>2
    <3>3. CASE keep[f] < Len(response[f]) /\ response'[f] = SubSeq(response[f], 1, keep[f])
      <4>1. keep[f] \in {0, 1}
        BY <2>0, <2>4, <3>0, <3>3
      <4>2. QED
        BY <2>4, <3>1, <3>3, <4>1
    <3>4. QED
      BY <2>1, <3>2, <3>3
  <2>5. CASE response[f] # <<>>
    <3>1. PICK t \in Threads : Uses(t, f) /\ (Replied(t, f) \/ SizeRead(t, f))
      BY <2>5 DEF InUse, Uses, Clean, Requested
    <3>2. response'[f] = <<>> \/ Replied(t, f)' \/ SizeRead(t, f)'
      BY <2>0, <2>3, <2>4, <3>1 DEF Replied, SizeRead, Bodies, Part
    <3>3. CASE response'[f] = <<>>
      BY <2>0, <3>3 DEF InUse, Clean
    <3>4. CASE Replied(t, f) /\ response'[f] # <<>>
      BY <2>0, <2>3, <2>4, <3>1, <3>4 DEF InUse, Uses, Requested, Replied, SizeRead, Bodies, Part
    <3>5. CASE SizeRead(t, f) /\ response'[f] # <<>>
      BY <2>0, <2>3, <3>1, <3>5 DEF InUse, Uses, Requested, Replied, SizeRead, Bodies, Part
    <3>6. QED
      BY <3>1, <3>3, <3>4, <3>5
  <2>6. QED
    BY <2>2, <2>5
<1>5. QED
  BY <1>3, <1>4

(* OnMessage takes the one frame that is there, or leaves it behind the    *)
(* rest of another.                                                        *)
LEMMA TakenSome ==
  ASSUME TypeWires, StreamInv, NEW f \in Fds, NEW n \in 0..Len(request[f]), NEW cut \in BOOLEAN,
         Take(f, n, cut)
  PROVE  /\ request'[f] \in {<<>>, request[f]}
         /\ \A g \in Fds \ {f} : request'[g] = request[g]
<1>1. /\ request'[f] = SubSeq(request[f], n + 1, Len(request[f]))
      /\ \A g \in Fds \ {f} : request'[g] = request[g]
  BY DEF Take, TakeBytes, TypeWires
<1>2. CASE request[f] = <<>>
  <2>1. Len(request[f]) = 0 /\ n = 0
    BY <1>2
  <2>2. SubSeq(request[f], 1, 0) = <<>>
    BY SubSeqEmpty
  <2>3. QED
    BY <1>1, <2>1, <2>2
<1>3. CASE request[f] # <<>>
  <2>1. PICK p : request[f] = <<p>>
    BY <1>3, RequestOwner DEF Requested
  <2>2. QED
    BY <1>1, <2>1, FramesBehind
<1>4. QED
  BY <1>2, <1>3

(* Where no rest is in front, it takes the frame.                          *)
LEMMA TakenWhole ==
  ASSUME TypeWires, StreamInv, NEW f \in Fds, NEW n \in 0..Len(request[f]), NEW cut \in BOOLEAN,
         Take(f, n, cut), ~rest[f]
  PROVE  /\ request[f] # <<>> /\ request'[f] = <<>>
         /\ \A g \in Fds \ {f} : request'[g] = request[g]
<1>1. /\ request'[f] = SubSeq(request[f], n + 1, Len(request[f])) /\ n # 0
      /\ \A g \in Fds \ {f} : request'[g] = request[g]
  BY DEF Take, TakeBytes, TypeWires
<1>2. request[f] # <<>>
  BY <1>1
<1>3. PICK p : request[f] = <<p>>
  BY <1>2, RequestOwner DEF Requested
<1>4. Len(request[f]) = 1 /\ n = 1
  BY <1>1, <1>3
<1>5. SubSeq(request[f], 2, 1) = <<>>
  BY SubSeqEmpty
<1>6. QED
  BY <1>1, <1>2, <1>4, <1>5

(* At first no stream holds anything.                                      *)
LEMMA StreamInit == Init => StreamInv
  BY DEF Init, StreamInv, InUse, Clean

(* Every step keeps the streams to the calls that hold them.               *)
LEMMA StreamNext == Calls /\ StreamInv /\ [Next]_vars => StreamInv'
<1> SUFFICES ASSUME Calls, StreamInv, [Next]_vars PROVE StreamInv'
  OBVIOUS
<1>0. TypeCalls /\ TypeWires /\ TypeRest /\ PoolInv /\ CallInv /\ \A f \in Fds : InUse(f)
  BY TypeParts DEF Calls, StreamInv
<1>1. ASSUME UNCHANGED <<stage, path, id, fd, pc, request, response>> PROVE StreamInv'
  BY <1>0, <1>1, InUseSame DEF StreamInv
(* A step of t that is not about its streams.                              *)
<1>2. ASSUME NEW t \in Threads, CallOthers(t), Others(t) \/ UNCHANGED poolVars,
             stage[t] \notin {"size", "body", "dead"}, UNCHANGED <<request, response>>
      PROVE  StreamInv'
  BY <1>0, <1>2, StreamKept DEF StreamInv
(* A step of t that leaves its own streams as it must.                     *)
<1>3. ASSUME NEW t \in Threads, NEW f \in Fds, fd[t] = f,
             CallOthers(t), Others(t) \/ UNCHANGED poolVars,
             \A g \in Fds \ {f} : request'[g] = request[g] /\ response'[g] = response[g],
             InUse(f)'
      PROVE  StreamInv'
  <2>1. ASSUME NEW g \in Fds, g # f PROVE InUse(g)'
    BY <1>0, <1>3, <2>1, StreamKept
  <2>2. QED
    BY <1>3, <2>1 DEF StreamInv
<1>4. ASSUME NEW t \in Threads, NEW m \in Methods, NEW c \in Controllers, CallMethod(t, m, c)
      PROVE  StreamInv'
  BY <1>0, <1>2, <1>4, CallMethodStep DEF wireVars
<1>5. ASSUME NEW t \in Threads, GetData(t) PROVE StreamInv'
  <2>1. UNCHANGED <<poolVars, request, response>>
    BY <1>5 DEF GetData, wireVars
  <2>2. QED
    BY <1>0, <1>2, <1>5, <2>1, GetDataStep
<1>6. ASSUME NEW t \in Threads, Store(t) PROVE StreamInv'
  <2>1. Advance(t, "address") /\ stage[t] = "store" /\ UNCHANGED <<poolVars, request, response>>
    BY <1>6 DEF Store, wireVars
  <2>2. QED
    BY <1>0, <1>2, <2>1, AdvanceStep
<1>7. ASSUME NEW t \in Threads, NoAddress(t) PROVE StreamInv'
  <2>1. stage[t] = "address" /\ UNCHANGED <<poolVars, request, response>>
    BY <1>7 DEF NoAddress, wireVars
  <2>2. CASE Finish(t, 0)
    BY <1>0, <1>2, <2>1, <2>2, FinishStep
  <2>3. CASE stage' = [u \in Threads |-> "dead"] /\ path' = path /\ id' = id
    BY <1>0, <2>1, <2>3
    DEF poolVars, StreamInv, InUse, Uses, Clean, Requested, Replied, SizeRead, Bodies, Part
  <2>4. QED
    BY <1>7, <2>2, <2>3 DEF NoAddress
<1>8. ASSUME NEW t \in Threads, Borrow(t) PROVE StreamInv'
  <2>1. /\ Advance(t, "borrow") /\ stage[t] = "address" /\ Others(t)
        /\ UNCHANGED <<request, response>>
    BY <1>0, <1>8, AskStep DEF Borrow, wireVars
  <2>2. QED
    BY <1>0, <1>2, <2>1, AdvanceStep
<1>9. ASSUME NEW t \in Threads, Borrowing(t) \/ BorrowMishap(t) \/ Deadline(t)
      PROVE  StreamInv'
  <2>1. stage[t] = "borrow" /\ UNCHANGED <<request, response>> /\ CallOthers(t)
    BY <1>9 DEF Borrowing, BorrowMishap, Deadline, wireVars, callVars, CallOthers
  <2>2. Others(t)
    BY <1>0, <1>9, BorrowingStep DEF Borrowing, BorrowMishap, Deadline
  <2>3. QED
    BY <1>2, <2>1, <2>2
<1>10. ASSUME NEW t \in Threads, Borrowed(t) PROVE StreamInv'
  <2>1. Advance(t, "send") /\ stage[t] = "borrow" /\ UNCHANGED <<request, response>>
    BY <1>10 DEF Borrowed, Connect, wireVars
  <2>2. Others(t)
    BY <1>0, <1>10, LendStep DEF Borrowed, Connect
  <2>3. QED
    BY <1>0, <1>2, <2>1, <2>2, AdvanceStep
<1>11. ASSUME NEW t \in Threads, NotBorrowed(t) PROVE StreamInv'
  <2>1. Finish(t, 0) /\ stage[t] = "borrow" /\ UNCHANGED <<request, response>>
    BY <1>11 DEF NotBorrowed, wireVars
  <2>2. Others(t)
    BY <1>0, <1>11, LeaveStep DEF NotBorrowed
  <2>3. QED
    BY <1>0, <1>2, <2>1, <2>2, FinishStep
<1>12. ASSUME NEW t \in Threads, Send(t) PROVE StreamInv'
  <2>1. PICK f \in Fds : fd[t] = f /\ pc[t] = "holding" /\ Clean(f)
    BY <1>12, SendClean DEF Send
  <2>2. /\ CallOthers(t) /\ stage'[t] = "size" /\ path' = path /\ id' = id
        /\ UNCHANGED poolVars /\ response' = response
    BY <1>0, <1>12, AdvanceStep DEF Send
  <2>3. /\ \A g \in Fds \ {f} : request'[g] = request[g]
        /\ request'[f] \in {<<>>, <<Part(path[t], id[t])>>}
    BY <1>0, <1>12, <2>1 DEF Send, TypeWires, Clean
  <2>4. Clean(f)' \/ Uses(t, f)'
    BY <2>1, <2>2, <2>3 DEF Clean, Uses, Requested, poolVars
  <2>5. QED
    BY <1>3, <2>1, <2>2, <2>3, <2>4 DEF InUse
<1>13. ASSUME NEW t \in Threads, RecvSize(t) PROVE StreamInv'
  <2>1. PICK f \in Fds : fd[t] = f /\ pc[t] = "holding" /\ Replied(t, f)
    BY <1>13, SizeReplied DEF RecvSize
  <2>2. /\ CallOthers(t) /\ stage'[t] = "body" /\ path' = path /\ id' = id
        /\ UNCHANGED poolVars /\ request' = request
    BY <1>0, <1>13, AdvanceStep DEF RecvSize
  <2>3. /\ \A g \in Fds \ {f} : response'[g] = response[g]
        /\ response'[f] = Tail(response[f])
    BY <1>0, <1>13, <2>1 DEF RecvSize, TypeWires
  <2>4. ASSUME response[f] = <<Part("size", id[t])>> PROVE InUse(f)'
    <3>1. response'[f] = <<>>
      BY <2>3, <2>4, ShortParts
    <3>2. QED
      BY <2>1, <2>2, <3>1 DEF InUse, Clean, Replied
  <2>5. ASSUME NEW b \in Bodies(t), response[f] = <<Part("size", id[t]), b>>
        PROVE  InUse(f)'
    <3>1. response'[f] = <<b>>
      BY <2>3, <2>5
    <3>2. SizeRead(t, f)'
      BY <2>1, <2>2, <3>1 DEF Replied, SizeRead, Bodies, Part
    <3>3. QED
      BY <2>1, <2>2, <3>2 DEF InUse, Uses, poolVars
  <2>6. InUse(f)'
    BY <2>1, <2>4, <2>5 DEF Replied
  <2>7. QED
    BY <1>3, <2>1, <2>2, <2>3, <2>6
<1>14. ASSUME NEW t \in Threads, IoFails(t) \/ NotParsed(t) PROVE StreamInv'
  <2>1. Finish(t, 0) /\ Hangup(fd[t]) /\ Pool!ReturnBad(t)
    BY <1>14 DEF IoFails, NotParsed, Burn
  <2>2. PICK f \in Fds : fd[t] = f /\ Others(t) /\ CallOthers(t)
    BY <1>0, <2>1, ReturnStep, LeaveStep, FinishStep
  <2>3. /\ \A g \in Fds \ {f} : request'[g] = request[g] /\ response'[g] = response[g]
        /\ request'[f] = <<>> /\ response'[f] = <<>>
    BY <1>0, <2>1, <2>2 DEF Hangup, TypeWires
  <2>4. InUse(f)'
    BY <2>3 DEF InUse, Clean
  <2>5. QED
    BY <1>3, <2>2, <2>3, <2>4
<1>15. ASSUME NEW t \in Threads, Answered(t) PROVE StreamInv'
  <2>1. PICK f \in Fds : fd[t] = f /\ SizeRead(t, f)
    BY <1>15, BodyRead DEF Answered
  <2>2. Others(t) /\ CallOthers(t) /\ request' = request
    BY <1>0, <1>15, LeaveStep, FinishStep DEF Answered
  <2>3. /\ \A g \in Fds \ {f} : response'[g] = response[g]
        /\ response'[f] = Tail(response[f])
    BY <1>0, <1>15, <2>1 DEF Answered, TypeWires
  <2>4. InUse(f)'
    BY <2>1, <2>2, <2>3 DEF InUse, Clean, SizeRead
  <2>5. QED
    BY <1>3, <2>1, <2>2, <2>3, <2>4
(* A step of the provider or the network on the connection f.              *)
<1>16. ASSUME NEW f \in Fds, UNCHANGED <<poolVars, callVars>>,
              \A g \in Fds \ {f} : request'[g] = request[g] /\ response'[g] = response[g],
              InUse(f)'
       PROVE  StreamInv'
  <2>1. ASSUME NEW g \in Fds, g # f PROVE InUse(g)'
    BY <1>0, <1>16, <2>1, InUseSame DEF poolVars, callVars
  <2>2. QED
    BY <1>16, <2>1 DEF StreamInv
<1>17. ASSUME NEW f \in Fds, NEW n \in 0..Len(request[f]), NEW cut \in BOOLEAN, Serve(f, n, cut)
       PROVE  StreamInv'
  <2>0. request[f] # <<>> /\ request'[f] = <<>> /\ \A g \in Fds \ {f} : request'[g] = request[g]
    BY <1>0, <1>17, TakenWhole DEF Serve
  <2>1. PICK t \in Threads : /\ fd[t] = f /\ pc[t] = "holding" /\ stage[t] \in {"size", "dead"}
                             /\ Requested(t, f)
    BY <2>0, RequestOwner
  <2>2. Head(request[f]).call = id[t] /\ response[f] = <<>>
    BY <2>1 DEF Requested, Part
  <2>3. PICK b \in {"body", "junk"} :
          response' = [response EXCEPT ![f] = @ \o <<Part("size", id[t]), Part(b, id[t])>>]
    BY <1>17, <2>2 DEF Serve
  <2>4. /\ \A g \in Fds \ {f} : response'[g] = response[g]
        /\ response'[f] = <<Part("size", id[t]), Part(b, id[t])>>
    BY <1>0, <2>2, <2>3 DEF TypeWires
  <2>5. UNCHANGED <<poolVars, callVars>>
    BY <1>17 DEF Serve
  <2>6. Replied(t, f)'
    BY <2>0, <2>4, <2>5 DEF Replied, Bodies, callVars
  <2>7. InUse(f)'
    BY <2>1, <2>5, <2>6 DEF InUse, Uses, poolVars, callVars
  <2>8. QED
    BY <1>16, <2>0, <2>4, <2>5, <2>7
<1>18. ASSUME NEW f \in Fds, NEW n \in 0..Len(request[f]), NEW cut \in BOOLEAN, Ignore(f, n, cut)
       PROVE  StreamInv'
  <2>1. /\ request'[f] \in {<<>>, request[f]}
        /\ \A g \in Fds \ {f} : request'[g] = request[g]
    BY <1>0, <1>18, TakenSome DEF Ignore
  <2>2. response' = response /\ UNCHANGED <<poolVars, callVars>>
    BY <1>18 DEF Ignore
  <2>3. CASE request'[f] = request[f]
    <3>1. InUse(f)'
      BY <1>0, <2>2, <2>3, InUseSame DEF poolVars, callVars
    <3>2. QED
      BY <1>16, <2>1, <2>2, <3>1
  <2>4. CASE request'[f] = <<>> /\ request[f] # <<>>
    <3>1. response[f] = <<>>
      BY <2>4, RequestOwner DEF Requested
    <3>2. InUse(f)'
      BY <2>2, <2>4, <3>1 DEF InUse, Clean
    <3>3. QED
      BY <1>16, <2>1, <2>2, <3>2
  <2>5. QED
    BY <2>1, <2>3, <2>4
<1>19. ASSUME NEW F \in SUBSET Fds, Lose(F), UNCHANGED <<poolVars, callVars>>
       PROVE  StreamInv'
  BY <1>0, <1>19, LoseKeeps DEF StreamInv, poolVars, callVars
<1>20. ASSUME NEW f \in Fds, Disconnect(f) PROVE StreamInv'
  BY <1>19, <1>20 DEF Disconnect, Fault
<1>21. ASSUME NEW n, Dies(n), UNCHANGED <<poolVars, callVars>> PROVE StreamInv'
  <2>1. {f \in Fds : peer[f] /\ sock[f] = n} \in SUBSET Fds
    OBVIOUS
  <2>2. QED
    BY <1>19, <1>21, <2>1 DEF Dies
<1>21b. ASSUME NEW n \in Nodes, ProviderDies(n) PROVE StreamInv'
  BY <1>21, <1>21b DEF ProviderDies, Fault
<1>21c. ASSUME NEW f \in Fds, Throws(f) PROVE StreamInv'
  BY <1>21, <1>21c DEF Throws, Fault
<1>22. ASSUME NEW n \in Nodes, ProviderStarts(n) PROVE StreamInv'
  BY <1>1, <1>22 DEF ProviderStarts, poolVars, callVars, wireVars
<1>23. ASSUME NEW m \in Methods, NEW a \in Addresses \union {NoNode}, Reregister(m, a)
       PROVE  StreamInv'
  BY <1>1, <1>23 DEF Reregister, Fault, poolVars, callVars, wireVars
<1>24. CASE Exit \/ Over \/ UNCHANGED vars
  BY <1>1, <1>24 DEF Exit, Over, vars, poolVars, callVars, wireVars, Pool!Destroy
<1>25. QED
  BY <1>4, <1>5, <1>6, <1>7, <1>8, <1>9, <1>10, <1>11, <1>12, <1>13, <1>14, <1>15, <1>17, <1>18,
     <1>20, <1>21b, <1>21c, <1>22, <1>23, <1>24
  DEF Next, Run, Answering

(* At first no frame is cut.                                               *)
LEMMA RestInit == Init => RestCut
  BY DEF Init, RestCut

(* The rest of a frame is where one was cut, and goes with the connection. *)
LEMMA RestNext == Calls /\ RestCut /\ [Next]_vars => RestCut'
<1> SUFFICES ASSUME Calls, RestCut, [Next]_vars PROVE RestCut'
  OBVIOUS
<1>0. TypeWires /\ PoolInv
  BY TypeParts DEF Calls
<1>1. ASSUME UNCHANGED <<rest, cuts>> PROVE RestCut'
  BY <1>1 DEF RestCut
<1>2. ASSUME NEW f \in Fds, NEW n, NEW cut \in BOOLEAN, Take(f, n, cut) PROVE RestCut'
  BY <1>0, <1>2 DEF Take, TypeWires, RestCut
<1>3. ASSUME NEW F, Lose(F) PROVE RestCut'
  BY <1>3 DEF Lose, RestCut
<1>4. ASSUME NEW f \in Fds, Hangup(f) PROVE RestCut'
  BY <1>0, <1>4 DEF Hangup, TypeWires, RestCut
<1>5. ASSUME NEW t \in Threads, IoFails(t) \/ NotParsed(t) PROVE RestCut'
  BY <1>0, <1>4, <1>5, ReturnStep DEF IoFails, NotParsed, Burn
<1>6. ASSUME NEW t \in Threads,
             \/ GetData(t) \/ Store(t) \/ NoAddress(t) \/ Borrow(t) \/ Borrowing(t) \/ Borrowed(t)
             \/ NotBorrowed(t) \/ BorrowMishap(t) \/ Deadline(t) \/ Send(t) \/ RecvSize(t)
             \/ Answered(t)
      PROVE  UNCHANGED <<rest, cuts>>
  BY <1>6 DEF GetData, Store, NoAddress, Borrow, Borrowing, Borrowed, Connect, NotBorrowed,
              BorrowMishap, Deadline, Send, RecvSize, Answered, wireVars
<1>7. ASSUME NEW t \in Threads, NEW m \in Methods, NEW c \in Controllers, CallMethod(t, m, c)
      PROVE  UNCHANGED <<rest, cuts>>
  BY <1>7 DEF CallMethod, wireVars
<1>8. ASSUME NEW f \in Fds, Answering(f) \/ Disconnect(f) PROVE RestCut'
  BY <1>2, <1>3, <1>8 DEF Answering, Serve, Ignore, Throws, Dies, Disconnect
<1>9. ASSUME NEW n \in Nodes, ProviderDies(n) \/ ProviderStarts(n) PROVE RestCut'
  BY <1>1, <1>3, <1>9 DEF ProviderDies, Dies, ProviderStarts, wireVars
<1>10. ASSUME NEW m \in Methods, NEW a \in Addresses \union {NoNode}, Reregister(m, a)
       PROVE  UNCHANGED <<rest, cuts>>
  BY <1>10 DEF Reregister, wireVars
<1>11. CASE Exit \/ Over \/ UNCHANGED vars
  BY <1>1, <1>11 DEF Exit, Over, vars, wireVars
<1>12. QED
  BY <1>1, <1>5, <1>6, <1>7, <1>8, <1>9, <1>10, <1>11 DEF Next, Run

(* What is in the streams of a connection belongs to the call that has the *)
(* connection now, and no bytes of an earlier call are in front of its     *)
(* own, unless a segment has ended inside a frame on the connection.       *)
THEOREM StreamOfHolderHolds == Spec => []StreamOfHolder
<1>1. StreamInv /\ RestCut => StreamOfHolder
  <2> SUFFICES ASSUME StreamInv, RestCut, NEW f \in Fds,
                      NEW p \in ElementsOf(request[f]) \union ElementsOf(response[f])
               PROVE  \E t \in Threads : fd[t] = f /\ id[t] = p.call
    BY DEF StreamOfHolder, RestCut
  <2>1. CASE Clean(f)
    BY <2>1 DEF Clean, ElementsOf
  <2>2. ASSUME NEW t \in Threads, Uses(t, f) PROVE fd[t] = f /\ id[t] = p.call
    BY <2>2 DEF Uses, Requested, Replied, SizeRead, Bodies, Part, ElementsOf
  <2>3. QED
    BY <2>1, <2>2 DEF StreamInv, InUse
<1>2. QED
  BY <1>1, StreamInit, StreamNext, RestInit, RestNext, CallsInit, CallsNext, PTL DEF Spec

(* A request reaches only a node its method was registered on.             *)
THEOREM RightNodeHolds == Spec => []RightNode
<1>1. Calls /\ StreamInv /\ AddressInv => RightNode
  <2> SUFFICES ASSUME Calls, StreamInv, AddressInv, NEW f \in Fds,
                      NEW p \in ElementsOf(request[f])
               PROVE  sock[f] \in listed[p.kind]
    BY DEF RightNode
  <2>1. request[f] # <<>>
    BY DEF ElementsOf
  <2>2. PICK t \in Threads : fd[t] = f /\ pc[t] = "holding" /\ Requested(t, f)
    BY <2>1, RequestOwner
  <2>3. p.kind = path[t]
    BY <2>2 DEF Requested, ElementsOf, Part
  <2>4. path[t] # NoMethod /\ node[t] = data[t]
    BY <2>2 DEF Calls, CallInv, InCall
  <2>5. sock[f] = node[t] /\ node[t] # NoNode
    BY <2>2, PoolFacts, PoolAssumption DEF Calls
  <2>6. QED
    BY <2>3, <2>4, <2>5 DEF AddressInv
<1>2. QED
  BY <1>1, StreamInit, StreamNext, AddressInit, AddressNext, CallsInit, CallsNext, PTL DEF Spec

-----------------------------------------------------------------------------
(* Execution                                                               *)

(* At first nothing has been served.                                       *)
LEMMA ServedInit == Init => ServedInv
  BY BoundAssumption DEF Init, ServedInv, Executed

(* Nothing happened to the call of u but that its streams were emptied.    *)
LEMMA ExecutedKept ==
  ASSUME NEW u \in Threads, Executed(u),
         path'[u] = path[u], id'[u] = id[u], stage'[u] = stage[u],
         served'[id[u]] = served[id[u]],
         pc'[u] = "holding" =>
            /\ pc[u] = "holding" /\ fd'[u] = fd[u]
            /\ request'[fd[u]] \in {<<>>, request[fd[u]]}
            /\ response'[fd[u]] \in {<<>>, response[fd[u]]}
  PROVE  Executed(u)'
  BY DEF Executed

(* A step of t that executes nothing.                                      *)
LEMMA ServedStep ==
  ASSUME Calls, ServedInv, NEW t \in Threads, CallOthers(t), Others(t) \/ UNCHANGED poolVars,
         \A g \in Fds \ {fd[t]} : request'[g] = request[g] /\ response'[g] = response[g],
         served' = served, calls' \in {calls, calls + 1}, Executed(t)'
  PROVE  ServedInv'
<1>1. ASSUME NEW u \in Threads, u # t PROVE Executed(u)'
  <2>1. path'[u] = path[u] /\ id'[u] = id[u] /\ stage'[u] = stage[u]
    BY <1>1 DEF CallOthers
  <2>2. ASSUME pc'[u] = "holding"
        PROVE  /\ pc[u] = "holding" /\ fd'[u] = fd[u]
               /\ request'[fd[u]] \in {<<>>, request[fd[u]]}
               /\ response'[fd[u]] \in {<<>>, response[fd[u]]}
    <3>1. pc[u] = "holding" /\ fd'[u] = fd[u]
      BY <1>1, <2>2 DEF Others, poolVars
    <3>2. fd[u] \in Fds \ {fd[t]}
      BY <1>1, <3>1, PoolFacts DEF Calls
    <3>3. QED
      BY <3>1, <3>2
  <2>3. QED
    BY <2>1, <2>2, ExecutedKept DEF ServedInv
<1>2. \A c \in 1..MaxCalls : c > calls' => served'[c] = 0
  BY BoundAssumption, TypeParts DEF ServedInv, Calls, TypeCalls
<1>3. QED
  BY <1>1, <1>2 DEF ServedInv

(* t goes on without having sent its request.                              *)
LEMMA ExecutedEarly ==
  ASSUME ServedInv, NEW t \in Threads, path[t] # NoMethod,
         stage[t] \notin {"size", "body", "dead"},
         path'[t] = path[t], id'[t] = id[t], served' = served,
         pc'[t] # "holding" \/ stage'[t] = "send"
  PROVE  Executed(t)'
  BY DEF ServedInv, Executed

(* Frames leave the streams, and nothing else happens.                     *)
LEMMA ServedShrinks ==
  ASSUME Calls, ServedInv, UNCHANGED <<poolVars, callVars, served>>,
         \A f \in Fds : /\ request'[f] \in {<<>>, request[f]}
                        /\ response[f] = <<>> => response'[f] = <<>>
  PROVE  ServedInv'
<1>1. ASSUME NEW u \in Threads PROVE Executed(u)'
  <2>1. pc[u] = "holding" => fd[u] \in Fds
    BY PoolFacts DEF Calls
  <2>2. Executed(u)
    BY DEF ServedInv
  <2>3. QED
    BY <2>1, <2>2 DEF Executed, poolVars, callVars
<1>2. QED
  BY <1>1 DEF ServedInv, callVars

(* The request the provider takes is of a call not executed before.        *)
LEMMA ServeStep ==
  ASSUME Calls, StreamInv, ServedInv, NEW f \in Fds, NEW n \in 0..Len(request[f]),
         NEW cut \in BOOLEAN, Serve(f, n, cut)
  PROVE  \E t \in Threads :
            /\ fd[t] = f /\ pc[t] = "holding" /\ stage[t] \in {"size", "dead"}
            /\ path[t] # NoMethod /\ id[t] \in 1..calls /\ id[t] \in 1..MaxCalls
            /\ served[id[t]] = 0
            /\ served' = [served EXCEPT ![id[t]] = 1]
            /\ request'[f] = <<>>
            /\ \A g \in Fds \ {f} : request'[g] = request[g] /\ response'[g] = response[g]
<1>0. /\ request[f] # <<>> /\ request'[f] = <<>>
      /\ \A g \in Fds \ {f} : request'[g] = request[g]
  BY TypeParts, TakenWhole DEF Calls, Serve
<1>1. PICK t \in Threads : /\ fd[t] = f /\ pc[t] = "holding" /\ stage[t] \in {"size", "dead"}
                           /\ Requested(t, f)
  BY <1>0, RequestOwner
<1>2. path[t] # NoMethod /\ id[t] \in 1..calls
  BY <1>1 DEF Calls, CallInv, InCall
<1>3. TypeCalls /\ TypeWires /\ TypeRest
  BY TypeParts DEF Calls
<1>4. id[t] \in 1..MaxCalls
  BY <1>2, <1>3, BoundAssumption DEF TypeCalls
<1>5. request[f] # <<>> /\ Head(request[f]).call = id[t]
  BY <1>1 DEF Requested, Part
<1>6. served[id[t]] = 0
  BY <1>1, <1>2, <1>5 DEF ServedInv, Executed
<1>7. served' = [served EXCEPT ![id[t]] = 1]
  <2>1. served' = [served EXCEPT ![id[t]] = @ + 1]
    BY <1>5 DEF Serve
  <2>2. served[id[t]] + 1 = 1
    BY <1>6
  <2>3. QED
    BY <2>1, <2>2
<1>8. /\ request'[f] = <<>>
      /\ \A g \in Fds \ {f} : request'[g] = request[g] /\ response'[g] = response[g]
  BY <1>0, <1>3 DEF Serve, TypeWires
<1>9. QED
  BY <1>1, <1>2, <1>4, <1>6, <1>7, <1>8

(* Every step keeps the responses to what has been served.                 *)
LEMMA ServedNext == Calls /\ StreamInv /\ ServedInv /\ [Next]_vars => ServedInv'
<1> SUFFICES ASSUME Calls, StreamInv, ServedInv, [Next]_vars PROVE ServedInv'
  OBVIOUS
<1>0. /\ TypeCalls /\ TypeWires /\ TypeRest /\ PoolInv /\ CallInv
      /\ \A t \in Threads : Paired(t) /\ InCall(t)
  BY TypeParts DEF Calls, CallInv
<1>1. ASSUME NEW t \in Threads, NEW r, Finish(t, r), Others(t) \/ UNCHANGED poolVars,
             \A g \in Fds \ {fd[t]} : request'[g] = request[g] /\ response'[g] = response[g],
             served' = served
      PROVE  ServedInv'
  <2>1. CallOthers(t) /\ path'[t] = NoMethod /\ calls' = calls
    BY <1>0, <1>1, FinishStep
  <2>2. Executed(t)'
    BY <2>1 DEF Executed
  <2>3. QED
    BY <1>1, <2>1, <2>2, ServedStep
<1>2. ASSUME NEW t \in Threads, NEW m \in Methods, NEW c \in Controllers, CallMethod(t, m, c)
      PROVE  ServedInv'
  <2>1. /\ CallOthers(t) /\ stage'[t] \in {"zk", "address"} /\ id'[t] = calls + 1
        /\ calls + 1 \in 1..MaxCalls /\ calls' = calls + 1 /\ stage[t] = "none"
        /\ UNCHANGED <<poolVars, request, response, served>>
    BY <1>0, <1>2, CallMethodStep, BoundAssumption DEF wireVars, history, TypeCalls
  <2>2. served[calls + 1] = 0
    BY <1>0, <2>1 DEF ServedInv, TypeCalls
  <2>3. pc'[t] # "holding"
    BY <1>0, <2>1 DEF Paired, poolVars
  <2>4. Executed(t)'
    BY <2>1, <2>2, <2>3 DEF Executed
  <2>5. QED
    BY <2>1, <2>4, ServedStep
<1>3. ASSUME NEW t \in Threads, CallOthers(t), Others(t) \/ UNCHANGED poolVars,
             UNCHANGED <<path, id, calls, request, response, served>>,
             stage[t] \in {"zk", "store", "address", "borrow"},
             pc'[t] # "holding" \/ stage'[t] = "send"
      PROVE  ServedInv'
  <2>1. path[t] # NoMethod
    BY <1>0, <1>3 DEF InCall
  <2>2. Executed(t)'
    BY <1>3, <2>1, ExecutedEarly
  <2>3. QED
    BY <1>3, <2>2, ServedStep
<1>4. ASSUME NEW t \in Threads, GetData(t) PROVE ServedInv'
  <2>1. pc'[t] = pc[t] /\ stage[t] = "zk" /\ UNCHANGED <<poolVars, request, response, served>>
    BY <1>4 DEF GetData, wireVars, poolVars
  <2>2. pc'[t] # "holding"
    BY <1>0, <2>1 DEF Paired
  <2>3. CallOthers(t) /\ UNCHANGED <<path, id, calls>>
    BY <1>0, <1>4, GetDataStep
  <2>4. QED
    BY <1>3, <2>1, <2>2, <2>3
<1>5. ASSUME NEW t \in Threads, Store(t) PROVE ServedInv'
  <2>1. /\ pc'[t] = pc[t] /\ stage[t] = "store" /\ Advance(t, "address")
        /\ UNCHANGED <<poolVars, request, response, served>>
    BY <1>5 DEF Store, wireVars, poolVars, history
  <2>2. pc'[t] # "holding"
    BY <1>0, <2>1 DEF Paired
  <2>3. QED
    BY <1>0, <1>3, <2>1, <2>2, AdvanceStep
<1>6. ASSUME NEW t \in Threads, NoAddress(t) PROVE ServedInv'
  <2>1. UNCHANGED <<poolVars, request, response, served>>
    BY <1>6 DEF NoAddress, wireVars, history
  <2>2. CASE Finish(t, 0)
    BY <1>1, <2>1, <2>2
  <2>3. CASE stage' = [u \in Threads |-> "dead"] /\ UNCHANGED <<path, id, calls>>
    <3>1. ASSUME NEW u \in Threads PROVE Executed(u)'
      <4>1. CASE stage[u] = "send"
        BY <2>1, <2>3, <4>1, SendClean DEF Executed, Clean, poolVars
      <4>2. CASE stage[u] # "send"
        <5>1. Executed(u)
          BY DEF ServedInv
        <5>2. QED
          BY <2>1, <2>3, <4>2, <5>1 DEF Executed, poolVars
      <4>3. QED
        BY <4>1, <4>2
    <3>2. QED
      BY <2>1, <2>3, <3>1 DEF ServedInv
  <2>4. QED
    BY <1>6, <2>2, <2>3 DEF NoAddress
<1>7. ASSUME NEW t \in Threads, Borrow(t) PROVE ServedInv'
  <2>1. /\ stage[t] = "address" /\ Advance(t, "borrow") /\ UNCHANGED <<request, response, served>>
    BY <1>7 DEF Borrow, wireVars, history
  <2>2. Others(t) /\ pc'[t] # "holding"
    BY <1>0, <1>7, AskStep DEF Borrow
  <2>3. QED
    BY <1>0, <1>3, <2>1, <2>2, AdvanceStep
<1>8. ASSUME NEW t \in Threads, Borrowing(t) \/ BorrowMishap(t) \/ Deadline(t)
      PROVE  ServedInv'
  <2>1. /\ stage[t] = "borrow" /\ CallOthers(t)
        /\ UNCHANGED <<path, id, calls, request, response, served>>
    BY <1>8 DEF Borrowing, BorrowMishap, Deadline, callVars, wireVars, history, CallOthers
  <2>2. Others(t) /\ pc'[t] # "holding"
    BY <1>0, <1>8, BorrowingStep DEF Borrowing, BorrowMishap, Deadline
  <2>3. QED
    BY <1>3, <2>1, <2>2
<1>9. ASSUME NEW t \in Threads, Borrowed(t) PROVE ServedInv'
  <2>1. stage[t] = "borrow" /\ Advance(t, "send") /\ UNCHANGED <<request, response, served>>
    BY <1>9 DEF Borrowed, Connect, wireVars, history
  <2>2. Others(t)
    BY <1>0, <1>9, LendStep DEF Borrowed, Connect
  <2>3. QED
    BY <1>0, <1>3, <2>1, <2>2, AdvanceStep
<1>10. ASSUME NEW t \in Threads, NotBorrowed(t) PROVE ServedInv'
  <2>1. Finish(t, 0) /\ UNCHANGED <<request, response, served>>
    BY <1>10 DEF NotBorrowed, wireVars, history
  <2>2. Others(t)
    BY <1>0, <1>10, LeaveStep DEF NotBorrowed
  <2>3. QED
    BY <1>1, <2>1, <2>2
<1>11. ASSUME NEW t \in Threads, IoFails(t) \/ NotParsed(t) PROVE ServedInv'
  <2>1. Finish(t, 0) /\ Hangup(fd[t]) /\ Pool!ReturnBad(t) /\ served' = served
    BY <1>11 DEF IoFails, NotParsed, Burn, history
  <2>2. Others(t)
    BY <1>0, <2>1, LeaveStep
  <2>3. \A g \in Fds \ {fd[t]} : request'[g] = request[g] /\ response'[g] = response[g]
    BY <1>0, <2>1 DEF Hangup, TypeWires
  <2>4. QED
    BY <1>1, <2>1, <2>2, <2>3
<1>12. ASSUME NEW t \in Threads, Answered(t) PROVE ServedInv'
  <2>1. PICK r : Finish(t, r)
    BY <1>12 DEF Answered
  <2>2. Others(t) /\ served' = served
    BY <1>0, <1>12, LeaveStep DEF Answered, history
  <2>3. \A g \in Fds \ {fd[t]} : request'[g] = request[g] /\ response'[g] = response[g]
    BY <1>0, <1>12 DEF Answered, TypeWires
  <2>4. QED
    BY <1>1, <2>1, <2>2, <2>3
<1>13. ASSUME NEW t \in Threads, Send(t) PROVE ServedInv'
  <2>1. stage[t] = "send" /\ fd[t] \in Fds /\ Clean(fd[t])
    BY <1>13, SendClean DEF Send
  <2>2. /\ CallOthers(t) /\ stage'[t] = "size" /\ UNCHANGED <<path, id, calls, served, response>>
        /\ UNCHANGED poolVars
    BY <1>0, <1>13, AdvanceStep DEF Send, history
  <2>3. \A g \in Fds \ {fd[t]} : request'[g] = request[g] /\ response'[g] = response[g]
    BY <1>0, <1>13 DEF Send, TypeWires
  <2>4. path[t] # NoMethod => served[id[t]] = 0
    BY <2>1 DEF ServedInv, Executed
  <2>5. Executed(t)'
    BY <2>1, <2>2, <2>4 DEF Executed, Clean, poolVars
  <2>6. QED
    BY <2>2, <2>3, <2>5, ServedStep
<1>14. ASSUME NEW t \in Threads, RecvSize(t) PROVE ServedInv'
  <2>1. /\ stage[t] = "size" /\ response[fd[t]] # <<>>
        /\ fd[t] \in Fds /\ pc[t] = "holding" /\ Replied(t, fd[t])
    BY <1>14, SizeReplied DEF RecvSize
  <2>2. /\ CallOthers(t) /\ stage'[t] = "body" /\ UNCHANGED <<path, id, calls, served, request>>
        /\ UNCHANGED poolVars
    BY <1>0, <1>14, AdvanceStep DEF RecvSize, history
  <2>3. \A g \in Fds \ {fd[t]} : request'[g] = request[g] /\ response'[g] = response[g]
    BY <1>0, <1>14 DEF RecvSize, TypeWires
  <2>4. path[t] # NoMethod => served[id[t]] = 1
    BY <2>1 DEF ServedInv, Executed
  <2>5. Executed(t)'
    BY <2>1, <2>2, <2>4 DEF Executed, Replied, poolVars
  <2>6. QED
    BY <2>2, <2>3, <2>5, ServedStep
<1>15. ASSUME NEW f \in Fds, NEW n \in 0..Len(request[f]), NEW cut \in BOOLEAN, Serve(f, n, cut)
       PROVE  ServedInv'
  <2>1. PICK t \in Threads :
            /\ fd[t] = f /\ pc[t] = "holding" /\ stage[t] \in {"size", "dead"}
            /\ path[t] # NoMethod /\ id[t] \in 1..calls /\ id[t] \in 1..MaxCalls
            /\ served[id[t]] = 0
            /\ served' = [served EXCEPT ![id[t]] = 1]
            /\ request'[f] = <<>>
            /\ \A g \in Fds \ {f} : request'[g] = request[g] /\ response'[g] = response[g]
    BY <1>15, ServeStep
  <2>2. UNCHANGED <<stage, path, id, calls, pc, fd>>
    BY <1>15 DEF Serve, poolVars, callVars
  <2>3. served'[id[t]] = 1 /\ \A c \in 1..MaxCalls : c # id[t] => served'[c] = served[c]
    BY <1>0, <2>1 DEF TypeRest
  <2>4. Executed(t)'
    BY <2>1, <2>2, <2>3 DEF Executed
  <2>5. ASSUME NEW u \in Threads, u # t PROVE Executed(u)'
    <3>1. CASE path[u] = NoMethod
      BY <2>2, <3>1 DEF Executed
    <3>2. CASE path[u] # NoMethod
      <4>1. id[u] # id[t] /\ id[u] \in 1..MaxCalls
        BY <1>0, <2>1, <2>5, <3>2, BoundAssumption DEF Calls, OwnNumbers, InCall, TypeCalls
      <4>2. pc[u] = "holding" => fd[u] \in Fds \ {f}
        BY <1>0, <2>1, <2>5, PoolFacts
      <4>3. QED
        BY <2>1, <2>2, <2>3, <4>1, <4>2, ExecutedKept DEF ServedInv
    <3>3. QED
      BY <3>1, <3>2
  <2>6. \A c \in 1..MaxCalls : c > calls' => served'[c] = 0
    BY <1>0, <2>1, <2>2, <2>3 DEF ServedInv, TypeCalls
  <2>7. QED
    BY <2>4, <2>5, <2>6 DEF ServedInv
<1>16. ASSUME NEW f \in Fds, NEW n \in 0..Len(request[f]), NEW cut \in BOOLEAN, Ignore(f, n, cut)
       PROVE  ServedInv'
  <2>1. /\ request'[f] \in {<<>>, request[f]}
        /\ \A g \in Fds \ {f} : request'[g] = request[g]
    BY <1>0, <1>16, TakenSome DEF Ignore
  <2>2. response' = response /\ UNCHANGED <<poolVars, callVars, served>>
    BY <1>16 DEF Ignore, history
  <2>3. QED
    BY <2>1, <2>2, ServedShrinks
<1>17. ASSUME NEW F \in SUBSET Fds, Lose(F), UNCHANGED <<poolVars, callVars, served>>
       PROVE  ServedInv'
  <2>1. PICK keep \in [F -> 0..2] :
          response' = [g \in Fds |-> IF g \in F /\ keep[g] < Len(response[g])
                                     THEN SubSeq(response[g], 1, keep[g])
                                     ELSE response[g]]
    BY <1>17 DEF Lose
  <2>2. ASSUME NEW f \in Fds, response[f] = <<>> PROVE response'[f] = <<>>
    BY <2>1, <2>2
  <2>3. \A f \in Fds : request'[f] \in {<<>>, request[f]}
    BY <1>17 DEF Lose
  <2>4. QED
    BY <1>17, <2>2, <2>3, ServedShrinks
<1>18. ASSUME NEW f \in Fds, Disconnect(f) PROVE ServedInv'
  BY <1>17, <1>18 DEF Disconnect, Fault, history
<1>19. ASSUME NEW n, Dies(n), UNCHANGED <<poolVars, callVars, history>> PROVE ServedInv'
  <2>1. {f \in Fds : peer[f] /\ sock[f] = n} \in SUBSET Fds
    OBVIOUS
  <2>2. QED
    BY <1>17, <1>19, <2>1 DEF Dies, history
<1>19b. ASSUME NEW n \in Nodes, ProviderDies(n) PROVE ServedInv'
  BY <1>19, <1>19b DEF ProviderDies, Fault
<1>19c. ASSUME NEW f \in Fds, Throws(f) PROVE ServedInv'
  BY <1>19, <1>19c DEF Throws, Fault
<1>20. ASSUME UNCHANGED <<stage, path, id, calls, pc, fd, request, response, served>>
       PROVE  ServedInv'
  BY <1>20 DEF ServedInv, Executed
<1>21. ASSUME NEW n \in Nodes, ProviderStarts(n) PROVE ServedInv'
  BY <1>20, <1>21 DEF ProviderStarts, poolVars, callVars, wireVars, history
<1>22. ASSUME NEW m \in Methods, NEW a \in Addresses \union {NoNode}, Reregister(m, a)
       PROVE  ServedInv'
  BY <1>20, <1>22 DEF Reregister, Fault, poolVars, callVars, wireVars, history
<1>23. CASE Exit \/ Over \/ UNCHANGED vars
  BY <1>20, <1>23 DEF Exit, Over, vars, poolVars, callVars, wireVars, history, Pool!Destroy
<1>24. QED
  BY <1>2, <1>4, <1>5, <1>6, <1>7, <1>8, <1>9, <1>10, <1>11, <1>12, <1>13, <1>14, <1>15, <1>16,
     <1>18, <1>19b, <1>19c, <1>21, <1>22, <1>23
  DEF Next, Run, Answering

-----------------------------------------------------------------------------
(* The calls are remote calls, step by step                                *)

(* The call t waits for, as the remote call sees it.                       *)
Current == [t \in Threads |-> IF path[t] = NoMethod THEN 0 ELSE id[t]]

(* A step that changes none of its variables is no step of RemoteCall.     *)
LEMMA RemoteStutter ==
  ASSUME UNCHANGED <<path, id, answer, calls, served>>
  PROVE  UNCHANGED Remote!vars
  BY DEF Remote!vars

(* A call that begins is invoked.                                          *)
LEMMA RemoteInvoke ==
  ASSUME Calls, NEW t \in Threads, NEW m \in Methods, NEW c \in Controllers, CallMethod(t, m, c)
  PROVE  Remote!Invoke(t)
<1>1. TypeCalls
  BY TypeParts DEF Calls
<1>2. /\ stage[t] = "none" /\ calls < MaxCalls /\ calls' = calls + 1
      /\ id' = [id EXCEPT ![t] = calls + 1] /\ path' = [path EXCEPT ![t] = m]
      /\ answer' = [answer EXCEPT ![t] = 0] /\ served' = served
  BY DEF CallMethod, history
<1>3. path[t] = NoMethod /\ m # NoMethod
  BY <1>2, AddressAssumption DEF Calls, CallInv, InCall
<1>4. Current' = [Current EXCEPT ![t] = calls + 1]
  BY <1>1, <1>2, <1>3 DEF Current, TypeCalls
<1>5. Current[t] = 0
  BY <1>3 DEF Current
<1>6. QED
  BY <1>2, <1>4, <1>5 DEF Remote!Invoke, Current

(* CallMethod returns.                                                     *)
LEMMA CurrentEnds ==
  ASSUME Calls, NEW t \in Threads, NEW r, Finish(t, r), path[t] # NoMethod
  PROVE  /\ Current[t] = id[t] /\ id[t] # 0
         /\ Current' = [Current EXCEPT ![t] = 0]
         /\ answer' = [answer EXCEPT ![t] = r]
         /\ answer[t] = 0 /\ calls' = calls
<1>1. TypeCalls
  BY TypeParts DEF Calls
<1>2. /\ path' = [path EXCEPT ![t] = NoMethod] /\ id' = id /\ calls' = calls
      /\ answer' = [answer EXCEPT ![t] = r]
  BY DEF Finish
<1>3. id[t] \in 1..calls /\ answer[t] = 0
  BY DEF Calls, CallInv, InCall
<1>4. Current' = [Current EXCEPT ![t] = 0]
  BY <1>1, <1>2 DEF Current, TypeCalls
<1>5. QED
  BY <1>1, <1>2, <1>3, <1>4, BoundAssumption DEF Current, TypeCalls

(* A call that returns early fails.                                        *)
LEMMA RemoteFail ==
  ASSUME Calls, NEW t \in Threads, Finish(t, 0), stage[t] # "none", stage[t] # "dead",
         served' = served
  PROVE  Remote!Fail(t)
<1>1. path[t] # NoMethod
  BY DEF Calls, CallInv, InCall
<1>2. /\ Current[t] # 0 /\ Current' = [Current EXCEPT ![t] = 0]
      /\ answer' = [answer EXCEPT ![t] = 0] /\ answer[t] = 0 /\ calls' = calls
  BY <1>1, CurrentEnds
<1>3. answer' = answer
  BY <1>2, TypeParts DEF Calls, TypeCalls
<1>4. QED
  BY <1>2, <1>3 DEF Remote!Fail, Current

(* A call that has its answer returns it.                                  *)
LEMMA RemoteReturn ==
  ASSUME Calls, StreamInv, ServedInv, NEW t \in Threads, Answered(t)
  PROVE  Remote!Return(t)
<1>1. /\ stage[t] = "body" /\ response[fd[t]] # <<>> /\ served' = served
      /\ Finish(t, Head(response[fd[t]]).call)
  BY DEF Answered, history
<1>2. pc[t] = "holding" /\ SizeRead(t, fd[t])
  BY <1>1, BodyRead
<1>3. Head(response[fd[t]]).call = id[t]
  BY <1>2 DEF SizeRead, Bodies, Part
<1>4. path[t] # NoMethod
  BY <1>1 DEF Calls, CallInv, InCall
<1>5. served[id[t]] = 1
  BY <1>1, <1>2, <1>4 DEF ServedInv, Executed
<1>6. /\ Current[t] = id[t] /\ id[t] # 0 /\ Current' = [Current EXCEPT ![t] = 0]
      /\ answer' = [answer EXCEPT ![t] = id[t]] /\ calls' = calls
  BY <1>1, <1>3, <1>4, CurrentEnds
<1>7. QED
  BY <1>1, <1>5, <1>6 DEF Remote!Return, Current

(* A request that is served is executed, once.                             *)
LEMMA RemoteExecute ==
  ASSUME Calls, StreamInv, ServedInv, NEW f \in Fds, NEW n \in 0..Len(request[f]),
         NEW cut \in BOOLEAN, Serve(f, n, cut)
  PROVE  \E c \in 1..MaxCalls : Remote!Execute(c)
<1>1. PICK t \in Threads :
            /\ path[t] # NoMethod /\ id[t] \in 1..MaxCalls
            /\ served[id[t]] = 0 /\ served' = [served EXCEPT ![id[t]] = 1]
  BY ServeStep
<1>2. UNCHANGED <<path, id, calls, answer>>
  BY DEF Serve, callVars
<1>3. Current[t] = id[t]
  BY <1>1 DEF Current
<1>4. QED
  BY <1>1, <1>2, <1>3 DEF Remote!Execute, Current

(* Calls begin as RemoteCall does.                                         *)
LEMMA RemoteInit == Init => Remote!Init
  BY DEF Init, Remote!Init

(* Every step of a call is a step of RemoteCall or none.                   *)
LEMMA RemoteNext ==
  Calls /\ StreamInv /\ ServedInv /\ [Next]_vars => [Remote!Next]_(Remote!vars)
<1> SUFFICES ASSUME Calls, StreamInv, ServedInv, [Next]_vars
             PROVE  Remote!Next \/ UNCHANGED Remote!vars
  OBVIOUS
<1>1. ASSUME NEW t \in Threads, NEW m \in Methods, NEW c \in Controllers, CallMethod(t, m, c)
      PROVE  Remote!Next
  BY <1>1, RemoteInvoke DEF Remote!Next
<1>2. ASSUME NEW t \in Threads,
             NotBorrowed(t) \/ IoFails(t) \/ NotParsed(t) \/ (NoAddress(t) /\ ctl[t])
      PROVE  Remote!Next
  BY <1>2, RemoteFail DEF NotBorrowed, IoFails, NotParsed, NoAddress, history, Remote!Next
<1>3. ASSUME NEW t \in Threads, Answered(t) PROVE Remote!Next
  BY <1>3, RemoteReturn DEF Remote!Next
<1>4. ASSUME NEW f \in Fds, NEW n \in 0..Len(request[f]), NEW cut \in BOOLEAN, Serve(f, n, cut)
      PROVE  Remote!Next
  BY <1>4, RemoteExecute DEF Remote!Next
<1>5. ASSUME NEW t \in Threads,
             \/ GetData(t) \/ Store(t) \/ (NoAddress(t) /\ ~ctl[t]) \/ Borrow(t)
             \/ Borrowing(t) \/ Borrowed(t) \/ Send(t) \/ RecvSize(t) \/ BorrowMishap(t)
             \/ Deadline(t)
      PROVE  UNCHANGED Remote!vars
  BY <1>5, RemoteStutter
  DEF GetData, Store, NoAddress, Borrow, Borrowing, Borrowed, Send, RecvSize, BorrowMishap,
      Deadline, Advance, callVars, history
<1>6. ASSUME NEW f \in Fds,
             \/ \E n \in 0..Len(request[f]), cut \in BOOLEAN : Ignore(f, n, cut)
             \/ Throws(f) \/ Disconnect(f)
      PROVE  UNCHANGED Remote!vars
  BY <1>6, RemoteStutter DEF Ignore, Throws, Disconnect, Fault, callVars, history
<1>7. ASSUME NEW n \in Nodes, ProviderDies(n) \/ ProviderStarts(n)
      PROVE  UNCHANGED Remote!vars
  BY <1>7, RemoteStutter DEF ProviderDies, ProviderStarts, Fault, callVars, history
<1>8. ASSUME NEW m \in Methods, NEW a \in Addresses \union {NoNode}, Reregister(m, a)
      PROVE  UNCHANGED Remote!vars
  BY <1>8, RemoteStutter DEF Reregister, Fault, callVars, history
<1>9. CASE Exit \/ Over \/ UNCHANGED vars
  BY <1>9, RemoteStutter DEF Exit, Over, vars, callVars, history
<1>10. QED
  BY <1>1, <1>2, <1>3, <1>4, <1>5, <1>6, <1>7, <1>8, <1>9 DEF Next, Run, Answering

(* The calls implement remote calls: none is executed twice, and none      *)
(* returns a result without having been executed.                          *)
THEOREM RemoteImplemented == Spec => RemoteSpec
  BY CallsInit, CallsNext, StreamInit, StreamNext, ServedInit, ServedNext, RemoteInit,
     RemoteNext, PTL
  DEF Spec, RemoteSpec, Remote!Spec

-----------------------------------------------------------------------------
(* Lost connections                                                        *)

(* The dead connections that are open can be counted.                      *)
LEMMA DeadFinite == IsFiniteSet(Dead) /\ Cardinality(Dead) \in Nat
<1>1. Dead \in SUBSET Fds
  BY DEF Dead
<1>2. QED
  BY <1>1, PoolAssumption, FS_Subset, FS_CardinalityType

(* At first no connection is dead.                                         *)
LEMMA StaleInit == Init => StaleCostsOne
<1> SUFFICES ASSUME Init PROVE StaleCostsOne
  OBVIOUS
<1>1. Dead = {}
  BY DEF Init, Pool!Init, Dead
<1>2. QED
  BY <1>1, FS_EmptySet DEF Init, StaleCostsOne

(* No connection is lost, and no call fails.                               *)
LEMMA StaleStep ==
  ASSUME TypeRest, StaleCostsOne, lost' = lost, ioFailed' = ioFailed,
         \A f \in Fds : f \in Dead' => f \in Dead
  PROVE  StaleCostsOne'
<1>1. Dead' \in SUBSET Dead
  BY DEF Dead
<1>2. Cardinality(Dead') \in Nat /\ Cardinality(Dead') <= Cardinality(Dead)
  BY <1>1, DeadFinite, FS_Subset, FS_CardinalityType
<1>3. Cardinality(Dead) \in Nat /\ ioFailed \in Nat /\ lost \in Nat
  BY DeadFinite DEF TypeRest
<1>4. QED
  BY <1>2, <1>3 DEF StaleCostsOne

(* A step of t in the pool leaves the other connections as they are.       *)
LEMMA DeadBefore ==
  ASSUME PoolInv, NEW t \in Threads, Others(t), pc[t] # "connecting" \/ pc'[t] = "connecting",
         fd'[t] = fd[t] \/ pc[t] # "connecting",
         NEW f \in Fds, f \in Dead', peer'[f] = peer[f], sock'[f] = sock[f]
  PROVE  f \in Dead
<1>1. sock[f] # NoNode /\ ~peer[f]
  BY DEF Dead
<1>2. ASSUME NEW u \in Threads, fd[u] = f, pc[u] = "connecting" PROVE FALSE
  <2>1. fd'[u] = f /\ pc'[u] = "connecting"
    BY <1>2 DEF Others
  <2>2. QED
    BY <2>1 DEF Dead
<1>3. QED
  BY <1>1, <1>2 DEF Dead

(* The call that meets a lost connection takes it out of use.              *)
LEMMA StaleBurnt ==
  ASSUME Calls, StaleCostsOne, NEW t \in Threads, IoFails(t)
  PROVE  StaleCostsOne'
<1>0. TypeCalls /\ TypeWires /\ TypeRest /\ PoolInv
  BY TypeParts DEF Calls
<1>1. /\ Pool!ReturnBad(t) /\ ~peer[fd[t]] /\ peer' = [peer EXCEPT ![fd[t]] = FALSE]
      /\ ioFailed' = ioFailed + 1 /\ lost' = lost
  BY DEF IoFails, Burn, Hangup, envVars
<1>2. PICK f \in Fds : f = fd[t]
  BY <1>0, <1>1, ReturnStep
<1>3. /\ pc[t] = "holding" /\ sock' = [sock EXCEPT ![f] = NoNode]
      /\ Others(t)
  BY <1>0, <1>1, <1>2, ReturnStep, LeaveStep
<1>4. f \in Dead
  BY <1>0, <1>1, <1>2, <1>3, PoolFacts, PoolAssumption DEF Dead
<1>5. ASSUME NEW g \in Fds, g \in Dead' PROVE g \in Dead \ {f}
  <2>1. g # f
    BY <1>0, <1>3, <1>5, PoolFacts DEF Dead
  <2>2. peer'[g] = peer[g] /\ sock'[g] = sock[g]
    BY <1>0, <1>1, <1>2, <1>3, <2>1, PoolFacts DEF TypeWires
  <2>3. QED
    BY <1>0, <1>3, <1>5, <2>1, <2>2, DeadBefore
<1>6. Dead' \in SUBSET (Dead \ {f})
  BY <1>5 DEF Dead
<1>7. /\ IsFiniteSet(Dead \ {f}) /\ Cardinality(Dead \ {f}) = Cardinality(Dead) - 1
  BY <1>4, DeadFinite, FS_RemoveElement
<1>8. Cardinality(Dead') \in Nat /\ Cardinality(Dead') <= Cardinality(Dead) - 1
  BY <1>6, <1>7, FS_Subset, FS_CardinalityType
<1>9. Cardinality(Dead) \in Nat /\ ioFailed \in Nat /\ lost \in Nat
  BY <1>0, DeadFinite DEF TypeRest
<1>10. QED
  BY <1>1, <1>8, <1>9 DEF StaleCostsOne

(* As many connections go dead as are counted lost.                        *)
LEMMA StaleLost ==
  ASSUME TypeWires, TypeRest, StaleCostsOne, NEW F \in SUBSET Fds, Lose(F),
         UNCHANGED <<sock, pc, fd, ioFailed>>
  PROVE  StaleCostsOne'
<1>1. ASSUME NEW f \in Fds, f \in Dead' PROVE f \in Dead \union F
  BY <1>1 DEF Dead, Lose
<1>2. Dead' \in SUBSET (Dead \union F)
  BY <1>1 DEF Dead
<1>3. IsFiniteSet(F) /\ Cardinality(F) \in Nat
  BY PoolAssumption, FS_Subset, FS_CardinalityType
<1>4. /\ IsFiniteSet(Dead \union F) /\ Cardinality(Dead \union F) \in Nat
      /\ Cardinality(Dead \union F) <= Cardinality(Dead) + Cardinality(F)
  <2>1. IsFiniteSet(Dead \union F) /\ IsFiniteSet(Dead \intersect F)
    BY <1>3, DeadFinite, FS_Union, FS_Intersection
  <2>2. Cardinality(Dead \union F) \in Nat /\ Cardinality(Dead \intersect F) \in Nat
    BY <2>1, FS_CardinalityType
  <2>3. Cardinality(Dead \union F)
          = Cardinality(Dead) + Cardinality(F) - Cardinality(Dead \intersect F)
    BY <1>3, DeadFinite, FS_Union
  <2>4. QED
    BY <1>3, <2>1, <2>2, <2>3, DeadFinite
<1>5. Cardinality(Dead') \in Nat /\ Cardinality(Dead') <= Cardinality(Dead \union F)
  BY <1>2, <1>4, FS_Subset, FS_CardinalityType
<1>6. lost' = lost + Cardinality(F) /\ ioFailed' = ioFailed
  BY DEF Lose
<1>7. Cardinality(Dead) \in Nat /\ ioFailed \in Nat /\ lost \in Nat
  BY DeadFinite DEF TypeRest
<1>8. QED
  BY <1>3, <1>4, <1>5, <1>6, <1>7 DEF StaleCostsOne

(* No dead connection fails a second call.                                 *)
LEMMA StaleNext == Calls /\ StaleCostsOne /\ [Next]_vars => StaleCostsOne'
<1> SUFFICES ASSUME Calls, StaleCostsOne, [Next]_vars PROVE StaleCostsOne'
  OBVIOUS
<1>0. TypeCalls /\ TypeWires /\ TypeRest /\ PoolInv
  BY TypeParts DEF Calls
<1> USE PoolAssumption
<1>1. ASSUME UNCHANGED <<sock, peer, pc, fd, lost, ioFailed>> PROVE StaleCostsOne'
  BY <1>0, <1>1, StaleStep DEF Dead
<1>2. ASSUME NEW t \in Threads, NEW m \in Methods, NEW c \in Controllers, CallMethod(t, m, c)
      PROVE  StaleCostsOne'
  BY <1>1, <1>2 DEF CallMethod, poolVars, wireVars, envVars, history
<1>3. ASSUME NEW t \in Threads, \/ GetData(t) \/ Store(t) \/ NoAddress(t) \/ Send(t) \/ RecvSize(t)
      PROVE  StaleCostsOne'
  BY <1>1, <1>3 DEF GetData, Store, NoAddress, Send, RecvSize, poolVars, wireVars, envVars, history
(* A step of t in the pool that opens, closes and connects nothing.        *)
<1>4. ASSUME NEW t \in Threads, Others(t), pc[t] # "connecting",
             UNCHANGED <<sock, peer, lost, ioFailed>>
      PROVE  StaleCostsOne'
  BY <1>0, <1>4, DeadBefore, StaleStep
<1>5. ASSUME NEW t \in Threads, Borrow(t) PROVE StaleCostsOne'
  <2>1. Others(t) /\ sock' = sock /\ pc[t] = "idle"
    BY <1>0, <1>5, AskStep DEF Borrow
  <2>2. UNCHANGED <<peer, lost, ioFailed>>
    BY <1>5 DEF Borrow, wireVars, envVars, history
  <2>3. QED
    BY <1>4, <2>1, <2>2
<1>6. ASSUME NEW t \in Threads, Borrowing(t) \/ BorrowMishap(t) \/ Deadline(t)
      PROVE  StaleCostsOne'
  <2>1. Others(t)
    BY <1>0, <1>6, BorrowingStep DEF Borrowing, BorrowMishap, Deadline
  <2>2. UNCHANGED <<peer, lost, ioFailed>>
    BY <1>6 DEF Borrowing, BorrowMishap, Deadline, wireVars, envVars, history
  <2>3. CASE Pool!Socket(t)
    <3>1. PICK f \in Fds : /\ sock' = [sock EXCEPT ![f] = node[t]] /\ fd'[t] = f
                           /\ pc'[t] = "connecting" /\ pc[t] = "reserved"
      BY <1>0, <2>3, PoolFacts DEF Pool!Socket
    <3>2. ASSUME NEW g \in Fds, g \in Dead' PROVE g \in Dead
      <4>1. g # f
        BY <3>1, <3>2 DEF Dead
      <4>2. sock'[g] = sock[g]
        BY <1>0, <3>1, <4>1, PoolFacts
      <4>3. QED
        BY <1>0, <2>1, <2>2, <3>1, <3>2, <4>2, DeadBefore
    <3>3. QED
      BY <1>0, <2>2, <3>2, StaleStep
  <2>4. CASE Pool!ConnectFails(t)
    <3>1. PICK f \in Fds : f = fd[t] /\ sock' = [sock EXCEPT ![f] = NoNode]
      BY <1>0, <2>4, PoolFacts DEF Pool!ConnectFails, Pool!CloseFd
    <3>2. ASSUME NEW g \in Fds, g \in Dead' PROVE g \in Dead
      <4>1. g # f
        BY <1>0, <3>1, <3>2, PoolFacts DEF Dead
      <4>2. sock'[g] = sock[g] /\ peer'[g] = peer[g]
        BY <1>0, <2>2, <3>1, <4>1, PoolFacts
      <4>3. ASSUME NEW u \in Threads, fd[u] = g, pc[u] = "connecting" PROVE FALSE
        BY <2>1, <3>1, <3>2, <4>1, <4>3 DEF Others, Dead
      <4>4. QED
        BY <3>2, <4>2, <4>3 DEF Dead
    <3>3. QED
      BY <1>0, <2>2, <3>2, StaleStep
  <2>5. CASE \/ Pool!BorrowReserve(t) \/ Pool!BorrowWait(t) \/ Pool!WakeSleep(t)
             \/ Pool!SocketFails(t) \/ Pool!SpuriousWakeup(t) \/ Pool!Deadline(t)
    <3>1. sock' = sock /\ pc[t] # "connecting"
      BY <2>5 DEF Pool!BorrowReserve, Pool!BorrowWait, Pool!WakeSleep, Pool!SocketFails,
                  Pool!SpuriousWakeup, Pool!Deadline
    <3>2. QED
      BY <1>4, <2>1, <2>2, <3>1
  <2>6. QED
    BY <1>6, <2>3, <2>4, <2>5 DEF Borrowing, BorrowMishap, Deadline
<1>7. ASSUME NEW t \in Threads, Borrowed(t) PROVE StaleCostsOne'
  <2>1. Others(t) /\ sock' = sock
    BY <1>0, <1>7, LendStep DEF Borrowed, Connect
  <2>2. UNCHANGED <<lost, ioFailed>>
    BY <1>7 DEF Borrowed, envVars, history
  <2>3. CASE Connect(t)
    <3>1. PICK f \in Fds : f = fd[t] /\ peer' = [peer EXCEPT ![f] = TRUE]
      BY <1>0, <2>3, PoolFacts DEF Connect, Pool!ConnectOk
    <3>2. ASSUME NEW g \in Fds, g \in Dead' PROVE g \in Dead
      <4>1. g # f
        BY <1>0, <3>1, <3>2 DEF Dead, TypeWires
      <4>2. sock'[g] = sock[g] /\ peer'[g] = peer[g]
        BY <1>0, <2>1, <3>1, <4>1 DEF TypeWires
      <4>3. ASSUME NEW u \in Threads, fd[u] = g, pc[u] = "connecting" PROVE FALSE
        BY <2>1, <3>1, <3>2, <4>1, <4>3 DEF Others, Dead
      <4>4. QED
        BY <3>2, <4>2, <4>3 DEF Dead
    <3>3. QED
      BY <1>0, <2>2, <3>2, StaleStep
  <2>4. CASE (Pool!BorrowFree(t) \/ Pool!WakeTake(t)) /\ UNCHANGED wireVars
    <3>1. pc[t] # "connecting" /\ peer' = peer
      BY <2>4 DEF Pool!BorrowFree, Pool!WakeTake, wireVars
    <3>2. QED
      BY <1>4, <2>1, <2>2, <3>1
  <2>5. QED
    BY <1>7, <2>3, <2>4 DEF Borrowed
<1>8. ASSUME NEW t \in Threads, NotBorrowed(t) PROVE StaleCostsOne'
  <2>1. Others(t)
    BY <1>0, <1>8, LeaveStep DEF NotBorrowed
  <2>2. UNCHANGED <<sock, peer, lost, ioFailed>> /\ pc[t] # "connecting"
    BY <1>8 DEF NotBorrowed, Pool!Rollback, Pool!GiveUp, wireVars, envVars, history
  <2>3. QED
    BY <1>4, <2>1, <2>2
<1>9. ASSUME NEW t \in Threads, Answered(t) PROVE StaleCostsOne'
  <2>1. Others(t) /\ sock' = sock /\ pc[t] = "holding"
    BY <1>0, <1>9, LeaveStep, ReturnStep DEF Answered
  <2>2. UNCHANGED <<peer, lost, ioFailed>>
    BY <1>9 DEF Answered, envVars, history
  <2>3. QED
    BY <1>4, <2>1, <2>2
<1>10. ASSUME NEW t \in Threads, NotParsed(t) PROVE StaleCostsOne'
  <2>1. Pool!ReturnBad(t) /\ peer' = [peer EXCEPT ![fd[t]] = FALSE] /\ UNCHANGED <<lost, ioFailed>>
    BY <1>10 DEF NotParsed, Burn, Hangup, envVars, history
  <2>2. PICK f \in Fds : /\ f = fd[t] /\ Others(t) /\ pc[t] = "holding"
                         /\ sock' = [sock EXCEPT ![f] = NoNode]
    BY <1>0, <2>1, ReturnStep, LeaveStep
  <2>3. ASSUME NEW g \in Fds, g \in Dead' PROVE g \in Dead
    <3>1. g # f
      BY <1>0, <2>2, <2>3, PoolFacts DEF Dead
    <3>2. sock'[g] = sock[g] /\ peer'[g] = peer[g]
      BY <1>0, <2>1, <2>2, <3>1, PoolFacts DEF TypeWires
    <3>3. QED
      BY <1>0, <2>2, <2>3, <3>2, DeadBefore
  <2>4. QED
    BY <1>0, <2>1, <2>3, StaleStep
<1>11. ASSUME NEW t \in Threads, IoFails(t) PROVE StaleCostsOne'
  BY <1>11, StaleBurnt
<1>12. ASSUME NEW f \in Fds, NEW n, NEW cut, Serve(f, n, cut) \/ Ignore(f, n, cut)
       PROVE  StaleCostsOne'
  BY <1>1, <1>12 DEF Serve, Ignore, poolVars, history
<1>13. ASSUME NEW f \in Fds, Disconnect(f) PROVE StaleCostsOne'
  <2>1. {f} \in SUBSET Fds /\ Lose({f}) /\ UNCHANGED <<sock, pc, fd, ioFailed>>
    BY <1>13 DEF Disconnect, Fault, poolVars, history
  <2>2. QED
    BY <1>0, <2>1, StaleLost
<1>14. ASSUME NEW n, Dies(n), UNCHANGED <<poolVars, history>> PROVE StaleCostsOne'
  <2>1. PICK F \in SUBSET Fds : Lose(F)
    BY <1>14 DEF Dies
  <2>2. UNCHANGED <<sock, pc, fd, ioFailed>>
    BY <1>14 DEF poolVars, history
  <2>3. QED
    BY <1>0, <2>1, <2>2, StaleLost
<1>14b. ASSUME NEW n \in Nodes, ProviderDies(n) PROVE StaleCostsOne'
  BY <1>14, <1>14b DEF ProviderDies, Fault
<1>14c. ASSUME NEW f \in Fds, Throws(f) PROVE StaleCostsOne'
  BY <1>14, <1>14c DEF Throws, Fault
<1>15. ASSUME NEW n \in Nodes, ProviderStarts(n) PROVE StaleCostsOne'
  BY <1>1, <1>15 DEF ProviderStarts, poolVars, wireVars, history
<1>16. ASSUME NEW m \in Methods, NEW a \in Addresses \union {NoNode}, Reregister(m, a)
       PROVE  StaleCostsOne'
  BY <1>1, <1>16 DEF Reregister, Fault, poolVars, wireVars, history
<1>17. CASE Exit
  <2>1. \A f \in Fds : sock'[f] = NoNode
    BY <1>17, PoolNextInv
    DEF Calls, Exit, Pool!Destroy, PoolInv, PoolProofs!LeakInv, PoolProofs!NoLeak
  <2>2. UNCHANGED <<lost, ioFailed>>
    BY <1>17 DEF Exit, envVars, history
  <2>3. QED
    BY <1>0, <2>1, <2>2, StaleStep DEF Dead
<1>18. CASE Over \/ UNCHANGED vars
  BY <1>1, <1>18 DEF Over, vars, poolVars, wireVars, envVars, history
<1>19. QED
  BY <1>2, <1>3, <1>5, <1>6, <1>7, <1>8, <1>9, <1>10, <1>11, <1>12, <1>13, <1>14b, <1>14c, <1>15,
     <1>16, <1>17, <1>18
  DEF Next, Run, Answering

(* A lost connection fails at most one call: the call that meets it burns  *)
(* it, and it is not lent again.                                           *)
THEOREM StaleCostsOneHolds == Spec => []StaleCostsOne
  BY StaleInit, StaleNext, CallsInit, CallsNext, PTL DEF Spec


=============================================================================
