--------------------------- MODULE KopiRpcChannel ---------------------------
(***************************************************************************)
(* Calls from end to end: KopiRpcChannel::CallMethod in several threads    *)
(* (src/src/kopirpcchannel.cc), over the real connection pool, the address *)
(* cache, the connections and the provider that answers (OnMessage and     *)
(* SendRpcResponse of src/src/rpcprovider.cc).                             *)
(*                                                                         *)
(* A frame is abstracted to the call it belongs to.  A response frame has  *)
(* two parts, its size and its body, because the caller reads it in two    *)
(* RecvN.  The provider takes what has come, which may end inside a        *)
(* request frame; it makes nothing of bytes that begin inside one, which   *)
(* is proved of the bytes of the example's frames (Misaligned in           *)
(* ProgramsProofs).  ZooKeeper is the map "registry"; providers and the    *)
(* network fail and cut frames at most MaxFaults times.                    *)
(***************************************************************************)
EXTENDS Integers, Sequences, FiniteSets

CONSTANTS
    Threads, Nodes, Fds, maxConnPerNode, NoNode, NoFd,   \* as in the pool
    Methods, NoMethod,  \* method paths, "/Service/Method"
    Malformed,          \* registered data without a ':'
    Registered,         \* Registered[m]: what ZooKeeper holds for m at first
    Offers,             \* Offers[n]: the methods the provider on n has
    Controllers,        \* whether callers pass a controller
    MaxCalls,           \* bound: calls made in a behaviour
    MaxFaults           \* bound: faults, moves and cut frames in a behaviour

Addresses == Nodes \union {Malformed}

ASSUME PoolAssumption == /\ maxConnPerNode \in Nat \ {0}
                         /\ NoNode \notin Nodes /\ NoFd \notin Fds
                         /\ IsFiniteSet(Threads) /\ IsFiniteSet(Fds)
ASSUME AddressAssumption == /\ Malformed \notin Nodes \union {NoNode}
                            /\ NoMethod \notin Methods
                            /\ Registered \in [Methods -> Addresses \union {NoNode}]
                            /\ Offers \in [Nodes -> SUBSET Methods]
ASSUME BoundAssumption == /\ Controllers \in SUBSET BOOLEAN
                          /\ MaxCalls \in Nat
                          /\ MaxFaults \in Nat

VARIABLES
    pools, freeFds, active_count, sock, pc, node, fd, alive,  \* the pool
    addrCache,  \* s_addrCache: the cached address of each method, or NoNode
    stage,      \* stage[t]: how far t is in CallMethod
    path,       \* path[t]: the method t calls
    data,       \* data[t]: the address t found
    ctl,        \* ctl[t]: t passed a controller
    id,         \* id[t]: the number of t's call
    answer,     \* answer[t]: the call whose response t was given, or 0
    registry,   \* what ZooKeeper holds for each method
    up,         \* up[n]: a provider listens on n
    peer,       \* peer[f]: the provider's end of connection f is open
    request,    \* request[f]: frames sent on f of which the provider has read nothing
    rest,       \* rest[f]: in front of them is the rest of a frame it has read a part of
    response,   \* response[f]: parts of frames the caller has not read
    calls,      \* calls so far
    faults,     \* faults so far
    cuts,       \* history: cuts[f]: segments on f that ended inside a frame
    served,     \* history: how often a provider executed each call
    listed,     \* history: every address a method was registered with
    asked,      \* history: <<t, m>> when t has got m's address from ZooKeeper
    lost,       \* history: connections lost so far
    ioFailed    \* history: calls that failed while sending or receiving

poolVars == <<pools, freeFds, active_count, sock, pc, node, fd, alive>>
callVars == <<stage, path, data, ctl, id, answer, calls>>
wireVars == <<peer, request, rest, response, cuts>>
envVars  == <<registry, up, faults, listed, lost>>
history  == <<asked, ioFailed, served>>
vars == <<poolVars, callVars, wireVars, envVars, addrCache, history>>

Pool == INSTANCE KopiConnectPool

-----------------------------------------------------------------------------
(* Where a thread is in CallMethod.                                        *)
(*   none    not in CallMethod                                             *)
(*   zk      not in the cache; in a ZooKeeper session                      *)
(*   store   has the address from ZooKeeper, about to put it in the cache  *)
(*   address has an address, or none, about to use it                      *)
(*   borrow  inside BorrowConnection                                       *)
(*   send, size, body   about to send, to read the size, to read the body  *)
(*   dead    nowhere: the process has been killed                          *)
CallStages == {"none", "zk", "store", "address", "borrow", "send", "size", "body", "dead"}

Part(kind, call) == [kind |-> kind, call |-> call]

ElementsOf(s) == {s[i] : i \in 1..Len(s)}

(* t goes on to the next stage of its call.                                *)
Advance(t, s) ==
    /\ stage' = [stage EXCEPT ![t] = s]
    /\ UNCHANGED <<path, data, ctl, id, answer, calls>>

(* CallMethod returns, having parsed the response of call r, or 0.         *)
Finish(t, r) ==
    /\ stage' = [stage EXCEPT ![t] = "none"]
    /\ path' = [path EXCEPT ![t] = NoMethod]
    /\ data' = [data EXCEPT ![t] = NoNode]
    /\ ctl' = [ctl EXCEPT ![t] = TRUE]
    /\ answer' = [answer EXCEPT ![t] = r]
    /\ UNCHANGED <<id, calls>>

(* The descriptor f is closed, and its streams with it.                    *)
Hangup(f) ==
    /\ peer' = [peer EXCEPT ![f] = FALSE]
    /\ request' = [request EXCEPT ![f] = <<>>]
    /\ rest' = [rest EXCEPT ![f] = FALSE]
    /\ response' = [response EXCEPT ![f] = <<>>]
    /\ cuts' = [cuts EXCEPT ![f] = 0]

Init ==
    /\ Pool!Init
    /\ addrCache = [m \in Methods |-> NoNode]
    /\ stage = [t \in Threads |-> "none"]
    /\ path = [t \in Threads |-> NoMethod]
    /\ data = [t \in Threads |-> NoNode]
    /\ ctl = [t \in Threads |-> TRUE]
    /\ id = [t \in Threads |-> 0]
    /\ answer = [t \in Threads |-> 0]
    /\ registry = Registered
    /\ up = [n \in Nodes |-> TRUE]
    /\ peer = [f \in Fds |-> FALSE]
    /\ request = [f \in Fds |-> <<>>]
    /\ rest = [f \in Fds |-> FALSE]
    /\ response = [f \in Fds |-> <<>>]
    /\ calls = 0
    /\ faults = 0
    /\ listed = [m \in Methods |-> {Registered[m]} \ {NoNode}]
    /\ asked = {}
    /\ lost = 0
    /\ ioFailed = 0
    /\ cuts = [f \in Fds |-> 0]
    /\ served = [c \in 1..MaxCalls |-> 0]

-----------------------------------------------------------------------------
(* Finding the address                                                     *)

(* CallMethod up to the look-up in the cache, which is made under its lock. *)
(* A message that does not serialize ends the call before that, and leaves *)
(* nothing behind.                                                         *)
CallMethod(t, m, c) ==
    /\ alive
    /\ stage[t] = "none"
    /\ calls < MaxCalls
    /\ calls' = calls + 1
    /\ id' = [id EXCEPT ![t] = calls + 1]
    /\ answer' = [answer EXCEPT ![t] = 0]
    /\ path' = [path EXCEPT ![t] = m]
    /\ ctl' = [ctl EXCEPT ![t] = c]
    /\ data' = [data EXCEPT ![t] = addrCache[m]]
    /\ stage' = [stage EXCEPT ![t] = IF addrCache[m] = NoNode THEN "zk" ELSE "address"]
    /\ UNCHANGED <<poolVars, wireVars, envVars, addrCache, history>>

(* A ZooKeeper session: Start, GetData, close.  GetData answers "" for a   *)
(* path that is not there; only an address found is stored.                *)
GetData(t) ==
    /\ stage[t] = "zk"
    /\ data' = [data EXCEPT ![t] = registry[path[t]]]
    /\ IF registry[path[t]] = NoNode
       THEN /\ stage' = [stage EXCEPT ![t] = "address"]
            /\ UNCHANGED asked
       ELSE /\ stage' = [stage EXCEPT ![t] = "store"]
            /\ asked' = asked \union {<<t, path[t]>>}
    /\ UNCHANGED <<path, ctl, id, answer, calls>>
    /\ UNCHANGED <<poolVars, wireVars, envVars, addrCache, ioFailed, served>>

(* s_addrCache[methodPath] = data.  (The faulty variants forget to, or     *)
(* ignore the method.)                                                     *)
CacheNothing(m, a) == UNCHANGED addrCache

CacheForAll(m, a) == addrCache' = [k \in Methods |-> a]

Cache(m, a) == addrCache' = [addrCache EXCEPT ![m] = a]

Store(t) ==
    /\ stage[t] = "store"
    /\ Cache(path[t], data[t])
    /\ Advance(t, "address")
    /\ UNCHANGED <<poolVars, wireVars, envVars, history>>

(* No address, or one without ':'.  These two branches use the controller  *)
(* without asking whether there is one; without one the process dies.      *)
NoAddress(t) ==
    /\ stage[t] = "address"
    /\ data[t] \notin Nodes
    /\ IF ctl[t]
       THEN Finish(t, 0)
       ELSE /\ stage' = [u \in Threads |-> "dead"]
            /\ UNCHANGED <<path, data, ctl, id, answer, calls>>
    /\ UNCHANGED <<poolVars, wireVars, envVars, addrCache, history>>

-----------------------------------------------------------------------------
(* Borrowing a connection                                                  *)

(* (The faulty variant does not look for the ':'.)                         *)
BorrowAnyway(t) ==
    /\ stage[t] = "address"
    /\ data[t] # NoNode
    /\ Pool!BorrowConnection(t, data[t])
    /\ Advance(t, "borrow")
    /\ UNCHANGED <<wireVars, envVars, addrCache, history>>

Borrow(t) ==
    /\ stage[t] = "address"
    /\ data[t] \in Nodes
    /\ Pool!BorrowConnection(t, data[t])
    /\ Advance(t, "borrow")
    /\ UNCHANGED <<wireVars, envVars, addrCache, history>>

(* connect() succeeds against a listening provider; the streams are new.   *)
Connect(t) ==
    /\ Pool!ConnectOk(t)
    /\ up[node[t]]
    /\ peer' = [peer EXCEPT ![fd[t]] = TRUE]
    /\ UNCHANGED <<request, rest, response, cuts>>

(* BorrowConnection returns a descriptor.                                  *)
Borrowed(t) ==
    /\ stage[t] = "borrow"
    /\ \/ Connect(t)
       \/ (Pool!BorrowFree(t) \/ Pool!WakeTake(t)) /\ UNCHANGED wireVars
    /\ Advance(t, "send")
    /\ UNCHANGED <<envVars, addrCache, history>>

(* The steps inside BorrowConnection.  connect() fails against a node      *)
(* where nothing listens.                                                  *)
Borrowing(t) ==
    /\ stage[t] = "borrow"
    /\ \/ Pool!BorrowReserve(t) \/ Pool!BorrowWait(t)
       \/ Pool!Socket(t)
       \/ ~up[node[t]] /\ Pool!ConnectFails(t)
       \/ Pool!WakeSleep(t)
    /\ UNCHANGED <<callVars, wireVars, envVars, addrCache, history>>

(* BorrowConnection returns -1: the connect failed or the second is over.  *)
NotBorrowed(t) ==
    /\ stage[t] = "borrow"
    /\ Pool!Rollback(t) \/ Pool!GiveUp(t)
    /\ Finish(t, 0)
    /\ UNCHANGED <<wireVars, envVars, addrCache, history>>

(* socket() fails, or time and the scheduler act on a thread that waits.   *)
BorrowMishap(t) ==
    /\ stage[t] = "borrow"
    /\ Pool!SocketFails(t) \/ Pool!SpuriousWakeup(t)
    /\ UNCHANGED <<callVars, wireVars, envVars, addrCache, history>>

Deadline(t) ==
    /\ stage[t] = "borrow"
    /\ Pool!Deadline(t)
    /\ UNCHANGED <<callVars, wireVars, envVars, addrCache, history>>

-----------------------------------------------------------------------------
(* Sending and receiving                                                   *)

(* SendN returns true: the kernel took the whole frame, which reaches the  *)
(* provider if its end is open.                                            *)
Send(t) ==
    /\ stage[t] = "send"
    /\ request' = [request EXCEPT ![fd[t]] =
                     IF peer[fd[t]] THEN Append(@, Part(path[t], id[t])) ELSE @]
    /\ Advance(t, "size")
    /\ UNCHANGED <<poolVars, peer, rest, response, cuts, envVars, addrCache, history>>

(* RecvN of the four bytes of the size.                                    *)
RecvSize(t) ==
    /\ stage[t] = "size"
    /\ response[fd[t]] # <<>>
    /\ response' = [response EXCEPT ![fd[t]] = Tail(@)]
    /\ Advance(t, "body")
    /\ UNCHANGED <<poolVars, peer, request, rest, cuts, envVars, addrCache, history>>

(* SendN or RecvN returns false: the provider's end is closed and, for     *)
(* RecvN, nothing is left to read.  The connection is returned as bad.     *)
(* (Faulty variants: it is returned as healthy; recv() = 0 is tried again; *)
(* the receiver loses patience and returns a connection that still works.) *)
KeepBroken(t) == Pool!ReturnHealthy(t) /\ UNCHANGED wireVars

Burn(t) == Pool!ReturnBad(t) /\ Hangup(fd[t])

SendFails(t) ==
    /\ stage[t] = "send"
    /\ ~peer[fd[t]]
    /\ Burn(t)
    /\ ioFailed' = ioFailed + 1
    /\ Finish(t, 0)
    /\ UNCHANGED <<envVars, addrCache, asked, served>>

LosesPatience(t) ==
    /\ stage[t] = "size"
    /\ response[fd[t]] = <<>>
    /\ Pool!ReturnHealthy(t)
    /\ Finish(t, 0)
    /\ UNCHANGED <<wireVars, envVars, addrCache, history>>

IoFails(t) ==
    /\ stage[t] \in {"send", "size", "body"}
    /\ ~peer[fd[t]]
    /\ stage[t] \in {"size", "body"} => response[fd[t]] = <<>>
    /\ Burn(t)
    /\ ioFailed' = ioFailed + 1
    /\ Finish(t, 0)
    /\ UNCHANGED <<envVars, addrCache, asked, served>>

(* RecvN of the body, and the response parses: the connection is healthy.  *)
Answered(t) ==
    /\ stage[t] = "body"
    /\ response[fd[t]] # <<>>
    /\ Head(response[fd[t]]).kind = "body"
    /\ response' = [response EXCEPT ![fd[t]] = Tail(@)]
    /\ Pool!ReturnHealthy(t)
    /\ Finish(t, Head(response[fd[t]]).call)
    /\ UNCHANGED <<peer, request, rest, cuts, envVars, addrCache, history>>

(* The body does not parse: the connection may be out of step, so it is    *)
(* returned as bad.  (The faulty variant forgets to return it.)            *)
JustReturn(t) ==
    /\ stage[t] = "body"
    /\ response[fd[t]] # <<>>
    /\ Head(response[fd[t]]).kind # "body"
    /\ Finish(t, 0)
    /\ UNCHANGED <<poolVars, wireVars, envVars, addrCache, history>>

NotParsed(t) ==
    /\ stage[t] = "body"
    /\ response[fd[t]] # <<>>
    /\ Head(response[fd[t]]).kind # "body"
    /\ Burn(t)
    /\ Finish(t, 0)
    /\ UNCHANGED <<envVars, addrCache, history>>

-----------------------------------------------------------------------------
(* The provider at the other end of connection f                           *)

(* OnMessage takes all bytes that have come: the rest that may be in       *)
(* front, and n frames, the last of them only in part if cut.  (The faulty *)
(* variant leaves the bytes in the buffer.)                                *)
LeaveBytes(f, n) == UNCHANGED request

TakeBytes(f, n) == request' = [request EXCEPT ![f] = SubSeq(@, n + 1, Len(@))]

Take(f, n, cut) ==
    /\ peer[f]
    /\ n = 0 => rest[f] /\ ~cut
    /\ cut => faults < MaxFaults
    /\ faults' = IF cut THEN faults + 1 ELSE faults
    /\ cuts' = [cuts EXCEPT ![f] = IF cut THEN @ + 1 ELSE @]
    /\ rest' = [rest EXCEPT ![f] = cut]
    /\ TakeBytes(f, n)

(* It looks at one frame, at the beginning.  When the node has the method, *)
(* it is executed, on a part of its request when the frame is cut, and its *)
(* closure sends one response frame, whose body the caller may or may not  *)
(* be able to parse.                                                       *)
Serve(f, n, cut) ==
    /\ Take(f, n, cut)
    /\ ~rest[f]
    /\ Head(request[f]).kind \in Offers[sock[f]]
    /\ LET call == Head(request[f]).call
       IN  /\ served' = [served EXCEPT ![call] = @ + 1]
           /\ \E body \in {"body", "junk"} :
                 response' = [response EXCEPT ![f] =
                                @ \o <<Part("size", call), Part(body, call)>>]
    /\ UNCHANGED <<poolVars, callVars, peer, registry, up, listed, lost, addrCache, asked, ioFailed>>

(* OnMessage logs and returns, without a response: the header or the       *)
(* request does not parse, because the bytes begin or end inside a frame,  *)
(* or the service or the method is unknown.                                *)
Ignore(f, n, cut) ==
    /\ Take(f, n, cut)
    /\ \/ rest[f]
       \/ n = 1 /\ cut
       \/ n > 0 /\ Head(request[f]).kind \notin Offers[sock[f]]
    /\ UNCHANGED <<poolVars, callVars, peer, response, registry, up, listed, lost, addrCache, history>>

-----------------------------------------------------------------------------
(* Faults                                                                  *)

(* The provider's ends of the connections in F close: a request that was   *)
(* not read is lost, and so may be the response from any point on.         *)
Lose(F) ==
    /\ peer' = [f \in Fds |-> peer[f] /\ f \notin F]
    /\ request' = [f \in Fds |-> IF f \in F THEN <<>> ELSE request[f]]
    /\ rest' = [f \in Fds |-> rest[f] /\ f \notin F]
    /\ \E keep \in [F -> 0..2] :
          response' = [f \in Fds |-> IF f \in F /\ keep[f] < Len(response[f])
                                     THEN SubSeq(response[f], 1, keep[f])
                                     ELSE response[f]]
    /\ lost' = lost + Cardinality(F)
    /\ UNCHANGED cuts

Fault ==
    /\ faults < MaxFaults
    /\ faults' = faults + 1
    /\ UNCHANGED <<poolVars, callVars, addrCache, history>>

(* One connection breaks.                                                  *)
Disconnect(f) ==
    /\ Fault
    /\ peer[f]
    /\ Lose({f})
    /\ UNCHANGED <<registry, up, listed>>

(* The provider on n dies, and its connections with it.                    *)
Dies(n) ==
    /\ up' = [up EXCEPT ![n] = FALSE]
    /\ Lose({f \in Fds : peer[f] /\ sock[f] = n})
    /\ UNCHANGED <<registry, listed>>

ProviderDies(n) ==
    /\ Fault
    /\ up[n]
    /\ Dies(n)

(* The bytes that OnMessage has taken begin or end inside a frame, and     *)
(* substr throws: the process ends.                                        *)
Throws(f) ==
    /\ peer[f]
    /\ IF rest[f]
       THEN UNCHANGED <<poolVars, callVars, faults, addrCache, history>>
       ELSE Fault /\ request[f] # <<>>
    /\ Dies(sock[f])

(* A provider listens on n again.                                          *)
ProviderStarts(n) ==
    /\ ~up[n]
    /\ up' = [up EXCEPT ![n] = TRUE]
    /\ UNCHANGED <<poolVars, callVars, wireVars, registry, faults, listed, lost, addrCache,
                   history>>

(* The registration of m changes, or goes away with its session.           *)
Reregister(m, a) ==
    /\ Fault
    /\ registry[m] # a
    /\ registry' = [registry EXCEPT ![m] = a]
    /\ listed' = [listed EXCEPT ![m] = @ \union ({a} \ {NoNode})]
    /\ UNCHANGED <<wireVars, up, lost>>

(* main returns after its threads: the pool is destroyed.                  *)
Exit ==
    /\ \A t \in Threads : stage[t] = "none"
    /\ Pool!Destroy
    /\ peer' = [f \in Fds |-> FALSE]
    /\ UNCHANGED <<request, rest, response, cuts>>
    /\ UNCHANGED <<callVars, envVars, addrCache, history>>

(* A frame has gone and nothing is on the connection for its caller, on    *)
(* which a segment has ended inside a frame, that one or an earlier one.   *)
Swallowed(t) ==
    /\ stage[t] = "size"
    /\ peer[fd[t]]
    /\ request[fd[t]] = <<>> /\ response[fd[t]] = <<>>
    /\ cuts[fd[t]] > 0

Over ==
    /\ \/ ~alive
       \/ \E t \in Threads : stage[t] = "dead"
       \/ /\ \E t \in Threads : Swallowed(t)
          /\ \A t \in Threads : stage[t] = "none" \/ Swallowed(t)
    /\ UNCHANGED vars

-----------------------------------------------------------------------------

(* The steps of t in CallMethod that nothing but t decides.                *)
Run(t) ==
    \/ GetData(t) \/ Store(t) \/ NoAddress(t)
    \/ Borrow(t) \/ Borrowing(t) \/ Borrowed(t) \/ NotBorrowed(t)
    \/ Send(t) \/ RecvSize(t) \/ IoFails(t) \/ Answered(t) \/ NotParsed(t)

Answering(f) ==
    \/ \E n \in 0..Len(request[f]), cut \in BOOLEAN : Serve(f, n, cut) \/ Ignore(f, n, cut)
    \/ Throws(f)

Next ==
    \/ \E t \in Threads :
          \/ \E m \in Methods, c \in Controllers : CallMethod(t, m, c)
          \/ Run(t)
          \/ BorrowMishap(t) \/ Deadline(t)
    \/ \E f \in Fds : Answering(f) \/ Disconnect(f)
    \/ \E n \in Nodes : ProviderDies(n) \/ ProviderStarts(n)
    \/ \E m \in Methods, a \in Addresses \union {NoNode} : Reregister(m, a)
    \/ Exit
    \/ Over

Spec == Init /\ [][Next]_vars

(* Threads run, ZooKeeper answers, the deadline of a wait comes, and a     *)
(* provider reads what its connections bring.                              *)
FairSpec ==
    /\ Spec
    /\ \A t \in Threads : WF_vars(Run(t)) /\ WF_vars(Deadline(t))
    /\ \A f \in Fds : WF_vars(Answering(f))

-----------------------------------------------------------------------------
(* Properties                                                              *)

TypeOK ==
    /\ Pool!TypeOK
    /\ addrCache \in [Methods -> Addresses \union {NoNode}]
    /\ stage \in [Threads -> CallStages]
    /\ path \in [Threads -> Methods \union {NoMethod}]
    /\ data \in [Threads -> Addresses \union {NoNode}]
    /\ ctl \in [Threads -> BOOLEAN]
    /\ id \in [Threads -> 0..MaxCalls]
    /\ answer \in [Threads -> 0..MaxCalls]
    /\ registry \in [Methods -> Addresses \union {NoNode}]
    /\ up \in [Nodes -> BOOLEAN]
    /\ peer \in [Fds -> BOOLEAN]
    /\ request \in [Fds -> Seq([kind : Methods, call : 1..MaxCalls])]
    /\ rest \in [Fds -> BOOLEAN] /\ cuts \in [Fds -> Nat]
    /\ response \in [Fds -> Seq([kind : {"size", "body", "junk"}, call : 1..MaxCalls])]
    /\ calls \in 0..MaxCalls /\ faults \in 0..MaxFaults
    /\ listed \in [Methods -> SUBSET Addresses]
    /\ asked \subseteq Threads \X Methods
    /\ lost \in Nat /\ ioFailed \in Nat
    /\ served \in [1..MaxCalls -> Nat]

(* What is in the streams of a connection belongs to the call that has the *)
(* connection now, and the bytes of no earlier call are in front of its    *)
(* own, unless a segment has ended inside a frame on this connection       *)
(* (rpcprovider.cc:145): an idle connection without one is clean.          *)
StreamOfHolder ==
    \A f \in Fds :
        /\ \A p \in ElementsOf(request[f]) \union ElementsOf(response[f]) :
              \E t \in Threads : fd[t] = f /\ id[t] = p.call
        /\ rest[f] => cuts[f] > 0

(* The rule at kopirpcchannel.cc:153-155: from the borrow on, every return *)
(* path gives the connection back; a thread has one exactly while it sends *)
(* or receives.                                                            *)
BorrowReturnPaired ==
    \A t \in Threads :
        stage[t] # "dead" =>
            /\ stage[t] \in {"send", "size", "body"} <=> pc[t] = "holding"
            /\ stage[t] = "borrow" <=> pc[t] \notin {"idle", "holding"}

(* A request reaches only a node its method was registered on, through the *)
(* cache, the pool's buckets and the reuse of descriptors.                 *)
RightNode ==
    \A f \in Fds : \A p \in ElementsOf(request[f]) : sock[f] \in listed[p.kind]

(* A thread opens at most one ZooKeeper session that finds an address per  *)
(* method: benchmark.md counts one per thread at the cold start.           *)
OneLookup == \A t \in Threads : stage[t] = "zk" => <<t, path[t]>> \notin asked

(* The connections the caller still has open, and the provider not.        *)
Dead == {f \in Fds : /\ sock[f] # NoNode
                     /\ ~peer[f]
                     /\ ~\E t \in Threads : fd[t] = f /\ pc[t] = "connecting"}

(* A lost connection fails at most one call: the call that meets it burns  *)
(* it, and it is not lent again.                                           *)
StaleCostsOne == ioFailed + Cardinality(Dead) <= lost

(* The calls implement remote calls: none is executed twice, and none      *)
(* returns a result without having been executed.                          *)
Remote == INSTANCE RemoteCall WITH
    current <- [t \in Threads |-> IF path[t] = NoMethod THEN 0 ELSE id[t]],
    executed <- served,
    got <- answer

RemoteSpec == Remote!Spec

(* A thread without a controller has found no address.                     *)
Killed == \E t \in Threads : stage[t] = "dead" /\ ~ctl[t] /\ data[t] \notin Nodes

(* Every call returns, whatever connections break and providers die while  *)
(* it waits: docs/usage.md:101-106 has the caller ask for the error then.  *)
(* Excepted are a call whose frame was lost by a cut (rpcprovider.cc:145), *)
(* and the process without a controller (kopirpcchannel.cc:119, :126).     *)
CallEnds == \A t \in Threads : stage[t] # "none" ~> stage[t] = "none" \/ Swallowed(t) \/ Killed

=============================================================================
