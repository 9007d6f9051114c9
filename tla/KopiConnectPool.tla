-------------------------- MODULE KopiConnectPool --------------------------
(***************************************************************************)
(* The client-side connection pool (src/src/kopiconnectpool.cc).           *)
(*                                                                         *)
(* Every service node ("ip:port") has a bucket: a FIFO of idle sockets,    *)
(* a count of the sockets that exist or are being made, and a condition    *)
(* variable.  A thread borrows a connection, uses it, and gives it back    *)
(* healthy or bad.  A critical section of a bucket never blocks while it   *)
(* holds bucket->mtx, so each one is one step; what happens outside the    *)
(* lock -- socket, connect, sleeping on the condition variable -- is a     *)
(* step of its own.                                                        *)
(***************************************************************************)
EXTENDS Integers, Sequences, FiniteSets

CONSTANTS
    Threads,         \* caller threads
    Nodes,           \* service nodes, the keys "ip:port" of the map
    Fds,             \* the descriptor numbers the process may have open
    maxConnPerNode,  \* limit of connections per node (1024 in the code)
    NoNode, NoFd     \* "no node" and the descriptor -1

ASSUME MaxAssumption == maxConnPerNode \in Nat \ {0}
ASSUME NullAssumption == NoNode \notin Nodes /\ NoFd \notin Fds
ASSUME FiniteAssumption == IsFiniteSet(Threads) /\ IsFiniteSet(Fds)

VARIABLES
    pools,         \* the nodes that have a bucket
    freeFds,       \* freeFds[n]: the idle descriptors of n, oldest first
    active_count,  \* active_count[n]: connections of n, reserved ones included
    sock,          \* sock[f]: node the open descriptor f is for, or NoNode
    pc,            \* where each thread is, inside or outside the pool
    node,          \* node[t]: the node t is borrowing from or holds a fd of
    fd,            \* fd[t]: the descriptor t owns
    alive          \* FALSE once the static pool has been destroyed

vars == <<pools, freeFds, active_count, sock, pc, node, fd, alive>>

-----------------------------------------------------------------------------
(* Where a thread can be.                                                  *)
(*   idle        outside the pool, without a connection                    *)
(*   locking     bucket found, about to lock it                            *)
(*   reserved    slot reserved, lock released, about to call socket()      *)
(*   connecting  inside connect()                                          *)
(*   rollback    connect failed, fd closed, about to lock the bucket again *)
(*   waiting     asleep in cv.wait_for                                     *)
(*   notified    woken, about to lock the bucket and look again            *)
(*   timedout    one second is over, about to look for the last time       *)
(*   holding     BorrowConnection returned a descriptor                    *)

Stages == {"idle", "locking", "reserved", "connecting", "rollback",
           "waiting", "notified", "timedout", "holding"}

Sleeping(n) == {t \in Threads : pc[t] = "waiting" /\ node[t] = n}

Awake(n) == {t \in Threads : pc[t] \in {"notified", "timedout"} /\ node[t] = n}

(* Threads that occupy one unit of active_count[n].                        *)
Occupying(n) ==
    {t \in Threads : /\ pc[t] \in {"reserved", "connecting", "rollback", "holding"}
                     /\ node[t] = n}

(* The small steps the operations are made of.  The variants next to them  *)
(* are faulty on purpose; no action uses them.  They show which property   *)
(* notices the fault.                                                      *)

(* cv.notify_one() by a thread that leaves the stages of all threads as p. *)
NotifyNobody(n, p) == pc' = p

NotifyOne(n, p) ==
    \/ Sleeping(n) = {} /\ pc' = p
    \/ \E u \in Sleeping(n) : pc' = [p EXCEPT ![u] = "notified"]

(* Find the bucket of n in the map, or put a new one there.                *)
FindBucket(n) == pools' = pools \union {n}

(* The limit is not reached.                                               *)
HasQuotaOrFull(n) == active_count[n] <= maxConnPerNode

HasQuota(n) == active_count[n] < maxConnPerNode

(* Give one unit of the count back.                                        *)
KeepSlot(n) == UNCHANGED active_count

ReleaseSlot(n) == active_count' = [active_count EXCEPT ![n] = @ - 1]

(* close(fd)                                                               *)
ForgetFd(f) == UNCHANGED sock

CloseFd(f) == sock' = [sock EXCEPT ![f] = NoNode]

(* freeFds.pop()                                                           *)
PopNothing(n) == UNCHANGED freeFds

PopFree(n) == freeFds' = [freeFds EXCEPT ![n] = Tail(@)]

(* The thread is done with its node.                                       *)
StayBound(t) == UNCHANGED node

Leave(t) == node' = [node EXCEPT ![t] = NoNode]

(* The oldest idle descriptor of t's node becomes t's.                     *)
TakeFree(t) ==
    /\ freeFds[node[t]] # <<>>
    /\ fd' = [fd EXCEPT ![t] = Head(freeFds[node[t]])]
    /\ PopFree(node[t])
    /\ pc' = [pc EXCEPT ![t] = "holding"]
    /\ UNCHANGED <<pools, active_count, sock, node, alive>>

-----------------------------------------------------------------------------

Init ==
    /\ pools = {}
    /\ freeFds = [n \in Nodes |-> <<>>]
    /\ active_count = [n \in Nodes |-> 0]
    /\ sock = [f \in Fds |-> NoNode]
    /\ pc = [t \in Threads |-> "idle"]
    /\ node = [t \in Threads |-> NoNode]
    /\ fd = [t \in Threads |-> NoFd]
    /\ alive = TRUE

(* BorrowConnection, under globalMtx: find the bucket or make it.          *)
BorrowConnection(t, n) ==
    /\ alive
    /\ pc[t] = "idle"
    /\ FindBucket(n)
    /\ pc' = [pc EXCEPT ![t] = "locking"]
    /\ node' = [node EXCEPT ![t] = n]
    /\ UNCHANGED <<freeFds, active_count, sock, fd, alive>>

(* Case A: an idle connection is there.                                    *)
BorrowFree(t) ==
    /\ pc[t] = "locking"
    /\ TakeFree(t)

(* Case B: none is idle, the limit is not reached; reserve and unlock.     *)
BorrowReserve(t) ==
    /\ pc[t] = "locking"
    /\ freeFds[node[t]] = <<>>
    /\ HasQuota(node[t])
    /\ active_count' = [active_count EXCEPT ![node[t]] = @ + 1]
    /\ pc' = [pc EXCEPT ![t] = "reserved"]
    /\ UNCHANGED <<pools, freeFds, sock, node, fd, alive>>

(* Case C: the limit is reached; sleep on the condition variable.          *)
BorrowWait(t) ==
    /\ pc[t] = "locking"
    /\ freeFds[node[t]] = <<>>
    /\ ~HasQuota(node[t])
    /\ pc' = [pc EXCEPT ![t] = "waiting"]
    /\ UNCHANGED <<pools, freeFds, active_count, sock, node, fd, alive>>

(* socket() returns a descriptor number no open socket has.                *)
Socket(t) ==
    /\ pc[t] = "reserved"
    /\ \E f \in Fds :
          /\ sock[f] = NoNode
          /\ sock' = [sock EXCEPT ![f] = node[t]]
          /\ fd' = [fd EXCEPT ![t] = f]
    /\ pc' = [pc EXCEPT ![t] = "connecting"]
    /\ UNCHANGED <<pools, freeFds, active_count, node, alive>>

(* socket() returns -1; connect(-1) then fails and close(-1) does nothing. *)
SocketFails(t) ==
    /\ pc[t] = "reserved"
    /\ pc' = [pc EXCEPT ![t] = "rollback"]
    /\ UNCHANGED <<pools, freeFds, active_count, sock, node, fd, alive>>

ConnectOk(t) ==
    /\ pc[t] = "connecting"
    /\ pc' = [pc EXCEPT ![t] = "holding"]
    /\ UNCHANGED <<pools, freeFds, active_count, sock, node, fd, alive>>

(* connect() fails: the socket is closed before the lock is taken again.   *)
ConnectFails(t) ==
    /\ pc[t] = "connecting"
    /\ CloseFd(fd[t])
    /\ fd' = [fd EXCEPT ![t] = NoFd]
    /\ pc' = [pc EXCEPT ![t] = "rollback"]
    /\ UNCHANGED <<pools, freeFds, active_count, node, alive>>

(* Under the lock again: give the reserved slot back, notify, return -1.   *)
Rollback(t) ==
    /\ pc[t] = "rollback"
    /\ ReleaseSlot(node[t])
    /\ NotifyOne(node[t], [pc EXCEPT ![t] = "idle"])
    /\ Leave(t)
    /\ UNCHANGED <<pools, freeFds, sock, fd, alive>>

-----------------------------------------------------------------------------
(* cv.wait_for(lock, 1s, !freeFds.empty()): its deadline is absolute.      *)

(* A wakeup nobody asked for.                                              *)
SpuriousWakeup(t) ==
    /\ pc[t] = "waiting"
    /\ pc' = [pc EXCEPT ![t] = "notified"]
    /\ UNCHANGED <<pools, freeFds, active_count, sock, node, fd, alive>>

(* One second is over, whether or not a notification came first.           *)
Deadline(t) ==
    /\ pc[t] \in {"waiting", "notified"}
    /\ pc' = [pc EXCEPT ![t] = "timedout"]
    /\ UNCHANGED <<pools, freeFds, active_count, sock, node, fd, alive>>

(* A woken thread holds the lock again and the predicate is true.          *)
WakeTake(t) ==
    /\ pc[t] \in {"notified", "timedout"}
    /\ TakeFree(t)

(* The predicate is false and time is left: sleep again.                   *)
WakeSleep(t) ==
    /\ pc[t] = "notified"
    /\ freeFds[node[t]] = <<>>
    /\ pc' = [pc EXCEPT ![t] = "waiting"]
    /\ UNCHANGED <<pools, freeFds, active_count, sock, node, fd, alive>>

(* The predicate is false and the time is over: return -1.  (The faulty    *)
(* variant waits without a deadline.)                                      *)
WaitAgain(t) ==
    /\ pc[t] = "timedout"
    /\ freeFds[node[t]] = <<>>
    /\ pc' = [pc EXCEPT ![t] = "waiting"]
    /\ UNCHANGED <<pools, freeFds, active_count, sock, node, fd, alive>>

GiveUp(t) ==
    /\ pc[t] = "timedout"
    /\ freeFds[node[t]] = <<>>
    /\ pc' = [pc EXCEPT ![t] = "idle"]
    /\ Leave(t)
    /\ UNCHANGED <<pools, freeFds, active_count, sock, fd, alive>>

-----------------------------------------------------------------------------
(* ReturnConnection.  The bucket is found under globalMtx first; buckets   *)
(* are never removed before exit, so the look-up is part of the step.      *)

ReturnHealthy(t) ==
    /\ pc[t] = "holding"
    /\ node[t] \in pools
    /\ freeFds' = [freeFds EXCEPT ![node[t]] = Append(@, fd[t])]
    /\ fd' = [fd EXCEPT ![t] = NoFd]
    /\ NotifyOne(node[t], [pc EXCEPT ![t] = "idle"])
    /\ Leave(t)
    /\ UNCHANGED <<pools, active_count, sock, alive>>

ReturnBad(t) ==
    /\ pc[t] = "holding"
    /\ node[t] \in pools
    /\ CloseFd(fd[t])
    /\ ReleaseSlot(node[t])
    /\ fd' = [fd EXCEPT ![t] = NoFd]
    /\ NotifyOne(node[t], [pc EXCEPT ![t] = "idle"])
    /\ Leave(t)
    /\ UNCHANGED <<pools, freeFds, alive>>

(* ~KopiConnectPool runs at exit, after main has joined its threads: it    *)
(* closes what is idle in each bucket and deletes the buckets.             *)
Idle(f) == \E n \in Nodes : \E i \in 1..Len(freeFds[n]) : freeFds[n][i] = f

Destroy ==
    /\ alive
    /\ \A t \in Threads : pc[t] = "idle"
    /\ sock' = [f \in Fds |-> IF Idle(f) THEN NoNode ELSE sock[f]]
    /\ freeFds' = [n \in Nodes |-> <<>>]
    /\ active_count' = [n \in Nodes |-> 0]
    /\ pools' = {}
    /\ alive' = FALSE
    /\ UNCHANGED <<pc, node, fd>>

(* The process is gone; nothing more happens.                              *)
Exited == ~alive /\ UNCHANGED vars

-----------------------------------------------------------------------------

Borrowing(t) ==
    \/ BorrowFree(t) \/ BorrowReserve(t) \/ BorrowWait(t)
    \/ Socket(t) \/ SocketFails(t) \/ ConnectOk(t) \/ ConnectFails(t)
    \/ Rollback(t)
    \/ WakeTake(t) \/ WakeSleep(t) \/ GiveUp(t)

Next ==
    \/ \E t \in Threads :
          \/ \E n \in Nodes : BorrowConnection(t, n)
          \/ Borrowing(t)
          \/ SpuriousWakeup(t) \/ Deadline(t)
          \/ ReturnHealthy(t) \/ ReturnBad(t)
    \/ Destroy
    \/ Exited

Spec == Init /\ [][Next]_vars

(* A thread inside BorrowConnection keeps running and connect() comes back *)
(* by itself, so its steps are weakly fair; so is the clock behind the     *)
(* deadline.  Nothing obliges a thread to borrow or to give back, and no   *)
(* wakeup is promised.                                                     *)
FairSpec == Spec /\ \A t \in Threads : WF_vars(Borrowing(t)) /\ WF_vars(Deadline(t))

-----------------------------------------------------------------------------
(* Properties                                                              *)

(* Every variable has its type; a thread owns a descriptor exactly while   *)
(* it connects or holds, and is bound to a node exactly while it is inside *)
(* the pool or holds a connection of it.                                   *)
TypeOK ==
    /\ pools \in SUBSET Nodes
    /\ freeFds \in [Nodes -> Seq(Fds)]
    /\ active_count \in [Nodes -> Int]
    /\ sock \in [Fds -> Nodes \union {NoNode}]
    /\ pc \in [Threads -> Stages]
    /\ node \in [Threads -> Nodes \union {NoNode}]
    /\ fd \in [Threads -> Fds \union {NoFd}]
    /\ alive \in BOOLEAN
    /\ \A t \in Threads : /\ fd[t] # NoFd <=> pc[t] \in {"connecting", "holding"}
                          /\ node[t] # NoNode <=> pc[t] # "idle"

(* A descriptor has one owner: the thread that connects or uses it, or one *)
(* place of one idle queue, and it is open to the node of that owner.      *)
(* Were it to fail, two calls would interleave their frames on one stream, *)
(* or a call would reach another service node.                             *)
ThreadOwns ==
    \A t \in Threads : fd[t] # NoFd =>
        /\ sock[fd[t]] = node[t]
        /\ ~Idle(fd[t])
        /\ \A u \in Threads : fd[u] = fd[t] => u = t

QueueOwns ==
    \A n \in Nodes : \A i \in 1..Len(freeFds[n]) :
        /\ sock[freeFds[n][i]] = n
        /\ \A j \in 1..Len(freeFds[n]) : freeFds[n][i] = freeFds[n][j] => i = j

OneOwner == ThreadOwns /\ QueueOwns

(* No open socket is forgotten: it is idle in a queue or some thread has   *)
(* it.  In particular nothing is left open when the pool is destroyed.     *)
NoLeak ==
    /\ \A f \in Fds : sock[f] # NoNode => Idle(f) \/ \E t \in Threads : fd[t] = f
    /\ ~alive => \A f \in Fds : sock[f] = NoNode

(* active_count[n] is exact in every state, the failed connects included:  *)
(* it counts the idle connections and the threads that use, make or are    *)
(* about to give back one.                                                 *)
QuotaExact ==
    \A n \in Nodes :
        active_count[n] = Len(freeFds[n]) + Cardinality(Occupying(n))

(* No lost wakeup: while somebody sleeps, every idle connection has an     *)
(* awake waiter on its way to the lock.  notify_one is called once per     *)
(* return, and other borrowers may take a connection before the waiter.    *)
NoLostWakeup ==
    \A n \in Nodes :
        Sleeping(n) # {} => Len(freeFds[n]) <= Cardinality(Awake(n))

(* Every borrow comes to an end, with a connection or with -1, whatever    *)
(* the holders of the connections do: nobody waits for ever, not even a    *)
(* waiter that is woken for a free slot and, looking for an idle           *)
(* connection only, sleeps on.                                             *)
BorrowEnds ==
    \A t \in Threads :
        pc[t] \notin {"idle", "holding"} ~> pc[t] \in {"idle", "holding"}

(* The pool implements the lease of connections.                           *)
Lease == INSTANCE ConnectionLease WITH
    Limit <- maxConnPerNode,
    peer <- sock,
    wants <- node,
    lessees <- [f \in Fds |-> {t \in Threads : fd[t] = f}]

LeaseSpec == Lease!Spec

=============================================================================
