------------------------------ MODULE ZkClient ------------------------------
(***************************************************************************)
(* ZkClient of src/src/zookeeperutil.cc: Start waits on a semaphore of its *)
(* own stack for globalWatcher, which a thread of the ZooKeeper library    *)
(* calls with the events of the session.  Each client is a session of one  *)
(* process: a caller opens one per look-up and closes it, a provider keeps *)
(* one for ever.  The library and the server are external: they queue      *)
(* session events and deliver them one by one, from zookeeper_init to      *)
(* zookeeper_close.                                                        *)
(***************************************************************************)
EXTENDS Integers, Sequences

CONSTANTS
    Clients,   \* the clients of the process
    MaxDrops   \* bound: lost connections per client

ASSUME BoundAssumption == MaxDrops \in Nat

VARIABLES
    stage,     \* how far each client is
    sem,       \* the value of the semaphore in Start's frame
    context,   \* the handle's context is the address of the semaphore
    linked,    \* the session has a connection to the server
    events,    \* session events the library has not delivered
    drops,     \* connections lost so far
    met,       \* history: the session has been connected
    posts      \* history: the kinds of semaphore the watcher has posted to

vars == <<stage, sem, context, linked, events, drops, met, posts>>

(*   none     before Start                                                 *)
(*   failed   zookeeper_init has returned null: exit(EXIT_FAILURE)         *)
(*   handle   zookeeper_init has returned a handle                         *)
(*   ready    the semaphore is initialized                                 *)
(*   waiting  the context is set; in sem_wait                              *)
(*   started  Start has returned, and its semaphore is gone                *)
(*   closed   destroyed                                                    *)
ClientStages == {"none", "failed", "handle", "ready", "waiting", "started", "closed"}

Init ==
    /\ stage = [c \in Clients |-> "none"]
    /\ sem = [c \in Clients |-> 0]
    /\ context = [c \in Clients |-> FALSE]
    /\ linked = [c \in Clients |-> FALSE]
    /\ events = [c \in Clients |-> <<>>]
    /\ drops = [c \in Clients |-> 0]
    /\ met = [c \in Clients |-> FALSE]
    /\ posts = [c \in Clients |-> {}]

(* A post through the null context kills the process; without a handle it  *)
(* exits.                                                                  *)
Alive == \A c \in Clients : "null" \notin posts[c] /\ stage[c] # "failed"

Open(c) == stage[c] \notin {"none", "failed", "closed"}

Go(c, from, to) ==
    /\ Alive
    /\ stage[c] = from
    /\ stage' = [stage EXCEPT ![c] = to]

-----------------------------------------------------------------------------
(* Start                                                                   *)

(* zookeeper_init, whose threads run from now on; or it returns null.      *)
ZookeeperInit(c) ==
    /\ Go(c, "none", "handle")
    /\ UNCHANGED <<sem, context, linked, events, drops, met, posts>>

NoHandle(c) ==
    /\ Go(c, "none", "failed")
    /\ UNCHANGED <<sem, context, linked, events, drops, met, posts>>

(* sem_init(&sem, 0, 0).  (The faulty variant starts from 1.)              *)
StartAtOne(c) == sem' = [sem EXCEPT ![c] = 1]

StartAtZero(c) == sem' = [sem EXCEPT ![c] = 0]

SemInit(c) ==
    /\ Go(c, "handle", "ready")
    /\ StartAtZero(c)
    /\ UNCHANGED <<context, linked, events, drops, met, posts>>

(* zoo_set_context(mZhandle, &sem).                                        *)
SetContext(c) ==
    /\ Go(c, "ready", "waiting")
    /\ context' = [context EXCEPT ![c] = TRUE]
    /\ UNCHANGED <<sem, linked, events, drops, met, posts>>

(* sem_wait(&sem).                                                         *)
SemWait(c) ==
    /\ sem[c] > 0
    /\ Go(c, "waiting", "started")
    /\ sem' = [sem EXCEPT ![c] = @ - 1]
    /\ UNCHANGED <<context, linked, events, drops, met, posts>>

(* ~ZkClient: zookeeper_close stops the library's threads.                 *)
Close(c) ==
    /\ Go(c, "started", "closed")
    /\ linked' = [linked EXCEPT ![c] = FALSE]
    /\ events' = [events EXCEPT ![c] = <<>>]
    /\ UNCHANGED <<sem, context, drops, met, posts>>

-----------------------------------------------------------------------------
(* The library                                                             *)

Connect(c) ==
    /\ Alive
    /\ Open(c)
    /\ ~linked[c]
    /\ linked' = [linked EXCEPT ![c] = TRUE]
    /\ met' = [met EXCEPT ![c] = TRUE]
    /\ events' = [events EXCEPT ![c] = Append(@, "connected")]
    /\ UNCHANGED <<stage, sem, context, drops, posts>>

Drop(c) ==
    /\ Alive
    /\ drops[c] < MaxDrops
    /\ linked[c]
    /\ drops' = [drops EXCEPT ![c] = @ + 1]
    /\ linked' = [linked EXCEPT ![c] = FALSE]
    /\ events' = [events EXCEPT ![c] = Append(@, "connecting")]
    /\ UNCHANGED <<stage, sem, context, met, posts>>

(* globalWatcher posts for a session that is connected, not for one that   *)
(* connects again.  (The faulty variant confuses the two states.)          *)
IsConnecting(e) == e = "connecting"

IsConnected(e) == e = "connected"

(* sem_post through the context: to the semaphore of Start, through null   *)
(* before zoo_set_context, or to what has become of the frame of Start.    *)
Post(c) ==
    LET kind == IF ~context[c] THEN "null"
                ELSE IF stage[c] = "started" THEN "gone" ELSE "live"
    IN  /\ posts' = [posts EXCEPT ![c] = @ \union {kind}]
        /\ sem' = IF kind = "live" THEN [sem EXCEPT ![c] = @ + 1] ELSE sem

Watch(c) ==
    /\ Alive
    /\ events[c] # <<>>
    /\ events' = [events EXCEPT ![c] = Tail(@)]
    /\ IF IsConnected(Head(events[c])) THEN Post(c) ELSE UNCHANGED <<posts, sem>>
    /\ UNCHANGED <<stage, context, linked, drops, met>>

-----------------------------------------------------------------------------

Starting(c) == ZookeeperInit(c) \/ SemInit(c) \/ SetContext(c) \/ SemWait(c)

Over ==
    /\ ~Alive \/ \A c \in Clients : stage[c] = "closed"
    /\ UNCHANGED vars

Next ==
    \/ \E c \in Clients : Starting(c) \/ NoHandle(c) \/ Close(c) \/ Connect(c) \/ Drop(c) \/ Watch(c)
    \/ Over

Spec == Init /\ [][Next]_vars

(* The thread in Start and the library's threads run, and ZooKeeper can be *)
(* reached; without the last Start would wait for ever.                    *)
FairSpec ==
    /\ Spec
    /\ \A c \in Clients : WF_vars(Starting(c)) /\ WF_vars(Watch(c)) /\ WF_vars(Connect(c))

-----------------------------------------------------------------------------
(* Properties                                                              *)

TypeOK ==
    /\ stage \in [Clients -> ClientStages]
    /\ sem \in [Clients -> Nat]
    /\ context \in [Clients -> BOOLEAN]
    /\ linked \in [Clients -> BOOLEAN]
    /\ events \in [Clients -> Seq({"connected", "connecting"})]
    /\ drops \in [Clients -> 0..MaxDrops]
    /\ met \in [Clients -> BOOLEAN]
    /\ posts \in [Clients -> SUBSET {"null", "live", "gone"}]

(* The handle says nothing of the connection (zookeeperutil.cc:42): Start  *)
(* returns only when there has been one.                                   *)
StartedConnected == \A c \in Clients : stage[c] \in {"started", "closed"} => met[c]

(* With ZooKeeper there, Start returns, however its steps and the events   *)
(* of the session fall together.                                           *)
StartEnds == \A c \in Clients : stage[c] # "none" ~> stage[c] \in {"started", "closed"} \/ ~Alive

(* Whenever the watcher is told of a connection it finds the semaphore     *)
(* that Start has created for it (zookeeperutil.cc:25-28, :53): not null   *)
(* before it is there, nor what is left of it after a reconnect.           *)
FindsSemaphore == \A c \in Clients : posts[c] \subseteq {"live"}

=============================================================================
