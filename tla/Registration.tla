---------------------------- MODULE Registration ----------------------------
(***************************************************************************)
(* The registration of services: RpcProvider::Run in several processes,    *)
(* with the znodes that ZkClient::Create makes (src/src/rpcprovider.cc,    *)
(* src/src/zookeeperutil.cc).  A service has a permanent node and each of  *)
(* its methods an ephemeral one that goes with the session of the provider *)
(* that created it, some time after the process, or before it when the     *)
(* connection is away for too long.  ZooKeeper is external.                *)
(***************************************************************************)
EXTENDS Integers, FiniteSets

CONSTANTS
    Providers,      \* the processes, each with one address
    Services,       \* service paths
    Methods,        \* method paths
    ServiceOf,      \* ServiceOf[m]: the service of method m
    Offers,         \* Offers[p]: the services p publishes
    NoPath,
    MaxSessions,    \* bound: sessions in a behaviour
    MaxCrashes,     \* bound: crashes in a behaviour
    MaxLosses       \* bound: lost connections in a behaviour

Paths == Services \union Methods

ASSUME PathAssumption == /\ Services \intersect Methods = {}
                         /\ NoPath \notin Paths \union Providers
                         /\ ServiceOf \in [Methods -> Services]
                         /\ Offers \in [Providers -> SUBSET Services]
ASSUME BoundAssumption == MaxSessions \in Nat /\ MaxCrashes \in Nat /\ MaxLosses \in Nat

VARIABLES
    stage,     \* how far each provider is in Run
    session,   \* session[p]: the number of its ZooKeeper session, or 0
    path,      \* path[p]: what Create found missing and is about to create
    done,      \* done[p]: the paths p has gone through
    nodes,     \* the znodes: path -> [owner, session], session 0 if permanent
    expired,   \* sessions that have ended
    sessions,  \* sessions so far
    crashes,   \* crashes so far
    losses     \* connections lost so far

runVars == <<stage, session, path, done>>
vars == <<runVars, nodes, expired, sessions, crashes, losses>>

(*   down       not running                                                *)
(*   register   in the two loops of Run, before the next Create            *)
(*   create     in Create, between zoo_exists and zoo_create               *)
(*   serving    server.start() and the event loop                          *)
(*   failed     exit(EXIT_FAILURE) in Create                               *)
RunStages == {"down", "register", "create", "serving", "failed"}

Absent == [owner |-> NoPath, session |-> 0]

Exists(x) == nodes[x] # Absent

MethodsOf(s) == {m \in Methods : ServiceOf[m] = s}

PathsOf(p) == Offers[p] \union UNION {MethodsOf(s) : s \in Offers[p]}

(* The loops go through the services in the order of the map, and after    *)
(* each service through its methods.  (The faulty variant creates methods  *)
(* and services in any order.)                                             *)
AnyOf(p) == PathsOf(p) \ done[p]

NextOf(p) ==
    LET pending == {m \in Methods : ServiceOf[m] \in done[p] /\ m \notin done[p]}
    IN  IF pending # {} THEN pending ELSE Offers[p] \ done[p]

Init ==
    /\ stage = [p \in Providers |-> "down"]
    /\ session = [p \in Providers |-> 0]
    /\ path = [p \in Providers |-> NoPath]
    /\ done = [p \in Providers |-> {}]
    /\ nodes = [x \in Paths |-> Absent]
    /\ expired = {}
    /\ sessions = 0
    /\ crashes = 0
    /\ losses = 0

-----------------------------------------------------------------------------
(* Run                                                                     *)

(* Run reaches the loops with a session of its own.                        *)
Run(p) ==
    /\ stage[p] = "down"
    /\ sessions < MaxSessions
    /\ sessions' = sessions + 1
    /\ session' = [session EXCEPT ![p] = sessions + 1]
    /\ stage' = [stage EXCEPT ![p] = "register"]
    /\ UNCHANGED <<path, done, nodes, expired, crashes, losses>>

Linked(p) == session[p] \notin expired

(* A call to ZooKeeper is not answered: the session has expired, or the    *)
(* connection is lost now.                                                 *)
LosesConnection ==
    /\ losses < MaxLosses
    /\ losses' = losses + 1

Unanswered(p) ==
    \/ ~Linked(p) /\ UNCHANGED losses
    \/ LosesConnection

(* zoo_exists says that there is a node: Create returns.                   *)
Found(p) ==
    /\ stage[p] = "register"
    /\ Linked(p)
    /\ \E x \in NextOf(p) :
          /\ Exists(x)
          /\ done' = [done EXCEPT ![p] = @ \union {x}]
    /\ UNCHANGED <<stage, session, path, nodes, expired, sessions, crashes, losses>>

(* zoo_exists fails otherwise than with ZNONODE: Create returns as well.   *)
ExistsFails(p) ==
    /\ stage[p] = "register"
    /\ Unanswered(p)
    /\ \E x \in NextOf(p) : done' = [done EXCEPT ![p] = @ \union {x}]
    /\ UNCHANGED <<stage, session, path, nodes, expired, sessions, crashes>>

(* zoo_exists says that there is none.  (The faulty variant does not ask.) *)
MissingOrNot(p) ==
    /\ stage[p] = "register"
    /\ Linked(p)
    /\ \E x \in NextOf(p) : path' = [path EXCEPT ![p] = x]
    /\ stage' = [stage EXCEPT ![p] = "create"]
    /\ UNCHANGED <<session, done, nodes, expired, sessions, crashes, losses>>

Missing(p) ==
    /\ stage[p] = "register"
    /\ Linked(p)
    /\ \E x \in NextOf(p) :
          /\ ~Exists(x)
          /\ path' = [path EXCEPT ![p] = x]
    /\ stage' = [stage EXCEPT ![p] = "create"]
    /\ UNCHANGED <<session, done, nodes, expired, sessions, crashes, losses>>

(* The flags that Run passes: services are permanent, methods ephemeral.   *)
(* (The faulty variant has them all permanent.)                            *)
Permanent(x, s) == 0

Lifetime(x, s) == IF x \in Methods THEN s ELSE 0

(* ZooKeeper creates a node that is not there, under a parent that is.     *)
CanCreate(x) == ~Exists(x) /\ (x \in Methods => Exists(ServiceOf[x]))

Make(p, x) ==
    nodes' = [nodes EXCEPT ![x] = [owner |-> p, session |-> Lifetime(x, session[p])]]

Created(p) ==
    /\ stage[p] = "create"
    /\ Linked(p)
    /\ CanCreate(path[p])
    /\ Make(p, path[p])
    /\ done' = [done EXCEPT ![p] = @ \union {path[p]}]
    /\ path' = [path EXCEPT ![p] = NoPath]
    /\ stage' = [stage EXCEPT ![p] = "register"]
    /\ UNCHANGED <<session, expired, sessions, crashes, losses>>

(* zoo_create is refused: exit(EXIT_FAILURE).                              *)
Refused(p) ==
    /\ stage[p] = "create"
    /\ Linked(p)
    /\ ~CanCreate(path[p])
    /\ stage' = [stage EXCEPT ![p] = "failed"]
    /\ UNCHANGED <<session, path, done, nodes, expired, sessions, crashes, losses>>

(* zoo_create is not answered, and the node may have been made: exit.      *)
CreateFails(p) ==
    /\ stage[p] = "create"
    /\ Unanswered(p)
    /\ \/ UNCHANGED nodes
       \/ Linked(p) /\ CanCreate(path[p]) /\ Make(p, path[p])
    /\ stage' = [stage EXCEPT ![p] = "failed"]
    /\ UNCHANGED <<session, path, done, expired, sessions, crashes>>

(* All is registered, and the server starts.  (The faulty variant starts   *)
(* it without waiting for the loops.)                                      *)
ServeEarly(p) ==
    /\ stage[p] = "register"
    /\ stage' = [stage EXCEPT ![p] = "serving"]
    /\ UNCHANGED <<session, path, done, nodes, expired, sessions, crashes, losses>>

Serve(p) ==
    /\ stage[p] = "register"
    /\ NextOf(p) = {}
    /\ stage' = [stage EXCEPT ![p] = "serving"]
    /\ UNCHANGED <<session, path, done, nodes, expired, sessions, crashes, losses>>

-----------------------------------------------------------------------------
(* The environment                                                         *)

(* The process is killed, or has exited and will be started again.         *)
Stop(p) ==
    /\ stage[p] # "down"
    /\ stage[p] # "failed" => crashes < MaxCrashes
    /\ crashes' = IF stage[p] # "failed" THEN crashes + 1 ELSE crashes
    /\ stage' = [stage EXCEPT ![p] = "down"]
    /\ session' = [session EXCEPT ![p] = 0]
    /\ path' = [path EXCEPT ![p] = NoPath]
    /\ done' = [done EXCEPT ![p] = {}]
    /\ UNCHANGED <<nodes, expired, sessions, losses>>

(* A session times out, and its nodes with it: its process is gone, or     *)
(* without a connection for too long.                                      *)
Expire(s) ==
    /\ s \notin expired
    /\ IF \E p \in Providers : session[p] = s /\ stage[p] # "failed"
       THEN LosesConnection
       ELSE UNCHANGED losses
    /\ expired' = expired \union {s}
    /\ nodes' = [x \in Paths |-> IF nodes[x].session = s THEN Absent ELSE nodes[x]]
    /\ UNCHANGED <<runVars, sessions, crashes>>

Over ==
    /\ \A p \in Providers : stage[p] \in {"serving", "down"}
    /\ UNCHANGED vars

Running(p) ==
    \/ Found(p) \/ Missing(p) \/ ExistsFails(p)
    \/ Created(p) \/ Refused(p) \/ CreateFails(p)
    \/ Serve(p)

Next ==
    \/ \E p \in Providers : Run(p) \/ Running(p) \/ Stop(p)
    \/ \E s \in 1..sessions : Expire(s)
    \/ Over

Spec == Init /\ [][Next]_vars

-----------------------------------------------------------------------------
(* Properties                                                              *)

TypeOK ==
    /\ stage \in [Providers -> RunStages]
    /\ session \in [Providers -> 0..MaxSessions]
    /\ \A p \in Providers : stage[p] # "down" => session[p] \in 1..sessions
    /\ path \in [Providers -> Paths \union {NoPath}]
    /\ done \in [Providers -> SUBSET Paths]
    /\ nodes \in [Paths -> [owner : Providers \union {NoPath}, session : 0..MaxSessions]]
    /\ expired \subseteq 1..MaxSessions
    /\ sessions \in 0..MaxSessions
    /\ crashes \in 0..MaxCrashes
    /\ losses \in 0..MaxLosses

(* As long as no connection is lost, no create fails for want of a parent: *)
(* the node of a service is there before those of its methods, whoever     *)
(* made it, and whatever has expired since.                                *)
ParentThere ==
    losses = 0 =>
        \A p \in Providers :
            stage[p] \in {"create", "failed"} /\ path[p] \in Methods => Exists(ServiceOf[path[p]])

(* A method is listed at most as long as the session of its provider, so   *)
(* that a provider that is gone is forgotten in the end.                   *)
NoGhost == \A m \in Methods : Exists(m) => nodes[m].session \in (1..sessions) \ expired

(* Only the end of a session, or a connection lost while it registers,     *)
(* takes a serving provider off the list: until then whoever serves is     *)
(* listed with all that it offers, though providers start together, find   *)
(* one another's nodes, and start again.                                   *)
ListedUntilExpiry ==
    expired = {} /\ losses = 0 =>
        \A p \in Providers : stage[p] = "serving" => \A x \in PathsOf(p) : Exists(x)

(* Two providers may both find a node missing, and the one that creates it *)
(* later exits.  But they do not all drive each other out: while no        *)
(* connection is lost, one of them is not failed.                          *)
SomeoneStays == losses = 0 /\ Providers # {} => \E p \in Providers : stage[p] # "failed"

(* A provider that serves can be discovered (rpcprovider.cc:99): each of   *)
(* its methods is listed.                                                  *)
Discoverable ==
    \A p \in Providers : stage[p] = "serving" => \A x \in PathsOf(p) : Exists(x)

=============================================================================
