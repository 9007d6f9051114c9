------------------------- MODULE RegistrationProofs -------------------------
(***************************************************************************)
(* Theorems about the registration, for any providers, services, methods   *)
(* and offers, and any number of sessions, crashes and lost connections.   *)
(***************************************************************************)
EXTENDS Registration, TLAPS

(* A session has ended only if it has begun.                               *)
ExpiredBegun == expired \subseteq 1..sessions

(* The nodes of services belong to no session.                             *)
ServicesStay == \A s \in Services : nodes[s].session = 0

(* What is created is a path, and its service has been gone through.       *)
PathReady ==
    \A p \in Providers :
        /\ stage[p] = "create" => path[p] \in Paths
        /\ path[p] \in Methods => ServiceOf[path[p]] \in done[p]

ServedDone == \A p \in Providers : stage[p] = "serving" => PathsOf(p) \subseteq done[p]

(* While no connection has been lost, sessions outlive their processes,    *)
(* the services gone through are there, and so is all that has been gone   *)
(* through until the first session ends.                                   *)
LiveLinked ==
    losses = 0 => \A p \in Providers : stage[p] \notin {"down", "failed"} => Linked(p)

ServiceThere ==
    losses = 0 => \A p \in Providers : \A s \in Services \intersect done[p] : Exists(s)

DoneThere ==
    expired = {} /\ losses = 0 => \A p \in Providers : \A x \in done[p] : Exists(x)

IInv ==
    /\ TypeOK /\ ExpiredBegun /\ NoGhost /\ ServicesStay /\ PathReady
    /\ ServedDone /\ LiveLinked /\ ServiceThere /\ DoneThere

USE PathAssumption, BoundAssumption

(* The invariant holds at first.                                           *)
LEMMA InitInv == Init => IInv
<1> SUFFICES ASSUME Init PROVE IInv
  OBVIOUS
<1>1. TypeOK
  BY DEF Init, TypeOK, RunStages, Absent
<1>2. ExpiredBegun /\ NoGhost /\ ServicesStay
  BY DEF Init, ExpiredBegun, NoGhost, ServicesStay, Exists, Absent, Paths
<1>3. PathReady /\ ServedDone /\ LiveLinked /\ ServiceThere /\ DoneThere
  BY DEF Init, PathReady, ServedDone, LiveLinked, ServiceThere, DoneThere, Paths
<1> QED
  BY <1>1, <1>2, <1>3 DEF IInv

(* The loops come to paths, and to a method after its service.             *)
LEMMA NextOfPath ==
  ASSUME NEW p \in Providers, NEW x \in NextOf(p), TypeOK
  PROVE  /\ x \in Paths
         /\ x \in Methods => ServiceOf[x] \in done[p]
  BY DEF NextOf, Paths

(* ... and come to an end when they have gone through all that is offered. *)
LEMMA NextOfNone ==
  ASSUME NEW p \in Providers, TypeOK, NextOf(p) = {}
  PROVE  PathsOf(p) \subseteq done[p]
<1>1. Offers[p] \subseteq done[p]
  BY DEF NextOf
<1>2. ASSUME NEW m \in Methods, ServiceOf[m] \in done[p] PROVE m \in done[p]
  BY <1>2 DEF NextOf
<1> QED
  BY <1>1, <1>2 DEF PathsOf, MethodsOf

(* A node is made where there was none, by a live session.                 *)
LEMMA MakeNode ==
  ASSUME IInv, NEW p \in Providers, NEW x \in Paths, stage[p] = "create", Linked(p), Make(p, x),
         UNCHANGED <<expired, sessions>>
  PROVE  /\ nodes' \in [Paths -> [owner : Providers \union {NoPath}, session : 0..MaxSessions]]
         /\ NoGhost' /\ ServicesStay'
         /\ \A y \in Paths : Exists(y) => Exists(y)'
         /\ Exists(x)'
<1> DEFINE new == [owner |-> p, session |-> Lifetime(x, session[p])]
<1>1. session[p] \in 1..sessions /\ session[p] \notin expired
  BY DEF IInv, TypeOK, Linked
<1>2. sessions \in 0..MaxSessions
  BY DEF IInv, TypeOK
<1>3. Lifetime(x, session[p]) \in 0..MaxSessions
  BY <1>1, <1>2 DEF Lifetime
<1>4. nodes' = [nodes EXCEPT ![x] = new]
  BY DEF Make
<1>5. nodes' \in [Paths -> [owner : Providers \union {NoPath}, session : 0..MaxSessions]]
  BY <1>3, <1>4 DEF IInv, TypeOK
<1>6. nodes'[x] = new /\ \A y \in Paths \ {x} : nodes'[y] = nodes[y]
  BY <1>1, <1>4 DEF IInv, TypeOK
<1>7. new # Absent /\ new.session = Lifetime(x, session[p])
  BY DEF Absent
<1>8. Exists(x)' /\ \A y \in Paths : Exists(y) => Exists(y)'
  BY <1>6, <1>7 DEF Exists, Absent
<1>9. NoGhost'
  BY <1>1, <1>6, <1>7 DEF IInv, NoGhost, Exists, Absent, Lifetime, Paths
<1>10. ServicesStay'
  BY <1>1, <1>6, <1>7 DEF IInv, ServicesStay, Lifetime, Paths
<1> QED
  BY <1>5, <1>8, <1>9, <1>10

(* It is kept when a provider begins Run.                                  *)
LEMMA RunInv == ASSUME IInv, NEW p \in Providers, Run(p) PROVE IInv'
<1>1. TypeOK'
  BY DEF IInv, Run, TypeOK, RunStages
<1>2. ExpiredBegun' /\ NoGhost' /\ ServicesStay'
  BY DEF IInv, Run, TypeOK, ExpiredBegun, NoGhost, ServicesStay, Exists, Absent
<1>3. PathReady' /\ ServedDone'
  BY DEF IInv, Run, TypeOK, PathReady, ServedDone, PathsOf
<1>4. sessions + 1 \notin expired
  BY DEF IInv, TypeOK, ExpiredBegun
<1>5. LiveLinked'
  BY <1>4 DEF IInv, Run, TypeOK, LiveLinked, Linked
<1>6. ServiceThere' /\ DoneThere'
  BY DEF IInv, Run, ServiceThere, DoneThere, Exists, Absent
<1> QED
  BY <1>1, <1>2, <1>3, <1>5, <1>6 DEF IInv

(* Create returns without having created anything.                         *)
LEMMA PassInv ==
  ASSUME IInv, NEW p \in Providers, Found(p) \/ ExistsFails(p)
  PROVE  IInv'
<1>1. PICK x \in NextOf(p) : done' = [done EXCEPT ![p] = @ \union {x}]
  BY DEF Found, ExistsFails
<1>2. x \in Paths
  BY <1>1, NextOfPath DEF IInv
<1>3. stage[p] = "register" /\ UNCHANGED <<stage, session, path, nodes, expired, sessions, crashes>>
  BY DEF Found, ExistsFails
<1>4. losses' \in 0..MaxLosses /\ (losses' = 0 => losses = 0)
  BY DEF IInv, TypeOK, Found, ExistsFails, Unanswered, LosesConnection
<1>5. TypeOK'
  BY <1>1, <1>2, <1>3, <1>4 DEF IInv, TypeOK
<1>6. ExpiredBegun' /\ NoGhost' /\ ServicesStay'
  BY <1>3 DEF IInv, ExpiredBegun, NoGhost, ServicesStay, Exists, Absent
<1>7. PathReady' /\ ServedDone'
  BY <1>1, <1>3 DEF IInv, TypeOK, PathReady, ServedDone, PathsOf
<1>8. LiveLinked'
  BY <1>3, <1>4 DEF IInv, LiveLinked, Linked
<1>9. losses' = 0 => \E y \in NextOf(p) : done' = [done EXCEPT ![p] = @ \union {y}] /\ Exists(y)
  <2>1. CASE Found(p)
    BY <2>1 DEF Found
  <2>2. CASE ExistsFails(p)
    BY <1>3, <2>2 DEF IInv, TypeOK, LiveLinked, ExistsFails, Unanswered, LosesConnection
  <2> QED
    BY <2>1, <2>2
<1>10. ServiceThere'
  <2> SUFFICES ASSUME losses' = 0, NEW q \in Providers, NEW s \in Services \intersect done'[q]
               PROVE  Exists(s)'
    BY DEF ServiceThere
  <2>1. PICK y \in NextOf(p) : done' = [done EXCEPT ![p] = @ \union {y}] /\ Exists(y)
    BY <1>9
  <2>2. s \in done[q] \/ s = y
    BY <2>1 DEF IInv, TypeOK
  <2> QED
    BY <1>3, <1>4, <2>1, <2>2 DEF IInv, ServiceThere, Exists, Absent
<1>11. DoneThere'
  <2> SUFFICES ASSUME expired' = {}, losses' = 0, NEW q \in Providers, NEW z \in done'[q]
               PROVE  Exists(z)'
    BY DEF DoneThere
  <2>1. PICK y \in NextOf(p) : done' = [done EXCEPT ![p] = @ \union {y}] /\ Exists(y)
    BY <1>9
  <2>2. z \in done[q] \/ z = y
    BY <2>1 DEF IInv, TypeOK
  <2> QED
    BY <1>3, <1>4, <2>1, <2>2 DEF IInv, DoneThere, Exists, Absent
<1> QED
  BY <1>5, <1>6, <1>7, <1>8, <1>10, <1>11 DEF IInv

(* When the node to be created is missing.                                 *)
LEMMA MissingInv == ASSUME IInv, NEW p \in Providers, Missing(p) PROVE IInv'
<1>1. PICK x \in NextOf(p) : path' = [path EXCEPT ![p] = x]
  BY DEF Missing
<1>2. x \in Paths /\ (x \in Methods => ServiceOf[x] \in done[p])
  BY <1>1, NextOfPath DEF IInv
<1>3. TypeOK'
  BY <1>1, <1>2 DEF IInv, Missing, TypeOK, RunStages
<1>4. ExpiredBegun' /\ NoGhost' /\ ServicesStay' /\ ServiceThere' /\ DoneThere'
  BY DEF IInv, Missing, ExpiredBegun, NoGhost, ServicesStay, ServiceThere, DoneThere, Exists, Absent
<1>5. PathReady'
  BY <1>1, <1>2 DEF IInv, Missing, TypeOK, PathReady
<1>6. ServedDone' /\ LiveLinked'
  BY DEF IInv, Missing, TypeOK, ServedDone, LiveLinked, Linked, PathsOf
<1> QED
  BY <1>3, <1>4, <1>5, <1>6 DEF IInv

(* When Create has made its node.                                          *)
LEMMA CreatedInv == ASSUME IInv, NEW p \in Providers, Created(p) PROVE IInv'
<1>1. PICK x \in Paths : x = path[p]
  BY DEF IInv, PathReady, Created
<1>2. /\ nodes' \in [Paths -> [owner : Providers \union {NoPath}, session : 0..MaxSessions]]
      /\ NoGhost' /\ ServicesStay'
      /\ \A y \in Paths : Exists(y) => Exists(y)'
      /\ Exists(x)'
  BY <1>1, MakeNode DEF Created
<1>3. \A q \in Providers : done'[q] \subseteq done[q] \union {x} /\ done[q] \subseteq done'[q]
  BY <1>1 DEF Created, IInv, TypeOK
<1>4. TypeOK'
  BY <1>1, <1>2 DEF IInv, Created, TypeOK, RunStages
<1>5. ExpiredBegun'
  BY DEF IInv, Created, ExpiredBegun
<1>6. PathReady'
  BY <1>1, <1>3 DEF IInv, Created, TypeOK, PathReady, Paths
<1>7. ServedDone' /\ LiveLinked'
  BY <1>3 DEF IInv, Created, TypeOK, ServedDone, LiveLinked, Linked, PathsOf
<1>8. ServiceThere'
  BY <1>2, <1>3 DEF IInv, Created, ServiceThere, Paths
<1>9. \A q \in Providers : done[q] \subseteq Paths
  BY DEF IInv, TypeOK
<1>10. DoneThere'
  BY <1>2, <1>3, <1>9 DEF IInv, Created, DoneThere
<1> QED
  BY <1>2, <1>4, <1>5, <1>6, <1>7, <1>8, <1>10 DEF IInv

(* When Create fails or is refused, and the provider exits.                *)
LEMMA FailInv ==
  ASSUME IInv, NEW p \in Providers, Refused(p) \/ CreateFails(p)
  PROVE  IInv'
<1>1. /\ stage[p] = "create" /\ stage' = [stage EXCEPT ![p] = "failed"]
      /\ UNCHANGED <<session, path, done, expired, sessions, crashes>>
  BY DEF Refused, CreateFails
<1>2. losses' \in 0..MaxLosses /\ (losses' = 0 => losses = 0)
  BY DEF IInv, TypeOK, Refused, CreateFails, Unanswered, LosesConnection
<1>3. /\ nodes' \in [Paths -> [owner : Providers \union {NoPath}, session : 0..MaxSessions]]
      /\ NoGhost' /\ ServicesStay'
      /\ \A y \in Paths : Exists(y) => Exists(y)'
  <2>1. CASE UNCHANGED nodes
    BY <1>1, <2>1 DEF IInv, TypeOK, NoGhost, ServicesStay, Exists, Absent
  <2>2. CASE Linked(p) /\ Make(p, path[p])
    <3>1. PICK x \in Paths : x = path[p]
      BY <1>1 DEF IInv, PathReady
    <3> QED
      BY <1>1, <2>2, <3>1, MakeNode
  <2> QED
    BY <2>1, <2>2 DEF Refused, CreateFails
<1>4. TypeOK'
  BY <1>1, <1>2, <1>3 DEF IInv, TypeOK, RunStages
<1>5. ExpiredBegun' /\ PathReady' /\ ServedDone' /\ LiveLinked'
  BY <1>1, <1>2 DEF IInv, TypeOK, ExpiredBegun, PathReady, ServedDone, LiveLinked, Linked, PathsOf
<1>6. ServiceThere'
  BY <1>1, <1>2, <1>3 DEF IInv, ServiceThere, Paths
<1>7. \A q \in Providers : done[q] \subseteq Paths
  BY DEF IInv, TypeOK
<1>8. DoneThere'
  BY <1>1, <1>2, <1>3, <1>7 DEF IInv, DoneThere
<1> QED
  BY <1>3, <1>4, <1>5, <1>6, <1>8 DEF IInv

(* When all paths are gone through and the provider serves.                *)
LEMMA ServeInv == ASSUME IInv, NEW p \in Providers, Serve(p) PROVE IInv'
<1>1. PathsOf(p) \subseteq done[p]
  BY NextOfNone DEF IInv, Serve
<1>2. TypeOK'
  BY DEF IInv, Serve, TypeOK, RunStages
<1>3. ExpiredBegun' /\ NoGhost' /\ ServicesStay' /\ ServiceThere' /\ DoneThere'
  BY DEF IInv, Serve, ExpiredBegun, NoGhost, ServicesStay, ServiceThere, DoneThere, Exists, Absent
<1>4. PathReady' /\ LiveLinked'
  BY DEF IInv, Serve, TypeOK, PathReady, LiveLinked, Linked
<1>5. ServedDone'
  BY <1>1 DEF IInv, Serve, TypeOK, ServedDone, PathsOf
<1> QED
  BY <1>2, <1>3, <1>4, <1>5 DEF IInv

(* When a provider stops.                                                  *)
LEMMA StopInv == ASSUME IInv, NEW p \in Providers, Stop(p) PROVE IInv'
<1>1. TypeOK'
  BY DEF IInv, Stop, TypeOK, RunStages
<1>2. ExpiredBegun' /\ NoGhost' /\ ServicesStay'
  BY DEF IInv, Stop, ExpiredBegun, NoGhost, ServicesStay, Exists, Absent
<1>3. PathReady' /\ ServedDone' /\ LiveLinked'
  BY DEF IInv, Stop, TypeOK, PathReady, ServedDone, LiveLinked, Linked, PathsOf, Paths
<1>4. \A q \in Providers : done'[q] \subseteq done[q]
  BY DEF IInv, Stop, TypeOK
<1>5. ServiceThere' /\ DoneThere'
  BY <1>4 DEF IInv, Stop, ServiceThere, DoneThere, Exists, Absent
<1> QED
  BY <1>1, <1>2, <1>3, <1>5 DEF IInv

(* When a session ends and takes its nodes along.                          *)
LEMMA ExpireInv == ASSUME IInv, NEW s \in 1..sessions, Expire(s) PROVE IInv'
<1>1. losses' \in 0..MaxLosses /\ (losses' = 0 => losses = 0)
  BY DEF IInv, TypeOK, Expire, LosesConnection
<1>2. s \in 1..MaxSessions
  BY DEF IInv, TypeOK
<1>3. nodes' \in [Paths -> [owner : Providers \union {NoPath}, session : 0..MaxSessions]]
  BY DEF IInv, TypeOK, Expire, Absent
<1>4. TypeOK'
  BY <1>1, <1>2, <1>3 DEF IInv, TypeOK, Expire, runVars
<1>5. ExpiredBegun'
  BY DEF IInv, ExpiredBegun, Expire
<1>6. \A x \in Paths : nodes'[x] = IF nodes[x].session = s THEN Absent ELSE nodes[x]
  BY DEF Expire
<1>7. NoGhost'
  BY <1>6 DEF IInv, NoGhost, Expire, Exists, Absent, Paths
<1>8. ServicesStay' /\ \A x \in Services : Exists(x) => Exists(x)'
  BY <1>6, <1>2 DEF IInv, ServicesStay, Exists, Absent, Paths
<1>9. PathReady' /\ ServedDone'
  BY DEF IInv, Expire, runVars, PathReady, ServedDone, PathsOf
<1>10. LiveLinked'
  BY DEF IInv, TypeOK, Expire, LosesConnection, runVars, LiveLinked, Linked
<1>11. ServiceThere'
  BY <1>1, <1>8 DEF IInv, Expire, runVars, ServiceThere
<1>12. DoneThere'
  BY DEF Expire, DoneThere
<1> QED
  BY <1>4, <1>5, <1>7, <1>8, <1>9, <1>10, <1>11, <1>12 DEF IInv

(* Every step keeps the invariant.                                         *)
LEMMA NextInv == IInv /\ [Next]_vars => IInv'
<1> SUFFICES ASSUME IInv, [Next]_vars PROVE IInv'
  OBVIOUS
<1>1. ASSUME NEW p \in Providers, Running(p) PROVE IInv'
  BY <1>1, PassInv, MissingInv, CreatedInv, FailInv, ServeInv DEF Running
<1>2. ASSUME UNCHANGED vars PROVE IInv'
  BY <1>2 DEF vars, runVars, IInv, TypeOK, ExpiredBegun, NoGhost, ServicesStay, PathReady,
              ServedDone, LiveLinked, ServiceThere, DoneThere, Linked, Exists, Absent, PathsOf
<1> QED
  BY <1>1, <1>2, RunInv, StopInv, ExpireInv DEF Next, Over

(* No create fails for want of a parent, however providers and expiries    *)
(* interleave, unless a connection is lost (rpcprovider.cc:104-117).       *)
THEOREM ParentThereHolds == Spec => []ParentThere
<1>1. IInv => ParentThere
  BY DEF IInv, ParentThere, PathReady, ServiceThere, TypeOK
<1> QED
  BY <1>1, InitInv, NextInv, PTL DEF Spec

(* The nodes of methods go with the session of their provider              *)
(* (rpcprovider.cc:116), whenever it ends.                                 *)
THEOREM NoGhostHolds == Spec => []NoGhost
<1>1. IInv => NoGhost
  BY DEF IInv
<1> QED
  BY <1>1, InitInv, NextInv, PTL DEF Spec

(* Until a session ends or a connection is lost, every provider that       *)
(* serves is listed with all that it offers (rpcprovider.cc:104-121).      *)
THEOREM ListedUntilExpiryHolds == Spec => []ListedUntilExpiry
<1>1. IInv => ListedUntilExpiry
  BY DEF IInv, ListedUntilExpiry, ServedDone, DoneThere
<1> QED
  BY <1>1, InitInv, NextInv, PTL DEF Spec

(* Whoever has created the last node is not failed, and will not be        *)
(* refused the node it is about to create.                                 *)
LastStays ==
    losses = 0 /\ Providers # {} =>
        \E p \in Providers : stage[p] # "failed" /\ (stage[p] = "create" => ~Exists(path[p]))

(* Every step leaves some provider that has not failed.                    *)
LEMMA LastStaysNext == IInv /\ LastStays /\ [Next]_vars => LastStays'
<1> SUFFICES ASSUME IInv, LastStays, [Next]_vars, losses' = 0, Providers # {}
             PROVE  \E p \in Providers :
                        stage'[p] # "failed" /\ (stage'[p] = "create" => ~Exists(path[p])')
  BY DEF LastStays
<1> DEFINE Stays(r) == stage[r] # "failed" /\ (stage[r] = "create" => ~Exists(path[r]))
<1>1. losses = 0 /\ stage \in [Providers -> RunStages]
  <2>1. losses \in Nat
    BY DEF IInv, TypeOK
  <2> QED
    BY <2>1 DEF IInv, TypeOK, Next, Run, Running, Found, Missing, ExistsFails, Created, Refused,
       CreateFails, Serve, Stop, Expire, Over, vars, runVars, Unanswered, LosesConnection
<1>2. PICK r \in Providers : Stays(r)
  BY <1>1 DEF LastStays
<1>3. ASSUME NEW p \in Providers, Created(p) PROVE stage'[p] = "register"
  BY <1>1, <1>3 DEF Created
<1>4. ASSUME NEW p \in Providers, Run(p) \/ Found(p) \/ ExistsFails(p) \/ Serve(p) \/ Stop(p)
      PROVE  Stays(r)'
  BY <1>1, <1>2, <1>4
  DEF IInv, TypeOK, Run, Found, ExistsFails, Serve, Stop, Exists, Absent
<1>5. ASSUME NEW p \in Providers, Missing(p) PROVE Stays(r)'
  BY <1>1, <1>2, <1>5 DEF IInv, TypeOK, Missing, Exists, Absent
<1>6. ASSUME NEW p \in Providers, Refused(p) PROVE Stays(r)'
  <2>1. p # r
    BY <1>1, <1>2, <1>6 DEF IInv, Refused, CanCreate, PathReady, ServiceThere, TypeOK
  <2> QED
    BY <1>1, <1>2, <1>6, <2>1 DEF Refused, Exists, Absent
<1>7. ASSUME NEW p \in Providers, CreateFails(p) PROVE FALSE
  BY <1>1, <1>7 DEF IInv, CreateFails, Unanswered, LosesConnection, LiveLinked
<1>8. ASSUME NEW s \in 1..sessions, Expire(s) PROVE Stays(r)'
  <2>1. \A x \in Paths : Exists(x)' => Exists(x)
    BY <1>8 DEF Expire, Exists, Absent
  <2> QED
    BY <1>2, <1>8, <2>1 DEF IInv, PathReady, Expire, runVars
<1>9. ASSUME UNCHANGED vars PROVE Stays(r)'
  BY <1>2, <1>9 DEF vars, runVars, Exists, Absent
<1> QED
  BY <1>2, <1>3, <1>4, <1>5, <1>6, <1>7, <1>8, <1>9 DEF Next, Running, Over

(* While no connection is lost, providers that race for nodes do not all   *)
(* drive each other out: one is not failed (zookeeperutil.cc:63-99).       *)
THEOREM SomeoneStaysHolds == Spec => []SomeoneStays
<1>1. Init => LastStays
  BY DEF Init, LastStays
<1>2. LastStays => SomeoneStays
  BY DEF LastStays, SomeoneStays
<1> QED
  BY <1>1, <1>2, InitInv, NextInv, LastStaysNext, PTL DEF Spec

=============================================================================
