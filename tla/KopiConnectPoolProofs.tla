----------------------- MODULE KopiConnectPoolProofs -----------------------
(***************************************************************************)
(* Theorems about the connection pool, for every set of threads, nodes and *)
(* descriptors and every limit.                                            *)
(***************************************************************************)
EXTENDS KopiConnectPool, FiniteSetTheorems, SequenceTheorems, TLAPS

-----------------------------------------------------------------------------
(* Type correctness                                                        *)

(* The types hold at first.                                                *)
LEMMA TypeInit == Init => TypeOK
  BY NullAssumption DEF Init, TypeOK, Stages

(* A thread leaves the pool: it becomes idle, unbound and without a         *)
(* descriptor, and of the others at most a sleeping one is woken.           *)
LEMMA LeaveType ==
  ASSUME TypeOK, NEW t \in Threads,
         pc' \in [Threads -> Stages],
         node' \in [Threads -> Nodes \union {NoNode}],
         fd' \in [Threads -> Fds \union {NoFd}],
         pc'[t] = "idle", node'[t] = NoNode, fd'[t] = NoFd,
         \A u \in Threads \ {t} : /\ node'[u] = node[u] /\ fd'[u] = fd[u]
                                 /\ \/ pc'[u] = pc[u]
                                    \/ pc[u] = "waiting" /\ pc'[u] = "notified"
  PROVE  \A u \in Threads : /\ fd'[u] # NoFd <=> pc'[u] \in {"connecting", "holding"}
                           /\ node'[u] # NoNode <=> pc'[u] # "idle"
<1> SUFFICES ASSUME NEW u \in Threads
             PROVE  /\ fd'[u] # NoFd <=> pc'[u] \in {"connecting", "holding"}
                    /\ node'[u] # NoNode <=> pc'[u] # "idle"
  OBVIOUS
<1>1. CASE u = t
  BY <1>1
<1>2. CASE u # t
  <2>1. /\ fd[u] # NoFd <=> pc[u] \in {"connecting", "holding"}
        /\ node[u] # NoNode <=> pc[u] # "idle"
    BY DEF TypeOK
  <2>2. QED
    BY <1>2, <2>1
<1>3. QED
  BY <1>1, <1>2

(* Every step keeps the types.                                             *)
LEMMA TypeNext == TypeOK /\ [Next]_vars => TypeOK'
<1> SUFFICES ASSUME TypeOK, [Next]_vars PROVE TypeOK'
  OBVIOUS
<1> USE NullAssumption DEF TypeOK, Stages
<1>1. ASSUME NEW t \in Threads, NEW n \in Nodes, BorrowConnection(t, n)
      PROVE  TypeOK'
  BY <1>1 DEF BorrowConnection, FindBucket
<1>2. ASSUME NEW t \in Threads, TakeFree(t), pc[t] \in {"locking", "notified", "timedout"}
      PROVE  TypeOK'
  BY <1>2 DEF TakeFree, PopFree
<1>3. ASSUME NEW t \in Threads, BorrowReserve(t)
      PROVE  TypeOK'
  BY <1>3 DEF BorrowReserve
<1>4. ASSUME NEW t \in Threads, BorrowWait(t)
      PROVE  TypeOK'
  BY <1>4 DEF BorrowWait
<1>5. ASSUME NEW t \in Threads, Socket(t)
      PROVE  TypeOK'
  BY <1>5 DEF Socket
<1>6. ASSUME NEW t \in Threads, SocketFails(t)
      PROVE  TypeOK'
  BY <1>6 DEF SocketFails
<1>7. ASSUME NEW t \in Threads, ConnectOk(t)
      PROVE  TypeOK'
  BY <1>7 DEF ConnectOk
<1>8. ASSUME NEW t \in Threads, ConnectFails(t)
      PROVE  TypeOK'
  BY <1>8 DEF ConnectFails, CloseFd
<1>9. ASSUME NEW t \in Threads, Rollback(t)
      PROVE  TypeOK'
  <2>1. node[t] \in Nodes /\ fd[t] = NoFd /\ pc[t] = "rollback"
    BY <1>9 DEF Rollback
  <2>2. active_count' \in [Nodes -> Int]
    BY <1>9, <2>1 DEF Rollback, ReleaseSlot
  <2>3. /\ pc' \in [Threads -> Stages]
        /\ pc'[t] = "idle"
        /\ \A u \in Threads \ {t} : \/ pc'[u] = pc[u]
                                    \/ pc[u] = "waiting" /\ pc'[u] = "notified"
    BY <1>9, <2>1 DEF Rollback, NotifyOne, Sleeping
  <2>4. /\ node' \in [Threads -> Nodes \union {NoNode}]
        /\ fd' \in [Threads -> Fds \union {NoFd}]
        /\ node'[t] = NoNode /\ fd'[t] = NoFd
        /\ \A u \in Threads \ {t} : node'[u] = node[u] /\ fd'[u] = fd[u]
    BY <1>9, <2>1 DEF Rollback, Leave
  <2>5. \A u \in Threads : /\ fd'[u] # NoFd <=> pc'[u] \in {"connecting", "holding"}
                          /\ node'[u] # NoNode <=> pc'[u] # "idle"
    <3> HIDE DEF TypeOK, Stages
    <3> QED
      BY <2>3, <2>4, LeaveType
  <2>6. QED
    BY <1>9, <2>2, <2>3, <2>4, <2>5 DEF Rollback
<1>10. ASSUME NEW t \in Threads, SpuriousWakeup(t) \/ Deadline(t) \/ WakeSleep(t)
       PROVE  TypeOK'
  BY <1>10 DEF SpuriousWakeup, Deadline, WakeSleep
<1>11. ASSUME NEW t \in Threads, GiveUp(t)
       PROVE  TypeOK'
  BY <1>11 DEF GiveUp, Leave
<1>12. ASSUME NEW t \in Threads, ReturnHealthy(t)
       PROVE  TypeOK'
  <2>1. node[t] \in Nodes /\ fd[t] \in Fds /\ pc[t] = "holding"
    BY <1>12 DEF ReturnHealthy
  <2>2. freeFds' \in [Nodes -> Seq(Fds)]
    BY <1>12, <2>1 DEF ReturnHealthy
  <2>3. /\ pc' \in [Threads -> Stages]
        /\ pc'[t] = "idle"
        /\ \A u \in Threads \ {t} : \/ pc'[u] = pc[u]
                                    \/ pc[u] = "waiting" /\ pc'[u] = "notified"
    BY <1>12, <2>1 DEF ReturnHealthy, NotifyOne, Sleeping
  <2>4. /\ node' \in [Threads -> Nodes \union {NoNode}]
        /\ fd' \in [Threads -> Fds \union {NoFd}]
        /\ node'[t] = NoNode /\ fd'[t] = NoFd
        /\ \A u \in Threads \ {t} : node'[u] = node[u] /\ fd'[u] = fd[u]
    BY <1>12, <2>1 DEF ReturnHealthy, Leave
  <2>5. \A u \in Threads : /\ fd'[u] # NoFd <=> pc'[u] \in {"connecting", "holding"}
                          /\ node'[u] # NoNode <=> pc'[u] # "idle"
    <3> HIDE DEF TypeOK, Stages
    <3> QED
      BY <2>3, <2>4, LeaveType
  <2>6. QED
    BY <1>12, <2>2, <2>3, <2>4, <2>5 DEF ReturnHealthy
<1>13. ASSUME NEW t \in Threads, ReturnBad(t)
       PROVE  TypeOK'
  <2>1. node[t] \in Nodes /\ fd[t] \in Fds /\ pc[t] = "holding"
    BY <1>13 DEF ReturnBad
  <2>2. /\ active_count' \in [Nodes -> Int]
        /\ sock' \in [Fds -> Nodes \union {NoNode}]
    BY <1>13, <2>1 DEF ReturnBad, ReleaseSlot, CloseFd
  <2>3. /\ pc' \in [Threads -> Stages]
        /\ pc'[t] = "idle"
        /\ \A u \in Threads \ {t} : \/ pc'[u] = pc[u]
                                    \/ pc[u] = "waiting" /\ pc'[u] = "notified"
    BY <1>13, <2>1 DEF ReturnBad, NotifyOne, Sleeping
  <2>4. /\ node' \in [Threads -> Nodes \union {NoNode}]
        /\ fd' \in [Threads -> Fds \union {NoFd}]
        /\ node'[t] = NoNode /\ fd'[t] = NoFd
        /\ \A u \in Threads \ {t} : node'[u] = node[u] /\ fd'[u] = fd[u]
    BY <1>13, <2>1 DEF ReturnBad, Leave
  <2>5. \A u \in Threads : /\ fd'[u] # NoFd <=> pc'[u] \in {"connecting", "holding"}
                          /\ node'[u] # NoNode <=> pc'[u] # "idle"
    <3> HIDE DEF TypeOK, Stages
    <3> QED
      BY <2>3, <2>4, LeaveType
  <2>6. QED
    BY <1>13, <2>2, <2>3, <2>4, <2>5 DEF ReturnBad
<1>14. CASE Destroy
  <2>1. alive' \in BOOLEAN
    <3>1. alive' = FALSE
      BY <1>14 DEF Destroy
    <3> QED
      BY <3>1, Zenon
  <2>2. freeFds' \in [Nodes -> Seq(Fds)]
    BY <1>14 DEF Destroy
  <2>3. sock' \in [Fds -> Nodes \union {NoNode}]
    BY <1>14 DEF Destroy
  <2>4. pools' \in SUBSET Nodes /\ active_count' \in [Nodes -> Int]
    BY <1>14 DEF Destroy
  <2>5. QED
    BY <1>14, <2>1, <2>2, <2>3, <2>4 DEF Destroy
<1>15. CASE UNCHANGED vars
  BY <1>15 DEF vars
<1>16. QED
  BY <1>1, <1>2, <1>3, <1>4, <1>5, <1>6, <1>7, <1>8, <1>9, <1>10, <1>11, <1>12,
     <1>13, <1>14, <1>15 DEF Next, Borrowing, BorrowFree, WakeTake, Exited

(* The types hold in every reachable state.                                *)
THEOREM TypeCorrect == Spec => []TypeOK
<1>1. QED
  BY TypeInit, TypeNext, PTL DEF Spec

-----------------------------------------------------------------------------
(* One owner per descriptor                                                *)

(* At first no descriptor has an owner.                                    *)
LEMMA OwnerInit == Init => OneOwner
  BY DEF Init, OneOwner, ThreadOwns, QueueOwns

(* Steps that touch no descriptor, and move no thread that has one to      *)
(* another node, keep the owners.                                          *)
LEMMA OwnerQuiet ==
  ASSUME TypeOK, OneOwner,
         UNCHANGED <<freeFds, sock, fd>>,
         \A u \in Threads : fd[u] # NoFd => node'[u] = node[u]
  PROVE  OneOwner'
  BY DEF OneOwner, ThreadOwns, QueueOwns, Idle

(* A borrower that takes the head of a queue becomes its only owner.       *)
LEMMA OwnerTakeFree ==
  ASSUME TypeOK, OneOwner, NEW t \in Threads, TakeFree(t),
         pc[t] \in {"locking", "notified", "timedout"}
  PROVE  OneOwner'
<1>1. PICK m \in Nodes : m = node[t]
  BY DEF TypeOK, Stages
<1>2. /\ fd[t] = NoFd
      /\ freeFds[m] \in Seq(Fds) /\ freeFds[m] # <<>>
  BY <1>1 DEF TakeFree, TypeOK, Stages
<1>3. PICK f \in Fds : 1 \in 1..Len(freeFds[m]) /\ f = freeFds[m][1] /\ f = Head(freeFds[m])
  BY <1>2
<1>4. sock[f] = m
  BY <1>3 DEF OneOwner, QueueOwns
<1>5. /\ fd' = [fd EXCEPT ![t] = f]
      /\ freeFds' = [freeFds EXCEPT ![m] = Tail(@)]
      /\ UNCHANGED <<sock, node>>
  BY <1>1, <1>3 DEF TakeFree, PopFree
<1>6. ASSUME NEW n \in Nodes, NEW i \in 1..Len(freeFds'[n])
      PROVE  \E k \in 1..Len(freeFds[n]) :
                /\ freeFds'[n][i] = freeFds[n][k]
                /\ k = IF n = m THEN i + 1 ELSE i
  BY <1>2, <1>5 DEF TypeOK
<1>7. QueueOwns'
  <2> SUFFICES ASSUME NEW n \in Nodes, NEW i \in 1..Len(freeFds'[n])
               PROVE  /\ sock[freeFds'[n][i]] = n
                      /\ \A j \in 1..Len(freeFds'[n]) :
                            freeFds'[n][i] = freeFds'[n][j] => i = j
    BY <1>5 DEF QueueOwns
  <2>1. PICK k \in 1..Len(freeFds[n]) : /\ freeFds'[n][i] = freeFds[n][k]
                                        /\ k = IF n = m THEN i + 1 ELSE i
    BY <1>6
  <2>2. ASSUME NEW j \in 1..Len(freeFds'[n]), freeFds'[n][i] = freeFds'[n][j]
        PROVE  i = j
    <3>1. PICK l \in 1..Len(freeFds[n]) : /\ freeFds'[n][j] = freeFds[n][l]
                                          /\ l = IF n = m THEN j + 1 ELSE j
      BY <1>6
    <3>2. k = l
      BY <2>1, <2>2, <3>1 DEF OneOwner, QueueOwns
    <3>3. QED
      BY <2>1, <3>1, <3>2
  <2>3. QED
    BY <2>1, <2>2 DEF OneOwner, QueueOwns
<1>8. ~Idle(f)'
  <2> SUFFICES ASSUME NEW n \in Nodes, NEW i \in 1..Len(freeFds'[n]), freeFds'[n][i] = f
               PROVE  FALSE
    BY DEF Idle
  <2>1. PICK k \in 1..Len(freeFds[n]) : /\ freeFds[n][k] = f
                                        /\ k = IF n = m THEN i + 1 ELSE i
    BY <1>6
  <2>2. n = m
    BY <1>4, <2>1 DEF OneOwner, QueueOwns
  <2>3. k = 1
    BY <1>3, <2>1, <2>2 DEF OneOwner, QueueOwns
  <2>4. QED
    BY <2>1, <2>2, <2>3
<1>9. \A u \in Threads : fd[u] # NoFd => fd[u] # f
  BY <1>3 DEF OneOwner, ThreadOwns, Idle
<1>10. \A g \in Fds : ~Idle(g) => ~Idle(g)'
  BY <1>6 DEF Idle
<1>11. /\ fd'[t] = f
       /\ \A u \in Threads \ {t} : fd'[u] = fd[u]
  BY <1>5 DEF TypeOK
<1>12. ASSUME NEW u \in Threads, fd'[u] # NoFd
       PROVE  /\ sock'[fd'[u]] = node'[u]
              /\ ~Idle(fd[u])'
              /\ \A v \in Threads : fd'[v] = fd'[u] => v = u
  <2>1. CASE u = t
    BY <1>1, <1>4, <1>5, <1>8, <1>9, <1>11, <2>1, NullAssumption
  <2>2. CASE u # t
    <3>1. fd[u] \in Fds /\ fd[u] = fd'[u] /\ fd[u] # f
      BY <1>9, <1>11, <1>12, <2>2 DEF TypeOK
    <3>2. sock[fd[u]] = node[u] /\ ~Idle(fd[u])
      BY <1>12, <3>1 DEF OneOwner, ThreadOwns
    <3>3. ~Idle(fd[u])'
      BY <1>10, <1>12, <3>1, <3>2
    <3>4. \A v \in Threads : fd'[v] = fd'[u] => v = u
      BY <1>11, <1>12, <3>1 DEF OneOwner, ThreadOwns
    <3>5. QED
      BY <1>5, <3>1, <3>2, <3>3, <3>4
  <2>3. QED
    BY <2>1, <2>2
<1>13. QED
  BY <1>7, <1>12 DEF OneOwner, ThreadOwns

(* socket() hands out a number no thread and no queue has.                 *)
LEMMA OwnerSocket ==
  ASSUME TypeOK, OneOwner, NEW t \in Threads, Socket(t)
  PROVE  OneOwner'
<1>1. PICK f \in Fds : /\ sock[f] = NoNode
                       /\ sock' = [sock EXCEPT ![f] = node[t]]
                       /\ fd' = [fd EXCEPT ![t] = f]
  BY DEF Socket
<1>2. UNCHANGED <<freeFds, node>>
  BY DEF Socket
<1>3. /\ fd'[t] = f
      /\ \A u \in Threads \ {t} : fd'[u] = fd[u]
      /\ sock'[f] = node[t]
      /\ \A g \in Fds \ {f} : sock'[g] = sock[g]
  BY <1>1 DEF TypeOK
<1>4. \A n \in Nodes : \A i \in 1..Len(freeFds[n]) : freeFds[n][i] \in Fds \ {f}
  BY <1>1, NullAssumption DEF OneOwner, QueueOwns, TypeOK
<1>5. \A u \in Threads : fd[u] # NoFd => fd[u] \in Fds \ {f}
  BY <1>1, NullAssumption DEF OneOwner, ThreadOwns, TypeOK, Stages
<1>6. QueueOwns'
  BY <1>2, <1>3, <1>4 DEF OneOwner, QueueOwns
<1>7. ThreadOwns'
  <2>1. ~Idle(f)'
    BY <1>2, <1>4 DEF Idle
  <2>2. \A g \in Fds : ~Idle(g) => ~Idle(g)'
    BY <1>2 DEF Idle
  <2> SUFFICES ASSUME NEW u \in Threads, fd'[u] # NoFd
               PROVE  /\ sock'[fd'[u]] = node'[u]
                      /\ ~Idle(fd[u])'
                      /\ \A v \in Threads : fd'[v] = fd'[u] => v = u
    BY DEF ThreadOwns
  <2>3. CASE u = t
    BY <1>2, <1>3, <1>5, <2>1, <2>3, NullAssumption
  <2>4. CASE u # t
    <3>1. fd'[u] = fd[u] /\ fd[u] \in Fds \ {f}
      BY <1>3, <1>5, <2>4
    <3>2. sock[fd[u]] = node[u] /\ ~Idle(fd[u]) /\ fd[u] # NoFd
      BY <3>1, NullAssumption DEF OneOwner, ThreadOwns
    <3>3. \A v \in Threads : fd'[v] = fd'[u] => v = u
      BY <1>3, <3>1, <3>2 DEF OneOwner, ThreadOwns
    <3>4. ~Idle(fd[u])'
      BY <2>2, <3>1, <3>2
    <3>5. QED
      BY <1>2, <1>3, <3>1, <3>2, <3>3, <3>4
  <2>5. QED
    BY <2>3, <2>4
<1>8. QED
  BY <1>6, <1>7 DEF OneOwner

(* The owner closes its descriptor, after a failed connect or because it   *)
(* is bad.                                                                 *)
LEMMA OwnerClose ==
  ASSUME TypeOK, OneOwner, NEW t \in Threads,
         fd[t] # NoFd,
         sock' = [sock EXCEPT ![fd[t]] = NoNode],
         fd' = [fd EXCEPT ![t] = NoFd],
         freeFds' = freeFds,
         \A u \in Threads \ {t} : node'[u] = node[u]
  PROVE  OneOwner'
<1>1. /\ fd'[t] = NoFd
      /\ \A u \in Threads \ {t} : fd'[u] = fd[u]
      /\ \A g \in Fds \ {fd[t]} : sock'[g] = sock[g]
  BY DEF TypeOK
<1>2. \A n \in Nodes : \A i \in 1..Len(freeFds[n]) : freeFds[n][i] \in Fds \ {fd[t]}
  BY DEF OneOwner, ThreadOwns, Idle, TypeOK
<1>3. QueueOwns'
  BY <1>1, <1>2 DEF OneOwner, QueueOwns
<1>4. \A u \in Threads : fd'[u] # NoFd => u # t /\ fd[u] \in Fds \ {fd[t]}
  BY <1>1 DEF OneOwner, ThreadOwns, TypeOK
<1>5. ThreadOwns'
  BY <1>1, <1>4 DEF OneOwner, ThreadOwns, Idle
<1>6. QED
  BY <1>3, <1>5 DEF OneOwner

(* The owner puts its descriptor at the end of its node's queue.           *)
LEMMA OwnerGiveBack ==
  ASSUME TypeOK, OneOwner, NEW t \in Threads, ReturnHealthy(t)
  PROVE  OneOwner'
<1>1. PICK m \in Nodes : m = node[t]
  BY DEF TypeOK, ReturnHealthy
<1>2. PICK f \in Fds : f = fd[t] /\ f # NoFd
  BY DEF TypeOK, ReturnHealthy
<1>3. sock[f] = m /\ ~Idle(f)
  BY <1>1, <1>2 DEF OneOwner, ThreadOwns
<1>4. /\ freeFds' = [freeFds EXCEPT ![m] = Append(@, f)]
      /\ fd' = [fd EXCEPT ![t] = NoFd]
      /\ node' = [node EXCEPT ![t] = NoNode]
      /\ sock' = sock
  BY <1>1, <1>2 DEF ReturnHealthy, Leave
<1>5. /\ fd'[t] = NoFd
      /\ \A u \in Threads \ {t} : fd'[u] = fd[u] /\ node'[u] = node[u]
  BY <1>4 DEF TypeOK
<1>6. ASSUME NEW n \in Nodes, NEW i \in 1..Len(freeFds'[n])
      PROVE  \/ i \in 1..Len(freeFds[n]) /\ freeFds'[n][i] = freeFds[n][i]
             \/ n = m /\ i = Len(freeFds[n]) + 1 /\ freeFds'[n][i] = f
  BY <1>4 DEF TypeOK
<1>7. QueueOwns'
  <2> SUFFICES ASSUME NEW n \in Nodes, NEW i \in 1..Len(freeFds'[n])
               PROVE  /\ sock[freeFds'[n][i]] = n
                      /\ \A j \in 1..Len(freeFds'[n]) :
                            freeFds'[n][i] = freeFds'[n][j] => i = j
    BY <1>4 DEF QueueOwns
  <2>1. sock[freeFds'[n][i]] = n
    BY <1>3, <1>6 DEF OneOwner, QueueOwns
  <2>2. ASSUME NEW j \in 1..Len(freeFds'[n]), freeFds'[n][i] = freeFds'[n][j]
        PROVE  i = j
    BY <1>3, <1>6, <2>2 DEF OneOwner, QueueOwns, Idle
  <2>3. QED
    BY <2>1, <2>2
<1>8. \A g \in Fds \ {f} : ~Idle(g) => ~Idle(g)'
  BY <1>6 DEF Idle
<1>9. \A u \in Threads : fd'[u] # NoFd => u # t /\ fd[u] \in Fds \ {f}
  BY <1>2, <1>5 DEF OneOwner, ThreadOwns, TypeOK
<1>10. ThreadOwns'
  <2> SUFFICES ASSUME NEW u \in Threads, fd'[u] # NoFd
               PROVE  /\ sock'[fd'[u]] = node'[u]
                      /\ ~Idle(fd[u])'
                      /\ \A v \in Threads : fd'[v] = fd'[u] => v = u
    BY DEF ThreadOwns
  <2>1. u # t /\ fd'[u] = fd[u] /\ fd[u] \in Fds \ {f} /\ node'[u] = node[u]
    BY <1>5, <1>9
  <2>2. QED
    BY <1>4, <1>5, <1>8, <2>1 DEF OneOwner, ThreadOwns
<1>11. QED
  BY <1>7, <1>10 DEF OneOwner

(* Every step leaves each descriptor one owner.                            *)
LEMMA OwnerNext == TypeOK /\ OneOwner /\ [Next]_vars => OneOwner'
<1> SUFFICES ASSUME TypeOK, OneOwner, [Next]_vars PROVE OneOwner'
  OBVIOUS
<1>1. ASSUME NEW t \in Threads, NEW n \in Nodes, BorrowConnection(t, n)
      PROVE  OneOwner'
  <2>1. /\ UNCHANGED <<freeFds, sock, fd>>
        /\ \A u \in Threads : fd[u] # NoFd => node'[u] = node[u]
    BY <1>1 DEF BorrowConnection, TypeOK
  <2>2. QED
    BY <2>1, OwnerQuiet
<1>2. ASSUME NEW t \in Threads,
             \/ BorrowReserve(t) \/ BorrowWait(t) \/ SocketFails(t) \/ ConnectOk(t)
             \/ SpuriousWakeup(t) \/ Deadline(t) \/ WakeSleep(t)
      PROVE  OneOwner'
  <2>1. UNCHANGED <<freeFds, sock, fd, node>>
    BY <1>2 DEF BorrowReserve, BorrowWait, SocketFails, ConnectOk, SpuriousWakeup,
                Deadline, WakeSleep
  <2>2. QED
    BY <2>1, OwnerQuiet
<1>3. ASSUME NEW t \in Threads, Rollback(t) \/ GiveUp(t)
      PROVE  OneOwner'
  <2>1. /\ UNCHANGED <<freeFds, sock, fd>>
        /\ \A u \in Threads : fd[u] # NoFd => node'[u] = node[u]
    BY <1>3 DEF Rollback, GiveUp, Leave, TypeOK
  <2>2. QED
    BY <2>1, OwnerQuiet
<1>4. ASSUME NEW t \in Threads, BorrowFree(t) \/ WakeTake(t)
      PROVE  OneOwner'
  BY <1>4, OwnerTakeFree DEF BorrowFree, WakeTake
<1>5. ASSUME NEW t \in Threads, Socket(t)
      PROVE  OneOwner'
  BY <1>5, OwnerSocket
<1>6. ASSUME NEW t \in Threads, ConnectFails(t) \/ ReturnBad(t)
      PROVE  OneOwner'
  <2>1. /\ fd[t] # NoFd
        /\ sock' = [sock EXCEPT ![fd[t]] = NoNode]
        /\ fd' = [fd EXCEPT ![t] = NoFd]
        /\ freeFds' = freeFds
        /\ \A u \in Threads \ {t} : node'[u] = node[u]
    BY <1>6 DEF ConnectFails, ReturnBad, CloseFd, Leave, TypeOK
  <2>2. QED
    BY <2>1, OwnerClose
<1>7. ASSUME NEW t \in Threads, ReturnHealthy(t)
      PROVE  OneOwner'
  BY <1>7, OwnerGiveBack
<1>8. CASE Destroy
  <2>1. \A n \in Nodes : Len(freeFds'[n]) = 0
    BY <1>8 DEF Destroy
  <2>2. \A t \in Threads : fd'[t] = NoFd
    BY <1>8 DEF Destroy, TypeOK
  <2>3. QED
    BY <2>1, <2>2 DEF OneOwner, ThreadOwns, QueueOwns
<1>9. CASE UNCHANGED vars
  BY <1>9, OwnerQuiet DEF vars
<1>10. QED
  BY <1>1, <1>2, <1>3, <1>4, <1>5, <1>6, <1>7, <1>8, <1>9 DEF Next, Borrowing, Exited

(* In every reachable state a descriptor has one owner, whatever the       *)
(* number of threads, nodes and descriptors and whatever the limit.        *)
THEOREM OneOwnerHolds == Spec => []OneOwner
<1>1. Init => TypeOK /\ OneOwner
  BY TypeInit, OwnerInit
<1>2. TypeOK /\ OneOwner /\ [Next]_vars => (TypeOK /\ OneOwner)'
  BY TypeNext, OwnerNext
<1>3. QED
  BY <1>1, <1>2, PTL DEF Spec

-----------------------------------------------------------------------------
(* No descriptor is forgotten                                              *)

(* Somebody answers for f: a queue or a thread.                            *)
Held(f) == Idle(f) \/ \E t \in Threads : fd[t] = f

(* After the pool is gone no thread is inside it and no queue has anything. *)
GoneEmpty ==
    ~alive => /\ \A t \in Threads : pc[t] = "idle"
              /\ \A n \in Nodes : Len(freeFds[n]) = 0

LeakInv == NoLeak /\ GoneEmpty

(* A step is no leak when every socket that stays open is held after it.   *)
LEMMA LeakStep ==
  ASSUME NoLeak, alive, alive' = alive,
         \A f \in Fds : sock'[f] # NoNode /\ (sock[f] # NoNode => Held(f)) => Held(f)'
  PROVE  LeakInv'
  BY DEF LeakInv, NoLeak, GoneEmpty, Held

(* What is held stays held when a connection is taken from a queue.        *)
LEMMA HeldTakeFree ==
  ASSUME TypeOK, NEW t \in Threads, TakeFree(t), node[t] # NoNode, fd[t] = NoFd,
         NEW f \in Fds, Held(f)
  PROVE  Held(f)'
<1>1. PICK m \in Nodes : m = node[t]
  BY DEF TypeOK
<1>2. freeFds[m] \in Seq(Fds) /\ freeFds[m] # <<>>
  BY <1>1 DEF TakeFree, TypeOK
<1>3. /\ fd' = [fd EXCEPT ![t] = freeFds[m][1]]
      /\ freeFds' = [freeFds EXCEPT ![m] = Tail(@)]
  BY <1>1, <1>2 DEF TakeFree, PopFree
<1>4. CASE \E u \in Threads : fd[u] = f
  <2>1. PICK u \in Threads : fd[u] = f
    BY <1>4
  <2>2. u # t
    BY <2>1, NullAssumption
  <2>3. QED
    BY <1>3, <2>1, <2>2 DEF Held, TypeOK
<1>5. CASE Idle(f)
  <2>0. PICK n \in Nodes : \E i \in 1..Len(freeFds[n]) : freeFds[n][i] = f
    BY <1>5 DEF Idle
  <2>1. PICK i \in 1..Len(freeFds[n]) : freeFds[n][i] = f
    BY <2>0
  <2>2. CASE n # m
    BY <1>3, <2>1, <2>2 DEF Held, Idle, TypeOK
  <2>3. CASE n = m /\ i = 1
    BY <1>3, <2>1, <2>3 DEF Held, TypeOK
  <2>4. CASE n = m /\ i # 1
    <3>1. /\ i - 1 \in 1..Len(Tail(freeFds[m]))
          /\ Tail(freeFds[m])[i - 1] = f
      BY <1>2, <2>1, <2>4
    <3>2. freeFds'[m] = Tail(freeFds[m])
      BY <1>3 DEF TypeOK
    <3>3. QED
      BY <3>1, <3>2 DEF Held, Idle
  <2>5. QED
    BY <2>2, <2>3, <2>4
<1>6. QED
  BY <1>4, <1>5 DEF Held

(* What is held stays held when a connection is given back.                *)
LEMMA HeldGiveBack ==
  ASSUME TypeOK, NEW t \in Threads, ReturnHealthy(t), NEW f \in Fds, Held(f)
  PROVE  Held(f)'
<1>1. PICK m \in Nodes : m = node[t]
  BY DEF TypeOK, ReturnHealthy
<1>2. fd[t] \in Fds
  BY DEF TypeOK, ReturnHealthy
<1>3. /\ freeFds' = [freeFds EXCEPT ![m] = Append(@, fd[t])]
      /\ fd' = [fd EXCEPT ![t] = NoFd]
  BY <1>1 DEF ReturnHealthy
<1>4. /\ freeFds[m] \in Seq(Fds)
      /\ freeFds'[m] = Append(freeFds[m], fd[t])
      /\ \A n \in Nodes \ {m} : freeFds'[n] = freeFds[n]
  BY <1>3 DEF TypeOK
<1>5. /\ Len(freeFds'[m]) = Len(freeFds[m]) + 1
      /\ freeFds'[m][Len(freeFds[m]) + 1] = fd[t]
      /\ \A i \in 1..Len(freeFds[m]) : freeFds'[m][i] = freeFds[m][i]
      /\ Len(freeFds[m]) \in Nat
  BY <1>2, <1>4, AppendProperties, LenProperties
<1>6. CASE f = fd[t]
  BY <1>5, <1>6 DEF Held, Idle
<1>7. CASE f # fd[t] /\ \E u \in Threads : fd[u] = f
  BY <1>3, <1>7 DEF Held, TypeOK
<1>8. CASE Idle(f)
  <2>0. PICK n \in Nodes : \E i \in 1..Len(freeFds[n]) : freeFds[n][i] = f
    BY <1>8 DEF Idle
  <2>1. PICK i \in 1..Len(freeFds[n]) : freeFds[n][i] = f
    BY <2>0
  <2>2. i \in 1..Len(freeFds'[n]) /\ freeFds'[n][i] = f
    BY <1>4, <1>5, <2>1
  <2>3. QED
    BY <2>2 DEF Held, Idle
<1>9. QED
  BY <1>6, <1>7, <1>8 DEF Held

(* At first nothing is open.                                               *)
LEMMA LeakInit == Init => LeakInv
  BY DEF Init, LeakInv, NoLeak, GoneEmpty

(* No step leaves an open descriptor that nobody holds.                    *)
LEMMA LeakNext == TypeOK /\ LeakInv /\ [Next]_vars => LeakInv'
<1> SUFFICES ASSUME TypeOK, LeakInv, [Next]_vars PROVE LeakInv'
  OBVIOUS
<1> USE NullAssumption
<1>1. ASSUME UNCHANGED <<freeFds, sock, fd, alive>>, alive PROVE LeakInv'
  BY <1>1, LeakStep DEF LeakInv, Held, Idle
<1>2. ASSUME NEW t \in Threads, pc[t] # "idle" PROVE alive
  BY <1>2 DEF LeakInv, GoneEmpty
<1>3. ASSUME NEW t \in Threads, NEW n \in Nodes, BorrowConnection(t, n)
      PROVE  LeakInv'
  BY <1>1, <1>3 DEF BorrowConnection
<1>4. ASSUME NEW t \in Threads,
             \/ BorrowReserve(t) \/ BorrowWait(t) \/ SocketFails(t) \/ ConnectOk(t)
             \/ Rollback(t) \/ GiveUp(t)
             \/ SpuriousWakeup(t) \/ Deadline(t) \/ WakeSleep(t)
      PROVE  LeakInv'
  BY <1>1, <1>2, <1>4 DEF BorrowReserve, BorrowWait, SocketFails, ConnectOk, Rollback, GiveUp,
                          SpuriousWakeup, Deadline, WakeSleep
<1>5. ASSUME NEW t \in Threads, BorrowFree(t) \/ WakeTake(t)
      PROVE  LeakInv'
  <2>1. /\ TakeFree(t) /\ alive /\ alive' = alive /\ sock' = sock
        /\ node[t] # NoNode /\ fd[t] = NoFd
    BY <1>2, <1>5 DEF BorrowFree, WakeTake, TakeFree, TypeOK
  <2>2. QED
    BY <2>1, HeldTakeFree, LeakStep DEF LeakInv
<1>6. ASSUME NEW t \in Threads, Socket(t)
      PROVE  LeakInv'
  <2>1. PICK f \in Fds : /\ sock[f] = NoNode
                         /\ sock' = [sock EXCEPT ![f] = node[t]]
                         /\ fd' = [fd EXCEPT ![t] = f]
    BY <1>6 DEF Socket
  <2>2. alive /\ UNCHANGED <<freeFds, alive>> /\ fd[t] = NoFd
    BY <1>2, <1>6 DEF Socket, TypeOK
  <2>3. ASSUME NEW g \in Fds, sock'[g] # NoNode, sock[g] # NoNode => Held(g) PROVE Held(g)'
    <3>1. CASE g = f
      BY <2>1, <3>1 DEF Held, TypeOK
    <3>2. CASE g # f
      BY <2>1, <2>2, <2>3, <3>2 DEF Held, Idle, TypeOK
    <3>3. QED
      BY <3>1, <3>2
  <2>4. QED
    BY <2>2, <2>3, LeakStep DEF LeakInv
<1>7. ASSUME NEW t \in Threads, ConnectFails(t) \/ ReturnBad(t)
      PROVE  LeakInv'
  <2>1. /\ sock' = [sock EXCEPT ![fd[t]] = NoNode]
        /\ fd' = [fd EXCEPT ![t] = NoFd]
        /\ UNCHANGED <<freeFds, alive>>
        /\ alive /\ fd[t] \in Fds
    BY <1>2, <1>7 DEF ConnectFails, ReturnBad, CloseFd, TypeOK
  <2>2. ASSUME NEW g \in Fds, sock'[g] # NoNode, sock[g] # NoNode => Held(g) PROVE Held(g)'
    BY <2>1, <2>2 DEF Held, Idle, TypeOK
  <2>3. QED
    BY <2>1, <2>2, LeakStep DEF LeakInv
<1>8. ASSUME NEW t \in Threads, ReturnHealthy(t)
      PROVE  LeakInv'
  <2>1. alive /\ alive' = alive /\ sock' = sock
    BY <1>2, <1>8 DEF ReturnHealthy
  <2>2. QED
    BY <1>8, <2>1, HeldGiveBack, LeakStep DEF LeakInv
<1>9. CASE Destroy
  <2>1. \A f \in Fds : sock'[f] = NoNode
    <3>1. \A t \in Threads : fd[t] = NoFd
      BY <1>9 DEF Destroy, TypeOK
    <3>2. \A f \in Fds : sock[f] # NoNode => Idle(f)
      BY <3>1 DEF LeakInv, NoLeak
    <3>3. QED
      BY <1>9, <3>2 DEF Destroy
  <2>2. GoneEmpty'
    BY <1>9 DEF Destroy, GoneEmpty
  <2>3. QED
    BY <2>1, <2>2 DEF LeakInv, NoLeak
<1>10. CASE UNCHANGED vars
  BY <1>10 DEF vars, LeakInv, NoLeak, GoneEmpty, Idle
<1>11. QED
  BY <1>3, <1>4, <1>5, <1>6, <1>7, <1>8, <1>9, <1>10 DEF Next, Borrowing, Exited

(* No open socket is forgotten, on the ways out of a failed or refused     *)
(* borrow neither, and none is left when the pool has been destroyed.      *)
THEOREM NoLeakHolds == Spec => []NoLeak
<1>1. Init => TypeOK /\ LeakInv
  BY TypeInit, LeakInit
<1>2. TypeOK /\ LeakInv /\ [Next]_vars => (TypeOK /\ LeakInv)'
  BY TypeNext, LeakNext
<1>3. LeakInv => NoLeak
  BY DEF LeakInv
<1>4. QED
  BY <1>1, <1>2, <1>3, PTL DEF Spec

-----------------------------------------------------------------------------
(* Counting                                                                *)

Count(x, S) == IF x \in S THEN 1 ELSE 0

(* A finite set whose membership changes for at most one element.          *)
LEMMA OneMember ==
  ASSUME NEW S, NEW T, NEW x, IsFiniteSet(S), S \ {x} = T \ {x}
  PROVE  /\ IsFiniteSet(T)
         /\ Cardinality(S) \in Nat /\ Cardinality(T) \in Nat
         /\ Cardinality(T) = Cardinality(S) + Count(x, T) - Count(x, S)
<1>1. /\ IsFiniteSet(S \ {x}) /\ Cardinality(S) \in Nat
      /\ Cardinality(S \ {x}) = Cardinality(S) - Count(x, S)
  BY FS_RemoveElement, FS_CardinalityType DEF Count
<1>2. Cardinality(S \ {x}) \in Nat
  BY <1>1, FS_CardinalityType
<1>3. CASE x \in T
  <2>1. T = (S \ {x}) \union {x}
    BY <1>3
  <2>2. IsFiniteSet(T) /\ Cardinality(T) = Cardinality(S \ {x}) + 1
    BY <1>1, <2>1, FS_AddElement
  <2>3. QED
    BY <1>1, <1>2, <1>3, <2>2 DEF Count
<1>4. CASE x \notin T
  <2>1. T = S \ {x}
    BY <1>4
  <2>2. QED
    BY <1>1, <1>2, <1>4, <2>1 DEF Count
<1>5. QED
  BY <1>3, <1>4

Using == {"reserved", "connecting", "rollback", "holding"}

(* The connections that a bucket counts can be counted.                    *)
LEMMA OccupyingFinite ==
  ASSUME NEW n
  PROVE  IsFiniteSet(Occupying(n)) /\ Cardinality(Occupying(n)) \in Nat
  BY FiniteAssumption, FS_Subset, FS_CardinalityType DEF Occupying

(* Only t's occupation changes in a step of t.                             *)
LEMMA OccupyingStep ==
  ASSUME NEW t \in Threads, NEW n,
         \A u \in Threads \ {t} : u \in Occupying(n)' <=> u \in Occupying(n)
  PROVE  /\ Cardinality(Occupying(n)) \in Nat
         /\ Cardinality(Occupying(n)') =
              Cardinality(Occupying(n)) + Count(t, Occupying(n)') - Count(t, Occupying(n))
<1>1. Occupying(n) \ {t} = Occupying(n)' \ {t}
  BY DEF Occupying
<1>2. QED
  BY <1>1, OccupyingFinite, OneMember

(* At first every bucket counts none, and none is there.                   *)
LEMMA QuotaInit == Init => QuotaExact
<1> SUFFICES ASSUME Init, NEW n \in Nodes
             PROVE  active_count[n] = Len(freeFds[n]) + Cardinality(Occupying(n))
  BY DEF QuotaExact
<1>1. Occupying(n) = {}
  BY DEF Init, Occupying
<1>2. QED
  BY <1>1, FS_EmptySet DEF Init

(* A step of t changes the count of a node as it changes the length of its *)
(* queue and t's occupation.                                               *)
LEMMA QuotaStep ==
  ASSUME TypeOK, QuotaExact, NEW t \in Threads,
         \A n \in Nodes : \A u \in Threads \ {t} : u \in Occupying(n)' <=> u \in Occupying(n),
         \A n \in Nodes : active_count'[n] - active_count[n] =
            (Len(freeFds'[n]) - Len(freeFds[n])) + (Count(t, Occupying(n)') - Count(t, Occupying(n))),
         freeFds' \in [Nodes -> Seq(Fds)], active_count' \in [Nodes -> Int]
  PROVE  QuotaExact'
<1> SUFFICES ASSUME NEW n \in Nodes
             PROVE  active_count'[n] = Len(freeFds'[n]) + Cardinality(Occupying(n)')
  BY DEF QuotaExact
<1>1. /\ Cardinality(Occupying(n)) \in Nat
      /\ Cardinality(Occupying(n)') =
           Cardinality(Occupying(n)) + Count(t, Occupying(n)') - Count(t, Occupying(n))
  BY OccupyingStep
<1>2. active_count[n] = Len(freeFds[n]) + Cardinality(Occupying(n))
  BY DEF QuotaExact
<1>3. /\ Len(freeFds[n]) \in Nat /\ Len(freeFds'[n]) \in Nat
      /\ active_count[n] \in Int /\ active_count'[n] \in Int
  BY LenProperties DEF TypeOK
<1>4. PICK x \in Int, y \in Int, l \in Int, k \in Int, c \in Int, a \in Int, b \in Int :
         /\ x = active_count[n] /\ y = active_count'[n]
         /\ l = Len(freeFds[n]) /\ k = Len(freeFds'[n])
         /\ c = Cardinality(Occupying(n))
         /\ a = Count(t, Occupying(n)') /\ b = Count(t, Occupying(n))
  BY <1>1, <1>3 DEF Count
<1>5. y - x = (k - l) + (a - b)
  BY <1>4
<1>6. x = l + c /\ Cardinality(Occupying(n)') = c + a - b
  BY <1>1, <1>2, <1>4
<1>7. y = k + Cardinality(Occupying(n)')
  BY ONLY <1>5, <1>6
<1>8. QED
  BY <1>4, <1>7

(* notify_one changes no other occupation: it moves a sleeping thread.     *)
LEMMA NotifyOccupies ==
  ASSUME TypeOK, NEW t \in Threads, NEW m \in Nodes, pc[t] # "waiting",
         NotifyOne(m, [pc EXCEPT ![t] = "idle"]), node' = [node EXCEPT ![t] = NoNode]
  PROVE  /\ \A n \in Nodes : \A u \in Threads \ {t} : u \in Occupying(n)' <=> u \in Occupying(n)
         /\ \A n \in Nodes : t \notin Occupying(n)'
<1>1. /\ pc'[t] = "idle"
      /\ \A u \in Threads \ {t} : \/ pc'[u] = pc[u]
                                  \/ pc[u] = "waiting" /\ pc'[u] = "notified"
  BY DEF NotifyOne, Sleeping, TypeOK
<1>2. \A u \in Threads \ {t} : node'[u] = node[u]
  BY DEF TypeOK
<1>3. QED
  BY <1>1, <1>2 DEF Occupying

(* Every step changes the count and what it counts by the same.            *)
LEMMA QuotaNext == TypeOK /\ QuotaExact /\ [Next]_vars => QuotaExact'
<1> SUFFICES ASSUME TypeOK, QuotaExact, [Next]_vars PROVE QuotaExact'
  OBVIOUS
<1>1. freeFds' \in [Nodes -> Seq(Fds)] /\ active_count' \in [Nodes -> Int]
  BY TypeNext DEF TypeOK
<1>2. \A n \in Nodes : Len(freeFds[n]) \in Nat /\ active_count[n] \in Int
  BY LenProperties DEF TypeOK
<1>3. ASSUME NEW t \in Threads,
             \A n \in Nodes : \A u \in Threads : u \in Occupying(n)' <=> u \in Occupying(n),
             UNCHANGED <<freeFds, active_count>>
      PROVE  QuotaExact'
  BY <1>1, <1>2, <1>3, QuotaStep DEF Count
<1>4. ASSUME NEW t \in Threads,
             \/ \E n \in Nodes : BorrowConnection(t, n)
             \/ BorrowWait(t) \/ Socket(t) \/ SocketFails(t) \/ ConnectOk(t) \/ ConnectFails(t)
             \/ SpuriousWakeup(t) \/ Deadline(t) \/ WakeSleep(t) \/ GiveUp(t)
      PROVE  QuotaExact'
  <2>1. UNCHANGED <<freeFds, active_count>>
    BY <1>4 DEF BorrowConnection, BorrowWait, Socket, SocketFails, ConnectOk, ConnectFails,
                SpuriousWakeup, Deadline, WakeSleep, GiveUp
  <2>2. /\ \A u \in Threads \ {t} : pc'[u] = pc[u] /\ node'[u] = node[u]
        /\ pc'[t] \in Using <=> pc[t] \in Using
        /\ pc[t] \in Using => node'[t] = node[t]
    BY <1>4 DEF TypeOK, Using, BorrowConnection, BorrowWait, Socket, SocketFails, ConnectOk,
                ConnectFails, SpuriousWakeup, Deadline, WakeSleep, GiveUp, Leave
  <2>3. QED
    BY <1>3, <2>1, <2>2 DEF Occupying, Using
<1>5. ASSUME NEW t \in Threads, BorrowFree(t) \/ WakeTake(t)
      PROVE  QuotaExact'
  <2>1. PICK m \in Nodes : m = node[t]
    BY <1>5 DEF BorrowFree, WakeTake, TypeOK
  <2>2. /\ freeFds[m] \in Seq(Fds) /\ freeFds[m] # <<>>
        /\ freeFds' = [freeFds EXCEPT ![m] = Tail(@)]
        /\ pc' = [pc EXCEPT ![t] = "holding"] /\ pc[t] \notin Using
        /\ UNCHANGED <<active_count, node>>
    BY <1>5, <2>1 DEF BorrowFree, WakeTake, TakeFree, PopFree, TypeOK, Using
  <2>3. \A n \in Nodes : \A u \in Threads \ {t} : u \in Occupying(n)' <=> u \in Occupying(n)
    BY <2>2 DEF Occupying, TypeOK
  <2>4. \A n \in Nodes : Count(t, Occupying(n)) = 0 /\ Count(t, Occupying(n)') = Count(n, {m})
    BY <2>1, <2>2 DEF Occupying, Using, Count, TypeOK
  <2>5. \A n \in Nodes : Len(freeFds'[n]) = Len(freeFds[n]) - Count(n, {m})
    BY <2>2 DEF Count, TypeOK
  <2>6. ASSUME NEW n \in Nodes
        PROVE  active_count'[n] - active_count[n] =
                 (Len(freeFds'[n]) - Len(freeFds[n]))
                   + (Count(t, Occupying(n)') - Count(t, Occupying(n)))
    <3>1. PICK x \in Int, l \in Int, d \in Int :
            x = active_count[n] /\ l = Len(freeFds[n]) /\ d = Count(n, {m})
      BY <1>2 DEF Count
    <3>2. /\ active_count'[n] = x /\ Len(freeFds'[n]) = l - d
          /\ Count(t, Occupying(n)') = d /\ Count(t, Occupying(n)) = 0
      BY <2>2, <2>4, <2>5, <3>1
    <3>3. x - x = ((l - d) - l) + (d - 0)
      BY ONLY <3>1
    <3>4. QED
      BY <3>1, <3>2, <3>3
  <2>7. QED
    BY <1>1, <2>3, <2>6, QuotaStep
<1>6. ASSUME NEW t \in Threads, BorrowReserve(t)
      PROVE  QuotaExact'
  <2>1. PICK m \in Nodes : m = node[t]
    BY <1>6 DEF BorrowReserve, TypeOK
  <2>2. /\ active_count' = [active_count EXCEPT ![m] = @ + 1]
        /\ pc' = [pc EXCEPT ![t] = "reserved"] /\ pc[t] \notin Using
        /\ UNCHANGED <<freeFds, node>>
    BY <1>6, <2>1 DEF BorrowReserve, Using
  <2>3. \A n \in Nodes : \A u \in Threads \ {t} : u \in Occupying(n)' <=> u \in Occupying(n)
    BY <2>2 DEF Occupying, TypeOK
  <2>4. \A n \in Nodes : Count(t, Occupying(n)) = 0 /\ Count(t, Occupying(n)') = Count(n, {m})
    BY <2>1, <2>2 DEF Occupying, Using, Count, TypeOK
  <2>5. \A n \in Nodes : active_count'[n] = active_count[n] + Count(n, {m})
    BY <2>2 DEF Count, TypeOK
  <2>6. ASSUME NEW n \in Nodes
        PROVE  active_count'[n] - active_count[n] =
                 (Len(freeFds'[n]) - Len(freeFds[n]))
                   + (Count(t, Occupying(n)') - Count(t, Occupying(n)))
    <3>1. PICK x \in Int, l \in Int, d \in Int :
            x = active_count[n] /\ l = Len(freeFds[n]) /\ d = Count(n, {m})
      BY <1>2 DEF Count
    <3>2. /\ active_count'[n] = x + d /\ Len(freeFds'[n]) = l
          /\ Count(t, Occupying(n)') = d /\ Count(t, Occupying(n)) = 0
      BY <2>2, <2>4, <2>5, <3>1
    <3>3. (x + d) - x = (l - l) + (d - 0)
      BY ONLY <3>1
    <3>4. QED
      BY <3>1, <3>2, <3>3
  <2>7. QED
    BY <1>1, <2>3, <2>6, QuotaStep
<1>7. ASSUME NEW t \in Threads, Rollback(t) \/ ReturnBad(t)
      PROVE  QuotaExact'
  <2>1. PICK m \in Nodes : m = node[t]
    BY <1>7 DEF Rollback, ReturnBad, TypeOK
  <2>2. /\ active_count' = [active_count EXCEPT ![m] = @ - 1]
        /\ freeFds' = freeFds
        /\ pc[t] \in Using /\ pc[t] # "waiting"
        /\ NotifyOne(m, [pc EXCEPT ![t] = "idle"]) /\ node' = [node EXCEPT ![t] = NoNode]
    BY <1>7, <2>1 DEF Rollback, ReturnBad, ReleaseSlot, Leave, Using
  <2>3. /\ \A n \in Nodes : \A u \in Threads \ {t} : u \in Occupying(n)' <=> u \in Occupying(n)
        /\ \A n \in Nodes : t \notin Occupying(n)'
    BY <2>2, NotifyOccupies
  <2>4. \A n \in Nodes : Count(t, Occupying(n)) = Count(n, {m}) /\ Count(t, Occupying(n)') = 0
    BY <2>1, <2>2, <2>3 DEF Occupying, Using, Count
  <2>5. \A n \in Nodes : active_count'[n] = active_count[n] - Count(n, {m})
    BY <2>2 DEF Count, TypeOK
  <2>6. ASSUME NEW n \in Nodes
        PROVE  active_count'[n] - active_count[n] =
                 (Len(freeFds'[n]) - Len(freeFds[n]))
                   + (Count(t, Occupying(n)') - Count(t, Occupying(n)))
    <3>1. PICK x \in Int, l \in Int, d \in Int :
            x = active_count[n] /\ l = Len(freeFds[n]) /\ d = Count(n, {m})
      BY <1>2 DEF Count
    <3>2. /\ active_count'[n] = x - d /\ Len(freeFds'[n]) = l
          /\ Count(t, Occupying(n)') = 0 /\ Count(t, Occupying(n)) = d
      BY <2>2, <2>4, <2>5, <3>1
    <3>3. (x - d) - x = (l - l) + (0 - d)
      BY ONLY <3>1
    <3>4. QED
      BY <3>1, <3>2, <3>3
  <2>7. QED
    BY <1>1, <2>3, <2>6, QuotaStep
<1>8. ASSUME NEW t \in Threads, ReturnHealthy(t)
      PROVE  QuotaExact'
  <2>1. PICK m \in Nodes : m = node[t]
    BY <1>8 DEF ReturnHealthy, TypeOK
  <2>2. /\ fd[t] \in Fds /\ freeFds[m] \in Seq(Fds)
        /\ freeFds' = [freeFds EXCEPT ![m] = Append(@, fd[t])]
        /\ UNCHANGED active_count
        /\ pc[t] \in Using /\ pc[t] # "waiting"
        /\ NotifyOne(m, [pc EXCEPT ![t] = "idle"]) /\ node' = [node EXCEPT ![t] = NoNode]
    BY <1>8, <2>1 DEF ReturnHealthy, Leave, Using, TypeOK
  <2>3. /\ \A n \in Nodes : \A u \in Threads \ {t} : u \in Occupying(n)' <=> u \in Occupying(n)
        /\ \A n \in Nodes : t \notin Occupying(n)'
    BY <2>2, NotifyOccupies
  <2>4. \A n \in Nodes : Count(t, Occupying(n)) = Count(n, {m}) /\ Count(t, Occupying(n)') = 0
    BY <2>1, <2>2, <2>3 DEF Occupying, Using, Count
  <2>5. \A n \in Nodes : Len(freeFds'[n]) = Len(freeFds[n]) + Count(n, {m})
    BY <2>2, AppendProperties DEF Count, TypeOK
  <2>6. ASSUME NEW n \in Nodes
        PROVE  active_count'[n] - active_count[n] =
                 (Len(freeFds'[n]) - Len(freeFds[n]))
                   + (Count(t, Occupying(n)') - Count(t, Occupying(n)))
    <3>1. PICK x \in Int, l \in Int, d \in Int :
            x = active_count[n] /\ l = Len(freeFds[n]) /\ d = Count(n, {m})
      BY <1>2 DEF Count
    <3>2. /\ active_count'[n] = x /\ Len(freeFds'[n]) = l + d
          /\ Count(t, Occupying(n)') = 0 /\ Count(t, Occupying(n)) = d
      BY <2>2, <2>4, <2>5, <3>1
    <3>3. x - x = ((l + d) - l) + (0 - d)
      BY ONLY <3>1
    <3>4. QED
      BY <3>1, <3>2, <3>3
  <2>7. QED
    BY <1>1, <2>3, <2>6, QuotaStep
<1>9. CASE Destroy
  <2> SUFFICES ASSUME NEW n \in Nodes
               PROVE  active_count'[n] = Len(freeFds'[n]) + Cardinality(Occupying(n)')
    BY DEF QuotaExact
  <2>1. Occupying(n)' = {}
    BY <1>9 DEF Destroy, Occupying
  <2>2. active_count'[n] = 0 /\ Len(freeFds'[n]) = 0
    BY <1>9 DEF Destroy
  <2>3. QED
    BY <2>1, <2>2, FS_EmptySet
<1>10. CASE UNCHANGED vars
  BY <1>10 DEF vars, QuotaExact, Occupying
<1>11. QED
  BY <1>4, <1>5, <1>6, <1>7, <1>8, <1>9, <1>10 DEF Next, Borrowing, Exited

(* active_count is exact in every reachable state: no way out of a borrow  *)
(* or a return counts twice or not at all.                                 *)
THEOREM QuotaExactHolds == Spec => []QuotaExact
<1>1. Init => TypeOK /\ QuotaExact
  BY TypeInit, QuotaInit
<1>2. TypeOK /\ QuotaExact /\ [Next]_vars => (TypeOK /\ QuotaExact)'
  BY TypeNext, QuotaNext
<1>3. QED
  BY <1>1, <1>2, PTL DEF Spec

-----------------------------------------------------------------------------
(* No lost wakeup                                                          *)

(* Nobody sleeps at n, or enough threads are awake for its idle            *)
(* connections.                                                            *)
WokenEnough(n) == Sleeping(n) # {} => Len(freeFds[n]) <= Cardinality(Awake(n))

(* The waiters on their way to the lock can be counted.                    *)
LEMMA AwakeFinite ==
  ASSUME NEW n
  PROVE  /\ IsFiniteSet(Awake(n)) /\ Cardinality(Awake(n)) \in Nat
         /\ IsFiniteSet(Awake(n)') /\ Cardinality(Awake(n)') \in Nat
<1>1. Awake(n) \in SUBSET Threads /\ Awake(n)' \in SUBSET Threads
  BY DEF Awake
<1>2. QED
  BY <1>1, FiniteAssumption, FS_Subset, FS_CardinalityType

(* The queue does not grow, nobody goes to sleep and nobody awake leaves.  *)
LEMMA WokenStill ==
  ASSUME TypeOK, TypeOK', NEW n \in Nodes, WokenEnough(n),
         Sleeping(n)' \subseteq Sleeping(n), Awake(n) \subseteq Awake(n)',
         Len(freeFds'[n]) <= Len(freeFds[n])
  PROVE  WokenEnough(n)'
<1>1. Cardinality(Awake(n)) <= Cardinality(Awake(n)')
  BY AwakeFinite, FS_Subset
<1>2. /\ freeFds[n] \in Seq(Fds) /\ freeFds'[n] \in Seq(Fds)
      /\ Cardinality(Awake(n)) \in Int /\ Cardinality(Awake(n)') \in Int
  BY AwakeFinite DEF TypeOK
<1>3. PICK l \in Int, k \in Int, a \in Int, b \in Int :
         /\ l = Len(freeFds[n]) /\ k = Len(freeFds'[n])
         /\ a = Cardinality(Awake(n)) /\ b = Cardinality(Awake(n)')
  BY <1>2, LenProperties
<1>4. Sleeping(n)' # {} => l <= a
  BY <1>3 DEF WokenEnough
<1>5. l <= a => k <= b
  BY <1>1, <1>3
<1>6. QED
  BY <1>3, <1>4, <1>5 DEF WokenEnough

(* Nothing is in the queue.                                                *)
LEMMA WokenEmpty ==
  ASSUME NEW n \in Nodes, Len(freeFds'[n]) = 0
  PROVE  WokenEnough(n)'
<1>1. 0 <= Cardinality(Awake(n)')
  BY AwakeFinite
<1>2. QED
  BY <1>1 DEF WokenEnough

(* A waiter that takes a connection lowers both sides by one.              *)
LEMMA WokenTake ==
  ASSUME TypeOK, TypeOK', NEW t \in Threads, WakeTake(t), NEW n \in Nodes, WokenEnough(n)
  PROVE  WokenEnough(n)'
<1>1. /\ freeFds' = [freeFds EXCEPT ![node[t]] = Tail(@)] /\ freeFds[node[t]] # <<>>
      /\ pc' = [pc EXCEPT ![t] = "holding"] /\ pc[t] \in {"notified", "timedout"}
      /\ node' = node /\ node[t] \in Nodes
  BY DEF WakeTake, TakeFree, PopFree, TypeOK
<1>2. Sleeping(n)' \subseteq Sleeping(n)
  BY <1>1 DEF Sleeping, TypeOK
<1>3. CASE n # node[t]
  <2>1. Awake(n) \subseteq Awake(n)' /\ freeFds'[n] = freeFds[n]
    BY <1>1, <1>3 DEF Awake, TypeOK
  <2>2. Len(freeFds'[n]) <= Len(freeFds[n])
    BY <2>1, LenProperties DEF TypeOK
  <2>3. QED
    BY <1>2, <2>1, <2>2, WokenStill
<1>4. CASE n = node[t]
  <2>1. t \in Awake(n) /\ Awake(n)' = Awake(n) \ {t}
    BY <1>1, <1>4 DEF Awake, TypeOK
  <2>2. Cardinality(Awake(n)') = Cardinality(Awake(n)) - 1
    BY <2>1, AwakeFinite, FS_RemoveElement
  <2>3. Len(freeFds'[n]) = Len(freeFds[n]) - 1
    BY <1>1, <1>4 DEF TypeOK
  <2>4. Len(freeFds[n]) \in Int /\ Cardinality(Awake(n)) \in Int
    BY AwakeFinite, LenProperties DEF TypeOK
  <2>5. QED
    BY <1>2, <2>2, <2>3, <2>4 DEF WokenEnough
<1>5. QED
  BY <1>3, <1>4

(* A return that queues a connection wakes a sleeper if there is one.      *)
LEMMA WokenReturn ==
  ASSUME TypeOK, TypeOK', NEW t \in Threads, ReturnHealthy(t), NEW n \in Nodes, WokenEnough(n)
  PROVE  WokenEnough(n)'
<1>1. PICK m \in Nodes : m = node[t]
  BY DEF ReturnHealthy, TypeOK
<1>2. /\ freeFds' = [freeFds EXCEPT ![m] = Append(@, fd[t])] /\ fd[t] \in Fds
      /\ pc[t] = "holding"
      /\ node' = [node EXCEPT ![t] = NoNode]
      /\ NotifyOne(m, [pc EXCEPT ![t] = "idle"])
  BY <1>1 DEF ReturnHealthy, Leave, TypeOK
<1>3. CASE Sleeping(m) = {} /\ pc' = [pc EXCEPT ![t] = "idle"]
  <2>1. Sleeping(n)' \subseteq Sleeping(n) /\ Awake(n) \subseteq Awake(n)'
    BY <1>2, <1>3 DEF Sleeping, Awake, TypeOK
  <2>2. CASE n = m
    BY <1>3, <2>1, <2>2 DEF WokenEnough
  <2>3. CASE n # m
    <3>1. freeFds'[n] = freeFds[n]
      BY <1>2, <2>3 DEF TypeOK
    <3>2. Len(freeFds'[n]) <= Len(freeFds[n])
      BY <3>1, LenProperties DEF TypeOK
    <3>3. QED
      BY <2>1, <3>2, WokenStill
  <2>4. QED
    BY <2>2, <2>3
<1>4. ASSUME NEW u \in Sleeping(m), pc' = [pc EXCEPT ![t] = "idle", ![u] = "notified"]
      PROVE  WokenEnough(n)'
  <2>1. u \in Threads /\ u # t /\ pc[u] = "waiting" /\ node[u] = m
    BY <1>2, <1>4 DEF Sleeping
  <2>2. Sleeping(n)' \subseteq Sleeping(n) /\ Awake(n) \subseteq Awake(n)'
    BY <1>2, <1>4, <2>1 DEF Sleeping, Awake, TypeOK
  <2>3. CASE n = m
    <3>1. u \notin Awake(n) /\ Awake(n)' = Awake(n) \union {u}
      BY <1>1, <1>2, <1>4, <2>1, <2>3, NullAssumption DEF Awake, TypeOK
    <3>2. Cardinality(Awake(n)') = Cardinality(Awake(n)) + 1
      BY <3>1, AwakeFinite, FS_AddElement
    <3>3. Len(freeFds'[n]) = Len(freeFds[n]) + 1
      BY <1>2, <2>3, AppendProperties DEF TypeOK
    <3>4. Len(freeFds[n]) <= Cardinality(Awake(n))
      BY <1>4, <2>3 DEF WokenEnough
    <3>5. Len(freeFds[n]) \in Int /\ Cardinality(Awake(n)) \in Int
      BY AwakeFinite, LenProperties DEF TypeOK
    <3>6. QED
      BY <3>2, <3>3, <3>4, <3>5 DEF WokenEnough
  <2>4. CASE n # m
    <3>1. freeFds'[n] = freeFds[n]
      BY <1>2, <2>4 DEF TypeOK
    <3>2. Len(freeFds'[n]) <= Len(freeFds[n])
      BY <3>1, LenProperties DEF TypeOK
    <3>3. QED
      BY <2>2, <3>2, WokenStill
  <2>5. QED
    BY <2>3, <2>4
<1>5. QED
  BY <1>2, <1>3, <1>4 DEF NotifyOne

(* No step leaves sleepers with more idle connections than waiters awake.  *)
LEMMA WokenNext == TypeOK /\ NoLostWakeup /\ [Next]_vars => NoLostWakeup'
<1> SUFFICES ASSUME TypeOK, NoLostWakeup, [Next]_vars, NEW n \in Nodes PROVE WokenEnough(n)'
  BY DEF NoLostWakeup, WokenEnough
<1>1. TypeOK' /\ WokenEnough(n)
  BY TypeNext DEF NoLostWakeup, WokenEnough
<1>2. Len(freeFds[n]) \in Nat
  BY LenProperties DEF TypeOK
<1>3. ASSUME UNCHANGED freeFds, Sleeping(n)' \subseteq Sleeping(n), Awake(n) \subseteq Awake(n)'
      PROVE  WokenEnough(n)'
  <2>1. Len(freeFds'[n]) <= Len(freeFds[n])
    BY <1>2, <1>3
  <2>2. QED
    BY <1>1, <1>3, <2>1, WokenStill
<1>4. ASSUME NEW t \in Threads,
             \/ \E m \in Nodes : BorrowConnection(t, m)
             \/ BorrowReserve(t) \/ Socket(t) \/ SocketFails(t) \/ ConnectOk(t)
             \/ ConnectFails(t) \/ SpuriousWakeup(t) \/ Deadline(t)
      PROVE  WokenEnough(n)'
  <2>1. UNCHANGED freeFds
    BY <1>4 DEF BorrowConnection, BorrowReserve, Socket, SocketFails, ConnectOk,
                ConnectFails, SpuriousWakeup, Deadline
  <2>2. Sleeping(n)' \subseteq Sleeping(n) /\ Awake(n) \subseteq Awake(n)'
    BY <1>4 DEF BorrowConnection, BorrowReserve, Socket, SocketFails, ConnectOk,
                ConnectFails, SpuriousWakeup, Deadline, Sleeping, Awake, TypeOK
  <2>3. QED
    BY <1>3, <2>1, <2>2
<1>5. ASSUME NEW t \in Threads, Rollback(t) \/ ReturnBad(t)
      PROVE  WokenEnough(n)'
  <2>1. /\ UNCHANGED freeFds /\ pc[t] \in {"rollback", "holding"}
        /\ NotifyOne(node[t], [pc EXCEPT ![t] = "idle"])
        /\ node' = [node EXCEPT ![t] = NoNode]
    BY <1>5 DEF Rollback, ReturnBad, Leave
  <2>2. Sleeping(n)' \subseteq Sleeping(n) /\ Awake(n) \subseteq Awake(n)'
    BY <2>1 DEF NotifyOne, Sleeping, Awake, TypeOK
  <2>3. QED
    BY <1>3, <2>1, <2>2
<1>6. ASSUME NEW t \in Threads, BorrowFree(t)
      PROVE  WokenEnough(n)'
  <2>1. /\ freeFds' = [freeFds EXCEPT ![node[t]] = Tail(@)] /\ freeFds[node[t]] # <<>>
        /\ pc' = [pc EXCEPT ![t] = "holding"] /\ pc[t] = "locking"
        /\ node' = node
    BY <1>6 DEF BorrowFree, TakeFree, PopFree
  <2>2. Sleeping(n)' \subseteq Sleeping(n) /\ Awake(n) \subseteq Awake(n)'
    BY <2>1 DEF Sleeping, Awake, TypeOK
  <2>3. Len(freeFds'[n]) <= Len(freeFds[n])
    BY <1>2, <2>1 DEF TypeOK
  <2>4. QED
    BY <1>1, <2>2, <2>3, WokenStill
<1>7. ASSUME NEW t \in Threads, BorrowWait(t) \/ WakeSleep(t) \/ GiveUp(t)
      PROVE  WokenEnough(n)'
  <2>1. UNCHANGED freeFds /\ freeFds[node[t]] = <<>>
    BY <1>7 DEF BorrowWait, WakeSleep, GiveUp
  <2>2. CASE n = node[t]
    BY <2>1, <2>2, WokenEmpty
  <2>3. CASE n # node[t]
    <3>1. Sleeping(n)' \subseteq Sleeping(n) /\ Awake(n) \subseteq Awake(n)'
      BY <1>7, <2>3 DEF BorrowWait, WakeSleep, GiveUp, Leave, Sleeping, Awake, TypeOK
    <3>2. QED
      BY <1>3, <2>1, <3>1
  <2>4. QED
    BY <2>2, <2>3
<1>8. CASE Destroy
  BY <1>8, WokenEmpty DEF Destroy
<1>9. CASE UNCHANGED vars
  <2>1. UNCHANGED freeFds /\ Sleeping(n)' = Sleeping(n) /\ Awake(n)' = Awake(n)
    BY <1>9 DEF vars, Sleeping, Awake
  <2>2. QED
    BY <1>3, <2>1
<1>10. QED
  BY <1>1, <1>4, <1>5, <1>6, <1>7, <1>8, <1>9, WokenTake, WokenReturn
  DEF Next, Borrowing, Exited

(* While somebody sleeps, every idle connection has an awake waiter, for   *)
(* any number of threads: one notify_one per return is enough.             *)
THEOREM NoLostWakeupHolds == Spec => []NoLostWakeup
<1>1. Init => TypeOK /\ NoLostWakeup
  BY TypeInit DEF Init, NoLostWakeup, Sleeping
<1>2. TypeOK /\ NoLostWakeup /\ [Next]_vars => (TypeOK /\ NoLostWakeup)'
  BY TypeNext, WokenNext
<1>3. QED
  BY <1>1, <1>2, PTL DEF Spec

-----------------------------------------------------------------------------
(* The limit                                                               *)

(* A count never exceeds the limit; a borrower reserves below it.          *)
CountBelow == \A n \in Nodes : active_count[n] <= maxConnPerNode

(* At first no bucket counts anything.                                     *)
LEMMA CountBelowInit == Init => CountBelow
  BY MaxAssumption DEF Init, CountBelow

(* No step takes a count above the limit.                                  *)
LEMMA CountBelowNext == TypeOK /\ CountBelow /\ [Next]_vars => CountBelow'
<1> SUFFICES ASSUME TypeOK, CountBelow, [Next]_vars, NEW n \in Nodes
             PROVE  active_count'[n] <= maxConnPerNode
  BY DEF CountBelow
<1> USE MaxAssumption
<1>1. active_count[n] <= maxConnPerNode /\ active_count[n] \in Int
  BY DEF CountBelow, TypeOK
<1>2. ASSUME UNCHANGED active_count PROVE active_count'[n] <= maxConnPerNode
  BY <1>1, <1>2
<1>3. ASSUME NEW t \in Threads, BorrowReserve(t) PROVE active_count'[n] <= maxConnPerNode
  BY <1>1, <1>3 DEF BorrowReserve, HasQuota, TypeOK
<1>4. ASSUME NEW t \in Threads, Rollback(t) \/ ReturnBad(t)
      PROVE  active_count'[n] <= maxConnPerNode
  <2>1. active_count' = [active_count EXCEPT ![node[t]] = @ - 1]
    BY <1>4 DEF Rollback, ReturnBad, ReleaseSlot
  <2>2. active_count'[n] \in {active_count[n], active_count[n] - 1}
    BY <2>1 DEF TypeOK
  <2>3. QED
    BY <1>1, <2>2
<1>5. CASE Destroy
  BY <1>5 DEF Destroy
<1>6. QED
  BY <1>2, <1>3, <1>4, <1>5
  DEF Next, Borrowing, Exited, vars, BorrowConnection, BorrowFree, BorrowWait, Socket, SocketFails,
      ConnectOk, ConnectFails, WakeTake, TakeFree, WakeSleep, GiveUp, SpuriousWakeup, Deadline,
      ReturnHealthy

(* The sockets open to n, the threads that own one, and the places of the  *)
(* idle ones.                                                              *)
OpenTo(n) == {f \in Fds : sock[f] = n}

Owning(n) == {t \in Threads : fd[t] # NoFd /\ node[t] = n}

(* The values of a sequence are no more than its length, and the           *)
(* descriptors of a set of threads no more than the threads.               *)
LEMMA FewValues ==
  ASSUME NEW s \in Seq(Fds)
  PROVE  /\ IsFiniteSet({s[i] : i \in 1..Len(s)})
         /\ Cardinality({s[i] : i \in 1..Len(s)}) <= Len(s)
<1> DEFINE V == {s[i] : i \in 1..Len(s)}
<1>1. Len(s) \in Nat /\ s \in [1..Len(s) -> V]
  BY LenProperties
<1>2. s \in Surjection(1..Len(s), V)
  BY <1>1 DEF Surjection
<1>3. IsFiniteSet(1..Len(s)) /\ Cardinality(1..Len(s)) = Len(s)
  BY <1>1, FS_Interval
<1>4. IsFiniteSet(V) /\ Cardinality(V) <= Len(s)
  <2> HIDE DEF V
  <2>1. QED
    BY <1>2, <1>3, FS_Surjection
<1>5. QED
  BY <1>4

(* Threads have no more descriptors than there are threads.                *)
LEMMA FewDescriptors ==
  ASSUME NEW T \in SUBSET Threads
  PROVE  /\ IsFiniteSet({fd[t] : t \in T})
         /\ Cardinality({fd[t] : t \in T}) <= Cardinality(T)
<1> DEFINE g == [t \in T |-> fd[t]]
           V == {fd[t] : t \in T}
<1>1. g \in Surjection(T, V)
  BY DEF Surjection
<1>2. IsFiniteSet(T)
  BY FiniteAssumption, FS_Subset
<1>3. QED
  BY <1>1, <1>2, FS_Surjection

(* What is open to n is idle or owned, so it is no more than both.         *)
LEMMA OpenBound ==
  ASSUME TypeOK, OneOwner, NoLeak, NEW n \in Nodes
  PROVE  /\ Cardinality(OpenTo(n)) \in Nat
         /\ Cardinality(OpenTo(n)) <= Len(freeFds[n]) + Cardinality(Owning(n))
<1> DEFINE Q == {freeFds[n][i] : i \in 1..Len(freeFds[n])}
           D == {fd[t] : t \in Owning(n)}
<1>1. freeFds[n] \in Seq(Fds) /\ Len(freeFds[n]) \in Nat
  BY LenProperties DEF TypeOK
<1>2. IsFiniteSet(Q) /\ Cardinality(Q) <= Len(freeFds[n])
  BY <1>1, FewValues
<1>3. Owning(n) \in SUBSET Threads
  BY DEF Owning
<1>4. /\ IsFiniteSet(D) /\ Cardinality(D) <= Cardinality(Owning(n))
      /\ Cardinality(Owning(n)) \in Nat
  BY <1>3, FewDescriptors, FiniteAssumption, FS_Subset, FS_CardinalityType
<1>5. OpenTo(n) \subseteq Q \union D
  <2> SUFFICES ASSUME NEW f \in Fds, sock[f] = n PROVE f \in Q \/ f \in D
    BY DEF OpenTo
  <2>1. CASE Idle(f)
    <3>1. PICK m \in Nodes : \E i \in 1..Len(freeFds[m]) : freeFds[m][i] = f
      BY <2>1 DEF Idle
    <3>2. m = n
      BY <3>1 DEF OneOwner, QueueOwns
    <3>3. QED
      BY <3>1, <3>2
  <2>2. CASE \E t \in Threads : fd[t] = f
    BY <2>2, NullAssumption DEF OneOwner, ThreadOwns, Owning
  <2>3. QED
    BY <2>1, <2>2, NullAssumption DEF NoLeak
<1>6. /\ IsFiniteSet(Q \union D)
      /\ Cardinality(Q \union D) <= Cardinality(Q) + Cardinality(D)
      /\ Cardinality(Q) \in Nat /\ Cardinality(D) \in Nat /\ Cardinality(Q \union D) \in Nat
  <2>1. IsFiniteSet(Q \union D) /\ IsFiniteSet(Q \intersect D)
    BY <1>2, <1>4, FS_Union, FS_Intersection
  <2>2. /\ Cardinality(Q) \in Nat /\ Cardinality(D) \in Nat /\ Cardinality(Q \union D) \in Nat
        /\ Cardinality(Q \intersect D) \in Nat
    BY <1>2, <1>4, <2>1, FS_CardinalityType
  <2>3. Cardinality(Q \union D) = Cardinality(Q) + Cardinality(D) - Cardinality(Q \intersect D)
    BY <1>2, <1>4, FS_Union
  <2>4. QED
    BY <2>1, <2>2, <2>3
<1>7. /\ Cardinality(OpenTo(n)) \in Nat
      /\ Cardinality(OpenTo(n)) <= Cardinality(Q \union D)
  BY <1>5, <1>6, FS_Subset, FS_CardinalityType
<1> HIDE DEF Q, D
<1>8. QED
  BY <1>1, <1>2, <1>4, <1>6, <1>7

(* A thread with a reservation and no socket yet finds room for one.       *)
LEMMA RoomForOne ==
  ASSUME TypeOK, OneOwner, NoLeak, QuotaExact, CountBelow,
         NEW t \in Threads, pc[t] = "reserved"
  PROVE  Cardinality(OpenTo(node[t])) < maxConnPerNode
<1>1. PICK n \in Nodes : n = node[t]
  BY DEF TypeOK
<1>2. /\ Owning(n) \subseteq Occupying(n) \ {t}
      /\ t \in Occupying(n)
  BY <1>1 DEF Owning, Occupying, TypeOK
<1>3. /\ IsFiniteSet(Occupying(n) \ {t})
      /\ Cardinality(Occupying(n) \ {t}) = Cardinality(Occupying(n)) - 1
      /\ Cardinality(Occupying(n)) \in Nat
  BY <1>2, OccupyingFinite, FS_RemoveElement
<1>4. /\ Cardinality(Owning(n)) \in Nat
      /\ Cardinality(Owning(n)) <= Cardinality(Occupying(n)) - 1
  BY <1>2, <1>3, FS_Subset, FS_CardinalityType
<1>5. active_count[n] = Len(freeFds[n]) + Cardinality(Occupying(n))
  BY DEF QuotaExact
<1>6. active_count[n] <= maxConnPerNode /\ active_count[n] \in Int /\ maxConnPerNode \in Int
  BY MaxAssumption DEF CountBelow, TypeOK
<1>7. /\ Cardinality(OpenTo(n)) \in Nat
      /\ Cardinality(OpenTo(n)) <= Len(freeFds[n]) + Cardinality(Owning(n))
  BY OpenBound
<1>8. Len(freeFds[n]) \in Nat
  BY LenProperties DEF TypeOK
<1>9. Cardinality(OpenTo(n)) < maxConnPerNode
  <2> DEFINE o == Cardinality(OpenTo(n))
             l == Len(freeFds[n])
             w == Cardinality(Owning(n))
             c == Cardinality(Occupying(n))
  <2>1. o \in Int /\ l \in Int /\ w \in Int /\ c \in Int
    BY <1>3, <1>4, <1>7, <1>8
  <2>2. o <= l + w /\ w <= c - 1 /\ l + c <= maxConnPerNode
    BY <1>4, <1>5, <1>6, <1>7
  <2> HIDE DEF o, l, w, c
  <2>3. o < maxConnPerNode
    BY ONLY <1>6, <2>1, <2>2
  <2>4. QED
    BY <2>3 DEF o
<1>10. QED
  BY <1>1, <1>9

Limited == \A n \in Nodes : Cardinality(OpenTo(n)) <= maxConnPerNode

(* All of what the refinement needs holds at first.                        *)
LEMMA CountInit == Init => TypeOK /\ OneOwner /\ LeakInv /\ QuotaExact /\ CountBelow
  BY TypeInit, OwnerInit, LeakInit, QuotaInit, CountBelowInit

(* All of it is kept by every step.                                        *)
LEMMA CountNext ==
  TypeOK /\ OneOwner /\ LeakInv /\ QuotaExact /\ CountBelow /\ [Next]_vars
    => (TypeOK /\ OneOwner /\ LeakInv /\ QuotaExact /\ CountBelow)'
  BY TypeNext, OwnerNext, LeakNext, QuotaNext, CountBelowNext

(* No node ever has more open connections than maxConnPerNode: slots are   *)
(* reserved before the socket is made and given back after it is closed.   *)
THEOREM LimitHolds == Spec => []Limited
<1>1. TypeOK /\ OneOwner /\ LeakInv /\ QuotaExact /\ CountBelow => Limited
  <2> SUFFICES ASSUME TypeOK, OneOwner, LeakInv, QuotaExact, CountBelow, NEW n \in Nodes
               PROVE  Cardinality(OpenTo(n)) <= maxConnPerNode
    BY DEF Limited
  <2>1. Owning(n) \in SUBSET Occupying(n)
    BY DEF Owning, Occupying, TypeOK
  <2>2. /\ Cardinality(Owning(n)) \in Nat /\ Cardinality(Occupying(n)) \in Nat
        /\ Cardinality(Owning(n)) <= Cardinality(Occupying(n))
    BY <2>1, OccupyingFinite, FS_Subset, FS_CardinalityType
  <2>3. /\ Cardinality(OpenTo(n)) \in Nat
        /\ Cardinality(OpenTo(n)) <= Len(freeFds[n]) + Cardinality(Owning(n))
    BY OpenBound DEF LeakInv
  <2>4. /\ Len(freeFds[n]) + Cardinality(Occupying(n)) <= maxConnPerNode
        /\ Len(freeFds[n]) \in Nat /\ maxConnPerNode \in Nat
    BY LenProperties, MaxAssumption DEF QuotaExact, CountBelow, TypeOK
  <2> DEFINE o == Cardinality(OpenTo(n))
             l == Len(freeFds[n])
             w == Cardinality(Owning(n))
             c == Cardinality(Occupying(n))
  <2>5. o \in Int /\ l \in Int /\ w \in Int /\ c \in Int /\ maxConnPerNode \in Int
    BY <2>2, <2>3, <2>4
  <2>6. o <= l + w /\ w <= c /\ l + c <= maxConnPerNode
    BY <2>2, <2>3, <2>4
  <2> HIDE DEF o, l, w, c
  <2>7. o <= maxConnPerNode
    BY ONLY <2>5, <2>6
  <2>8. QED
    BY <2>7 DEF o
<1>2. QED
  BY <1>1, CountInit, CountNext, PTL DEF Spec

-----------------------------------------------------------------------------
(* The refinement, step by step                                            *)

(* Who has f, as the lease sees it.                                        *)
Lent == [f \in Fds |-> {t \in Threads : fd[t] = f}]

(* A free f becomes t's, or t's f becomes free.                            *)
LEMMA LentTo ==
  ASSUME TypeOK, NEW t \in Threads, NEW f \in Fds, fd[t] = NoFd,
         \A u \in Threads : fd[u] # f,
         fd' = [fd EXCEPT ![t] = f]
  PROVE  Lent' = [Lent EXCEPT ![f] = {t}]
<1>1. fd'[t] = f /\ \A u \in Threads \ {t} : fd'[u] = fd[u]
  BY DEF TypeOK
<1>2. {u \in Threads : fd'[u] = f} = {t}
  BY <1>1
<1>3. \A g \in Fds \ {f} : {u \in Threads : fd'[u] = g} = {u \in Threads : fd[u] = g}
  BY <1>1, NullAssumption
<1>4. Lent' = [g \in Fds |-> {u \in Threads : fd'[u] = g}]
  BY DEF Lent
<1>5. QED
  BY <1>2, <1>3, <1>4 DEF Lent

(* Steps that change neither the sockets nor the owners nor the nodes are  *)
(* no steps of the lease.                                                  *)
LEMMA LeaseStutter ==
  ASSUME UNCHANGED <<sock, node, fd>>
  PROVE  UNCHANGED Lease!vars
  BY DEF Lease!vars

(* A call of BorrowConnection asks for a lease.                            *)
LEMMA LeaseAsk ==
  ASSUME TypeOK, NEW t \in Threads, NEW n \in Nodes, BorrowConnection(t, n)
  PROVE  Lease!Ask(t, n)
  BY DEF BorrowConnection, TypeOK, Lease!Ask

(* A borrower that gives up, or whose connect has failed, is refused.      *)
LEMMA LeaseRefuse ==
  ASSUME TypeOK, NEW t \in Threads, Rollback(t) \/ GiveUp(t)
  PROVE  Lease!Refuse(t)
<1>1. /\ fd[t] = NoFd /\ node[t] # NoNode
      /\ node' = [node EXCEPT ![t] = NoNode] /\ UNCHANGED <<sock, fd>>
  BY DEF Rollback, GiveUp, Leave, TypeOK
<1>2. Lease!Leases(t) = {}
  BY <1>1, NullAssumption DEF Lease!Leases
<1>3. QED
  BY <1>1, <1>2 DEF Lease!Refuse

(* An idle connection that is taken is lent.                               *)
LEMMA LeaseLend ==
  ASSUME TypeOK, OneOwner, NEW t \in Threads, BorrowFree(t) \/ WakeTake(t)
  PROVE  \E f \in Fds : Lease!Lend(t, f)
<1>1. PICK m \in Nodes : m = node[t]
  BY DEF BorrowFree, WakeTake, TypeOK
<1>2. /\ freeFds[m] \in Seq(Fds) /\ freeFds[m] # <<>>
      /\ fd' = [fd EXCEPT ![t] = freeFds[m][1]]
      /\ UNCHANGED <<sock, node>>
      /\ fd[t] = NoFd
  BY <1>1 DEF BorrowFree, WakeTake, TakeFree, TypeOK
<1>3. PICK f \in Fds : f = freeFds[m][1] /\ sock[f] = m /\ Idle(f)
  <2>1. 1 \in 1..Len(freeFds[m]) /\ freeFds[m][1] \in Fds
    BY <1>2
  <2>2. QED
    BY <2>1 DEF OneOwner, QueueOwns, Idle
<1>4. \A u \in Threads : fd[u] # f
  BY <1>3, NullAssumption DEF OneOwner, ThreadOwns
<1>5. Lease!Leases(t) = {} /\ Lent[f] = {}
  BY <1>2, <1>4, NullAssumption DEF Lease!Leases, Lent
<1>6. Lent' = [Lent EXCEPT ![f] = {t}]
  BY <1>2, <1>3, <1>4, LentTo
<1>7. QED
  BY <1>1, <1>2, <1>3, <1>5, <1>6, NullAssumption DEF Lease!Lend, Lent

(* A socket that is made is open and lent, within the limit.               *)
LEMMA LeaseOpen ==
  ASSUME TypeOK, OneOwner, NoLeak, QuotaExact, CountBelow, NEW t \in Threads, Socket(t)
  PROVE  \E f \in Fds : Lease!Open(t, f)
<1>1. PICK f \in Fds : /\ sock[f] = NoNode
                       /\ sock' = [sock EXCEPT ![f] = node[t]]
                       /\ fd' = [fd EXCEPT ![t] = f]
  BY DEF Socket
<1>2. pc[t] = "reserved" /\ node[t] \in Nodes /\ fd[t] = NoFd /\ UNCHANGED node
  BY DEF Socket, TypeOK
<1>3. \A u \in Threads : fd[u] # f
  BY <1>1, NullAssumption DEF OneOwner, ThreadOwns, TypeOK
<1>4. Lease!Leases(t) = {} /\ Lent[f] = {}
  BY <1>2, <1>3, NullAssumption DEF Lease!Leases, Lent
<1>5. Lent' = [Lent EXCEPT ![f] = {t}]
  BY <1>1, <1>2, <1>3, LentTo
<1>6. Cardinality({g \in Fds : sock[g] = node[t]}) < maxConnPerNode
  BY <1>2, RoomForOne DEF OpenTo
<1>7. /\ node[t] # NoNode
      /\ sock' = [sock EXCEPT ![f] = node[t]]
      /\ UNCHANGED node
  BY <1>1, <1>2, NullAssumption
<1>8. Lease!Cardinality({g \in Fds : sock[g] = node[t]}) < maxConnPerNode
  BY <1>6 DEF Cardinality, Lease!Cardinality
<1>9. Lease!Open(t, f)
  BY <1>1, <1>4, <1>5, <1>7, <1>8 DEF Lease!Open, Lent
<1>10. QED
  BY <1>9

(* The owner of f has nothing any more, and nobody else has f.             *)
LEMMA LentBack ==
  ASSUME TypeOK, OneOwner, NEW t \in Threads, fd[t] # NoFd,
         fd' = [fd EXCEPT ![t] = NoFd]
  PROVE  /\ fd[t] \in Fds
         /\ Lent[fd[t]] = {t}
         /\ Lent' = [Lent EXCEPT ![fd[t]] = {}]
<1>1. fd[t] \in Fds /\ \A u \in Threads : fd[u] = fd[t] => u = t
  BY DEF TypeOK, OneOwner, ThreadOwns
<1>2. PICK f \in Fds : f = fd[t]
  BY <1>1
<1>3. fd'[t] = NoFd /\ \A u \in Threads \ {t} : fd'[u] = fd[u]
  BY DEF TypeOK
<1>4. {u \in Threads : fd[u] = f} = {t} /\ {u \in Threads : fd'[u] = f} = {}
  BY <1>1, <1>2, <1>3, NullAssumption
<1>5. \A g \in Fds \ {f} : {u \in Threads : fd'[u] = g} = {u \in Threads : fd[u] = g}
  BY <1>2, <1>3, NullAssumption
<1>6. Lent' = [g \in Fds |-> {u \in Threads : fd'[u] = g}]
  BY DEF Lent
<1>7. Lent[f] = {t}
  BY <1>4 DEF Lent
<1>8. Lent' = [Lent EXCEPT ![f] = {}]
  <2> DEFINE Has(g) == {u \in Threads : fd[u] = g}
             HasNext(g) == {u \in Threads : fd'[u] = g}
             Nobody == {}
  <2>1. HasNext(f) = Nobody /\ \A g \in Fds \ {f} : HasNext(g) = Has(g)
    BY <1>4, <1>5
  <2>2. Lent = [g \in Fds |-> Has(g)] /\ Lent' = [g \in Fds |-> HasNext(g)]
    BY <1>6 DEF Lent
  <2> HIDE DEF Has, HasNext, Nobody
  <2>3. Lent' = [Lent EXCEPT ![f] = Nobody]
    BY <2>1, <2>2
  <2>4. QED
    BY <2>3 DEF Nobody
<1>9. QED
  BY <1>2, <1>7, <1>8

(* A healthy connection that comes back is given back.                     *)
LEMMA LeaseGiveBack ==
  ASSUME TypeOK, OneOwner, NEW t \in Threads, ReturnHealthy(t)
  PROVE  \E f \in Fds : Lease!GiveBack(t, f)
<1>1. /\ fd[t] # NoFd /\ fd' = [fd EXCEPT ![t] = NoFd]
      /\ node' = [node EXCEPT ![t] = NoNode] /\ UNCHANGED sock
  BY DEF ReturnHealthy, Leave, TypeOK
<1>2. QED
  BY <1>1, LentBack DEF Lease!GiveBack, Lent

(* A connection that fails, or comes back bad, is closed.                  *)
LEMMA LeaseClose ==
  ASSUME TypeOK, OneOwner, NEW t \in Threads, ConnectFails(t) \/ ReturnBad(t)
  PROVE  \E f \in Fds : Lease!Close(t, f)
<1>1. /\ fd[t] # NoFd /\ fd' = [fd EXCEPT ![t] = NoFd]
      /\ sock' = [sock EXCEPT ![fd[t]] = NoNode]
      /\ node' \in {node, [node EXCEPT ![t] = NoNode]}
  BY DEF ConnectFails, ReturnBad, CloseFd, Leave, TypeOK
<1>2. QED
  BY <1>1, LentBack DEF Lease!Close, Lent

(* The destructor closes all that is left.                                 *)
LEMMA LeaseCloseAll ==
  ASSUME TypeOK, LeakInv, LeakInv', Destroy
  PROVE  Lease!CloseAll
<1>1. \A t \in Threads : fd[t] = NoFd
  BY DEF Destroy, TypeOK
<1>2. sock' = [f \in Fds |-> NoNode]
  BY DEF Destroy, LeakInv, NoLeak
<1>3. QED
  BY <1>1, <1>2, NullAssumption DEF Lease!CloseAll, Destroy

(* The pool begins as the lease does.                                      *)
LEMMA LeaseInit == Init => Lease!Init
  BY NullAssumption DEF Init, Lease!Init

(* Every step of the pool is a step of the lease or none.                  *)
LEMMA LeaseNext ==
  TypeOK /\ OneOwner /\ LeakInv /\ QuotaExact /\ CountBelow /\ [Next]_vars
    => [Lease!Next]_(Lease!vars)
<1> SUFFICES ASSUME TypeOK, OneOwner, LeakInv, QuotaExact, CountBelow, [Next]_vars
             PROVE  Lease!Next \/ UNCHANGED Lease!vars
  OBVIOUS
<1>1. ASSUME NEW t \in Threads, NEW n \in Nodes, BorrowConnection(t, n)
      PROVE  Lease!Next
  BY <1>1, LeaseAsk DEF Lease!Next
<1>2. ASSUME NEW t \in Threads, Rollback(t) \/ GiveUp(t)
      PROVE  Lease!Next
  BY <1>2, LeaseRefuse DEF Lease!Next
<1>3. ASSUME NEW t \in Threads, BorrowFree(t) \/ WakeTake(t)
      PROVE  Lease!Next
  BY <1>3, LeaseLend DEF Lease!Next
<1>4. ASSUME NEW t \in Threads, Socket(t)
      PROVE  Lease!Next
  BY <1>4, LeaseOpen DEF LeakInv, Lease!Next
<1>5. ASSUME NEW t \in Threads, ReturnHealthy(t)
      PROVE  Lease!Next
  BY <1>5, LeaseGiveBack DEF Lease!Next
<1>6. ASSUME NEW t \in Threads, ConnectFails(t) \/ ReturnBad(t)
      PROVE  Lease!Next
  BY <1>6, LeaseClose DEF Lease!Next
<1>7. CASE Destroy
  BY <1>7, LeaseCloseAll, LeakNext DEF Lease!Next
<1>8. ASSUME NEW t \in Threads,
             \/ BorrowReserve(t) \/ BorrowWait(t) \/ SocketFails(t) \/ ConnectOk(t)
             \/ SpuriousWakeup(t) \/ Deadline(t) \/ WakeSleep(t)
      PROVE  UNCHANGED Lease!vars
  BY <1>8, LeaseStutter DEF BorrowReserve, BorrowWait, SocketFails, ConnectOk, SpuriousWakeup,
                            Deadline, WakeSleep
<1>9. CASE UNCHANGED vars
  BY <1>9, LeaseStutter DEF vars
<1>10. QED
  BY <1>1, <1>2, <1>3, <1>4, <1>5, <1>6, <1>7, <1>8, <1>9 DEF Next, Borrowing, Exited

(* Every behaviour of the pool is one of the lease: a connection is lent   *)
(* to one thread at a time, to the node asked for, within the limit.       *)
THEOREM LeaseImplemented == Spec => LeaseSpec
<1>1. QED
  BY CountInit, CountNext, LeaseInit, LeaseNext, PTL DEF Spec, LeaseSpec, Lease!Spec

=============================================================================
