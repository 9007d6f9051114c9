---------------------------- MODULE LoggerProofs ----------------------------
(***************************************************************************)
(* Proofs about the log, for any threads, any number of messages and days. *)
(***************************************************************************)
EXTENDS Logger, FiniteSetTheorems, SequenceTheorems, TLAPS

(* A thread in a macro has set the level.                                  *)
LevelSet ==
    /\ \A t \in Threads : stage[t] = "set" => level[t] \in Levels /\ loglevel \in Levels
    /\ \A i \in 1..Len(q) : q[i] \in Messages => loglevel \in Levels
    /\ \A i \in 1..Len(hand) : hand[i] \in Messages => loglevel \in Levels

(* The sentinel is under way only once Stop has begun.                     *)
SentinelStops ==
    /\ \A i \in 1..Len(q) : q[i] = Sentinel => stopping
    /\ \A i \in 1..Len(hand) : hand[i] = Sentinel => stopping
    /\ main # "running" => stopping

(* What the writer has at each point of its loop.                          *)
WriterHolds ==
    /\ writer \in {"open", "pop"} => hand = <<>>
    /\ writer \in {"check", "write"} => Len(hand) = 1
    /\ writer = "write" => hand[1] \in Messages /\ loglevel \in Levels
    /\ writer \in {"pop", "check", "write"} => file \in 1..LastDay

IInv == TypeOK /\ LevelSet /\ SentinelStops /\ WriterHolds

(***************************************************************************)
(* Initially the invariant holds.                                          *)
(***************************************************************************)
LEMMA InitInv == Init => IInv
  <1> SUFFICES ASSUME Init PROVE IInv
    OBVIOUS
  <1>1. /\ \A S : <<>> \in Seq(S)
        /\ Len(<<>>) = 0
        /\ 1 \in 1..LastDay /\ 0 \in 0..LastDay
    BY BoundAssumption, EmptySeq
  <1>2. TypeOK
    <2>1. stage \in [Threads -> {"idle", "set"}] /\ level \in [Threads -> Levels \union {"none"}]
      BY DEF Init
    <2>2. stopping \in BOOLEAN /\ loglevel \in Levels \union {"none"}
      BY DEF Init
    <2>3. /\ q = <<>> /\ hand = <<>> /\ pushed = <<>> /\ filed = <<>>
          /\ reader \in Queue!ReaderStages /\ writer \in WriterStages /\ main \in MainStages
      BY DEF Init, Queue!Init, Queue!ReaderStages, WriterStages, MainStages
    <2>4. file \in 0..LastDay /\ day \in 1..LastDay
      BY <1>1 DEF Init
    <2> QED BY <1>1, <2>1, <2>2, <2>3, <2>4 DEF TypeOK
  <1>3. LevelSet /\ SentinelStops /\ WriterHolds
    BY <1>1 DEF Init, LevelSet, SentinelStops, WriterHolds, Queue!Init
  <1> QED BY <1>2, <1>3 DEF IInv

(***************************************************************************)
(* Every step preserves it.                                                *)
(***************************************************************************)
LEMMA NextInv == IInv /\ [Next]_vars => IInv'
  <1> SUFFICES ASSUME IInv, [Next]_vars PROVE IInv'
    OBVIOUS
  <1> USE BoundAssumption
  <1>1. ASSUME NEW t \in Threads, NEW l \in Levels, SetLogLevel(t, l) PROVE IInv'
    BY <1>1 DEF IInv, TypeOK, LevelSet, SentinelStops, WriterHolds, SetLogLevel,
       queueVars, writerVars, Levels
  <1>2. ASSUME NEW t \in Threads, Log(t) PROVE IInv'
    <2> DEFINE m == [no |-> Len(pushed) + 1, level |-> level[t], day |-> day]
    <2>1. m \in Messages /\ m # Sentinel
      BY <1>2 DEF IInv, TypeOK, LevelSet, Log, Messages, Sentinel
    <2>2. q' = Append(q, m) /\ pushed' = Append(pushed, m) /\ reader' \in Queue!ReaderStages
      BY <1>2 DEF Log, Enqueue, Queue!Push, IInv, TypeOK, Queue!ReaderStages
    <2>3. loglevel \in Levels
      BY <1>2 DEF IInv, LevelSet, Log
    <2> HIDE DEF m
    <2>4. TypeOK'
      BY <1>2, <2>1, <2>2 DEF Log, IInv, TypeOK, writerVars
    <2>5. LevelSet' /\ SentinelStops' /\ WriterHolds'
      BY <1>2, <2>1, <2>2, <2>3
      DEF Log, IInv, TypeOK, LevelSet, SentinelStops, WriterHolds, writerVars
    <2> QED BY <2>4, <2>5 DEF IInv
  <1>3. CASE Open
    BY <1>3 DEF Open, OpenDaily, IInv, TypeOK, LevelSet, SentinelStops, WriterHolds,
       queueVars, WriterStages
  <1>4. CASE PopWait
    BY <1>4 DEF PopWait, Queue!PopWait, IInv, TypeOK, LevelSet, SentinelStops, WriterHolds,
       writerVars, Queue!ReaderStages
  <1>5. CASE Pop
    <2>1. q # <<>> /\ q' = Tail(q) /\ hand' = <<Head(q)>> /\ reader' = "out"
      BY <1>5 DEF Pop, Queue!Pop
    <2>2. Head(q) \in Messages \union {Sentinel} /\ Head(q) = q[1] /\ 1 \in 1..Len(q)
      BY <2>1 DEF IInv, TypeOK
    <2>3. \A i \in 1..Len(q') : q'[i] = q[i + 1] /\ i + 1 \in 1..Len(q)
      BY <2>1 DEF IInv, TypeOK
    <2>4. TypeOK'
      BY <1>5, <2>1, <2>2 DEF Pop, IInv, TypeOK, Queue!ReaderStages, WriterStages
    <2>5. LevelSet' /\ SentinelStops' /\ WriterHolds'
      BY <1>5, <2>1, <2>2, <2>3
      DEF Pop, IInv, TypeOK, LevelSet, SentinelStops, WriterHolds
    <2> QED BY <2>4, <2>5 DEF IInv
  <1>6. CASE Check
    <2>1. TypeOK'
      BY <1>6 DEF Check, IInv, TypeOK, queueVars, WriterStages
    <2>2. LevelSet' /\ SentinelStops'
      BY <1>6 DEF Check, IInv, LevelSet, SentinelStops, queueVars
    <2>3. ~stopping => hand[1] \in Messages /\ loglevel \in Levels
      <3>1. Len(hand) = 1 /\ hand \in Seq(Messages \union {Sentinel})
        BY <1>6 DEF Check, IInv, WriterHolds, TypeOK
      <3>2. 1 \in 1..Len(hand) /\ hand[1] \in Messages \union {Sentinel}
        BY <3>1, ElementOfSeq
      <3> QED BY <1>6, <3>2 DEF IInv, LevelSet, SentinelStops
    <2>4. WriterHolds'
      BY <1>6, <2>3 DEF Check, IInv, WriterHolds, queueVars
    <2> QED BY <2>1, <2>2, <2>4 DEF IInv
  <1>7. CASE Write
    BY <1>7 DEF Write, IInv, TypeOK, LevelSet, SentinelStops, WriterHolds, queueVars,
       WriterStages
  <1>8. CASE Wake
    <2>1. q' = Append(q, Sentinel) /\ pushed' = Append(pushed, Sentinel)
          /\ reader' \in Queue!ReaderStages
      BY <1>8 DEF Wake, PushSentinel, Enqueue, Queue!Push, IInv, TypeOK, Queue!ReaderStages
    <2>2. Sentinel \notin Messages
      BY DEF Sentinel, Messages
    <2>3. TypeOK'
      BY <1>8, <2>1 DEF Wake, IInv, TypeOK, writerVars, MainStages
    <2>4. \A i \in 1..Len(q') : (i \in 1..Len(q) /\ q'[i] = q[i]) \/ q'[i] = Sentinel
      <3>1. q \in Seq(Messages \union {Sentinel})
        BY DEF IInv, TypeOK
      <3> QED BY <2>1, <3>1, AppendProperties, LenProperties
    <2>5. stopping /\ UNCHANGED <<hand, writer, file, loglevel, stopping, stage, level>>
      BY <1>8 DEF Wake, IInv, SentinelStops, writerVars
    <2>6. LevelSet'
      BY <2>2, <2>4, <2>5 DEF IInv, LevelSet
    <2>7. SentinelStops' /\ WriterHolds'
      BY <2>5 DEF IInv, SentinelStops, WriterHolds
    <2> QED BY <2>3, <2>6, <2>7 DEF IInv
  <1>9. CASE OpenFails
    BY <1>9 DEF OpenFails, IInv, TypeOK, LevelSet, SentinelStops, WriterHolds, queueVars, writerVars,
       WriterStages
  <1>10. CASE Exchange \/ Join
    BY <1>10 DEF Exchange, Join, IInv, TypeOK, LevelSet, SentinelStops, WriterHolds, queueVars, writerVars,
       MainStages
  <1>11. CASE Midnight
    BY <1>11 DEF Midnight, IInv, TypeOK, LevelSet, SentinelStops, WriterHolds, queueVars, writerVars
  <1>12. CASE SpuriousWakeup
    BY <1>12 DEF SpuriousWakeup, Queue!SpuriousWakeup, Queue!ReaderStages,
       IInv, TypeOK, LevelSet, SentinelStops, WriterHolds, queueVars, writerVars
  <1>13. CASE UNCHANGED vars
    BY <1>13 DEF vars, IInv, TypeOK, LevelSet, SentinelStops, WriterHolds, queueVars, writerVars
  <1> QED
    BY <1>1, <1>2, <1>3, <1>4, <1>5, <1>6, <1>7, <1>8, <1>9, <1>10, <1>11, <1>12,
       <1>13
    DEF Next, WriterStep, MainStep, Over

(* All variables of the log keep to their types.                           *)
THEOREM TypeCorrect == Spec => []TypeOK
  <1>1. IInv => TypeOK
    BY DEF IInv
  <1> QED BY <1>1, InitInv, NextInv, PTL DEF Spec

-----------------------------------------------------------------------------
(* The writing thread never sleeps beside a queue with something in it:    *)
(* every push wakes it, and it looks before it waits.                      *)
THEOREM NoLostWakeupHolds == Spec => []NoLostWakeup
  <1>1. Init => NoLostWakeup
    BY DEF Init, NoLostWakeup, Queue!Init
  <1>2. NoLostWakeup /\ [Next]_vars => NoLostWakeup'
    BY DEF NoLostWakeup, Next, vars, SetLogLevel, Log, Enqueue, Queue!Push, WriterStep, Open,
       PopWait, Queue!PopWait, Pop, Queue!Pop, Check, Write, OpenFails, Exchange, MainStep,
       Wake, PushSentinel, Join, Midnight, SpuriousWakeup, Queue!SpuriousWakeup, Over,
       queueVars, writerVars
  <1> QED BY <1>1, <1>2, PTL DEF Spec

-----------------------------------------------------------------------------
M == Messages \union {Sentinel}

Lines == [msg : Messages, tag : Levels, file : 1..LastDay]

MessagesOf(s) == [i \in 1..Len(s) |-> s[i].msg]

(* The messages of lines, and of lines with one more.                      *)
LEMMA MessagesType ==
  ASSUME NEW s \in Seq(Lines)
  PROVE  MessagesOf(s) \in Seq(M) /\ Len(MessagesOf(s)) = Len(s)
  <1>0. Len(s) \in Nat /\ \A i \in 1..Len(s) : s[i] \in Lines
    BY ElementOfSeq, LenProperties
  <1>1. Len(s) \in Nat /\ \A i \in 1..Len(s) : s[i].msg \in M
    BY <1>0 DEF Lines, M
  <1>2. MessagesOf(s) \in [1..Len(s) -> M]
    BY <1>1 DEF MessagesOf
  <1>3. MessagesOf(s) \in Seq(M)
    BY <1>1, <1>2, SeqDef
  <1> QED BY <1>1, <1>3, <1>2, LenProperties

(* The messages of a queue that has been appended to.                      *)
LEMMA MessagesAppend ==
  ASSUME NEW s \in Seq(Lines), NEW e \in Lines
  PROVE  MessagesOf(Append(s, e)) = Append(MessagesOf(s), e.msg)
  <1>1. Append(s, e) \in Seq(Lines) /\ e.msg \in M
    BY AppendProperties DEF Lines, M
  <1>2. /\ Len(Append(s, e)) = Len(s) + 1
        /\ \A i \in 1..Len(s) : Append(s, e)[i] = s[i]
        /\ Append(s, e)[Len(s) + 1] = e
    BY AppendProperties
  <1>3. Len(s) \in Nat
    BY LenProperties
  <1>4. MessagesOf(Append(s, e)) \in Seq(M) /\ Len(MessagesOf(Append(s, e))) = Len(s) + 1
    BY <1>1, <1>2, MessagesType
  <1>5. MessagesOf(s) \in Seq(M) /\ Len(MessagesOf(s)) = Len(s)
    BY MessagesType
  <1>6. /\ Append(MessagesOf(s), e.msg) \in Seq(M)
        /\ Len(Append(MessagesOf(s), e.msg)) = Len(s) + 1
        /\ \A i \in 1..Len(s) : Append(MessagesOf(s), e.msg)[i] = MessagesOf(s)[i]
        /\ Append(MessagesOf(s), e.msg)[Len(s) + 1] = e.msg
    BY <1>1, <1>5, AppendProperties
  <1>7. \A i \in 1..Len(s) + 1 :
           MessagesOf(Append(s, e))[i] = Append(MessagesOf(s), e.msg)[i]
    BY <1>2, <1>3, <1>6 DEF MessagesOf
  <1> HIDE DEF MessagesOf
  <1> QED BY <1>4, <1>6, <1>7, SeqEqual

(* Appending at the end of three pieces, and moving one across a boundary. *)
LEMMA AppendLast ==
  ASSUME NEW a \in Seq(M), NEW b \in Seq(M), NEW c \in Seq(M), NEW e \in M
  PROVE  Append(a \o b \o c, e) = a \o b \o Append(c, e)
  <1>1. a \o b \in Seq(M) /\ (a \o b) \o c \in Seq(M) /\ <<e>> \in Seq(M)
    BY ConcatProperties
  <1>2. Append((a \o b) \o c, e) = ((a \o b) \o c) \o <<e>> /\ Append(c, e) = c \o <<e>>
    BY <1>1, AppendIsConcat
  <1>3. ((a \o b) \o c) \o <<e>> = (a \o b) \o (c \o <<e>>)
    BY <1>1, ConcatAssociative
  <1> QED BY <1>2, <1>3

(* Taking the head of a queue keeps the order of what is filed and queued. *)
LEMMA TakeHead ==
  ASSUME NEW a \in Seq(M), NEW c \in Seq(M), c # <<>>
  PROVE  a \o <<>> \o c = a \o <<Head(c)>> \o Tail(c)
  <1>1. /\ Head(c) \in M /\ Tail(c) \in Seq(M) /\ <<Head(c)>> \in Seq(M)
    BY HeadTailProperties
  <1>2. <<Head(c)>> \o Tail(c) = c
    <2>1. Len(c) \in Nat \ {0} /\ Head(c) = c[1]
      BY EmptySeq
    <2>2. Len(Tail(c)) = Len(c) - 1 /\ \A i \in 1..Len(Tail(c)) : Tail(c)[i] = c[i + 1]
      BY HeadTailProperties
    <2>3. Len(<<Head(c)>>) = 1 /\ <<Head(c)>>[1] = Head(c)
      OBVIOUS
    <2>4. /\ <<Head(c)>> \o Tail(c) \in Seq(M)
          /\ Len(<<Head(c)>> \o Tail(c)) = 1 + Len(Tail(c))
          /\ \A i \in 1..1 + Len(Tail(c)) : (<<Head(c)>> \o Tail(c))[i] =
                IF i <= 1 THEN <<Head(c)>>[i] ELSE Tail(c)[i - 1]
      BY <1>1, <2>3, ConcatProperties
    <2>5. \A i \in 1..Len(c) : (<<Head(c)>> \o Tail(c))[i] = c[i]
      BY <2>1, <2>2, <2>3, <2>4
    <2> QED BY <2>1, <2>2, <2>4, <2>5, SeqEqual
  <1>3. a \o <<>> = a
    BY ConcatEmptySeq
  <1>4. (a \o <<Head(c)>>) \o Tail(c) = a \o (<<Head(c)>> \o Tail(c))
    BY <1>1, ConcatAssociative
  <1> QED BY <1>2, <1>3, <1>4

(* Nothing is lost, repeated or reordered between Push and the files.      *)
THEOREM AccountedHolds == Spec => []Accounted
  <1>1. Init => Accounted
    BY DEF Init, Accounted, Queue!Init
  <1>2. IInv /\ Accounted /\ [Next]_vars => Accounted'
    <2> SUFFICES ASSUME IInv, Accounted, [Next]_vars PROVE Accounted'
      OBVIOUS
    <2> DEFINE Filed == MessagesOf(filed)
    <2>1. /\ filed \in Seq(Lines) /\ hand \in Seq(M) /\ q \in Seq(M)
          /\ Filed \in Seq(M) /\ Len(Filed) = Len(filed)
          /\ pushed = Filed \o hand \o q
      BY MessagesType DEF IInv, TypeOK, Accounted, MessagesOf, M, Lines
    <2>2. ASSUME NEW m \in M, Enqueue(m), UNCHANGED <<filed, hand>> PROVE Accounted'
      <3>1. pushed' = Append(pushed, m) /\ q' = Append(q, m)
        BY <2>2 DEF Enqueue, Queue!Push
      <3>2. Append(Filed \o hand \o q, m) = Filed \o hand \o Append(q, m)
        BY <2>1, <2>2, AppendLast
      <3> QED BY <2>1, <2>2, <3>1, <3>2 DEF Accounted, MessagesOf
    <2>3. CASE Pop
      <3>1. /\ hand = <<>> /\ hand' = <<Head(q)>>
            /\ q # <<>> /\ q' = Tail(q)
            /\ UNCHANGED <<filed, pushed>>
        BY <2>3 DEF Pop, Queue!Pop, IInv, WriterHolds
      <3>2. Filed \o <<>> \o q = Filed \o <<Head(q)>> \o Tail(q)
        BY <2>1, <3>1, TakeHead
      <3> QED BY <2>1, <3>1, <3>2 DEF Accounted, MessagesOf
    <2>4. CASE Write
      <3>1. /\ Len(hand) = 1 /\ hand' = <<>>
            /\ filed' = Append(filed, [msg |-> hand[1], tag |-> loglevel, file |-> file])
            /\ UNCHANGED <<q, pushed>>
        BY <2>4 DEF Write, IInv, WriterHolds, queueVars
      <3>2. /\ [msg |-> hand[1], tag |-> loglevel, file |-> file] \in Lines
            /\ hand[1] \in M
        BY <2>4 DEF Write, IInv, WriterHolds, Lines, M
      <3>3. MessagesOf(filed') = Append(Filed, hand[1])
        BY <2>1, <3>1, <3>2, MessagesAppend
      <3>4. hand = <<hand[1]>>
        BY <2>1, <3>1
      <3>5. Append(Filed, hand[1]) = Filed \o hand
        BY <2>1, <3>2, <3>4, AppendIsConcat
      <3>6. Filed \o hand \in Seq(M) /\ (Filed \o hand) \o <<>> = Filed \o hand
        BY <2>1, ConcatProperties, ConcatEmptySeq
      <3>7. pushed' = MessagesOf(filed') \o hand' \o q'
        BY <2>1, <3>1, <3>3, <3>5, <3>6
      <3> QED BY <3>7 DEF Accounted, MessagesOf
    <2>5. ASSUME NEW t \in Threads, Log(t) PROVE Accounted'
      <3> DEFINE m == [no |-> Len(pushed) + 1, level |-> level[t], day |-> day]
      <3>1. m \in M
        BY <2>5 DEF IInv, TypeOK, LevelSet, Log, Messages, M
      <3>2. Enqueue(m) /\ UNCHANGED <<filed, hand>>
        BY <2>5 DEF Log, writerVars
      <3> QED BY ONLY <2>2, <3>1, <3>2
    <2>6. CASE Wake
      BY <2>2, <2>6 DEF Wake, PushSentinel, writerVars, M
    <2>7. (UNCHANGED <<filed, hand, q, pushed>>) => Accounted'
      BY <2>1 DEF Accounted
    <2>8. ASSUME NEW t \in Threads, NEW l \in Levels, SetLogLevel(t, l) PROVE Accounted'
      BY <2>7, <2>8 DEF SetLogLevel, queueVars, writerVars
    <2> QED
      BY <2>3, <2>4, <2>5, <2>6, <2>7, <2>8
      DEF Next, WriterStep, MainStep, Open, PopWait, Queue!PopWait, Check, OpenFails, Exchange,
          Join, Midnight, SpuriousWakeup, Queue!SpuriousWakeup, Over, vars, queueVars, writerVars
  <1> QED BY <1>1, <1>2, InitInv, NextInv, PTL DEF Spec

-----------------------------------------------------------------------------
(* No message is of a day to come.                                         *)
PastDays ==
    /\ \A i \in 1..Len(q) : q[i].day <= day
    /\ \A i \in 1..Len(hand) : hand[i].day <= day
    /\ \A i \in 1..Len(filed) : filed[i].msg.day <= day

(* From Open to Write, the file open is of no day before those of the      *)
(* messages filed so far.                                                  *)
FileCurrent ==
    writer \in {"pop", "check", "write"} => \A i \in 1..Len(filed) : filed[i].msg.day <= file

(* A line goes to no file of a day before a message that is filed already. *)
LaterFiles ==
    \A i, j \in 1..Len(filed) : i < j => filed[i].msg.day <= filed[j].file

DateInv == PastDays /\ FileCurrent /\ LaterFiles

(* No step lets the open file fall behind a message that has been filed.   *)
LEMMA DateNext == IInv /\ DateInv /\ [Next]_vars => DateInv'
  <1> SUFFICES ASSUME IInv, DateInv, [Next]_vars PROVE DateInv'
    OBVIOUS
  <1> USE BoundAssumption
  <1>1. /\ q \in Seq(M) /\ hand \in Seq(M) /\ filed \in Seq(Lines)
        /\ day \in Int /\ file \in Int
    BY DEF IInv, TypeOK, M, Lines
  <1>2. /\ \A e \in M : e.day \in Int
        /\ \A i \in 1..Len(filed) : filed[i].msg.day \in Int /\ filed[i].file \in Int
    <2>1. \A e \in Messages : e.day \in Int
      BY DEF Messages
    <2>2. \A e \in M : e.day \in Int
      BY <2>1 DEF M, Sentinel
    <2>3. \A i \in 1..Len(filed) : filed[i] \in Lines
      BY <1>1, ElementOfSeq
    <2> QED BY <2>1, <2>2, <2>3 DEF Lines
  <1>3. ASSUME NEW m \in M, m.day <= day, q' = Append(q, m),
               UNCHANGED <<hand, filed, writer, file, day>>
        PROVE  DateInv'
    <2>1. \A i \in 1..Len(q') : (i \in 1..Len(q) /\ q'[i] = q[i]) \/ q'[i] = m
      BY <1>1, <1>3, AppendProperties, LenProperties
    <2>2. PastDays'
      BY <1>3, <2>1 DEF DateInv, PastDays
    <2>3. FileCurrent' /\ LaterFiles'
      BY <1>3 DEF DateInv, FileCurrent, LaterFiles
    <2> QED BY <2>2, <2>3 DEF DateInv
  <1>4. ASSUME NEW t \in Threads, Log(t) PROVE DateInv'
    <2> DEFINE m == [no |-> Len(pushed) + 1, level |-> level[t], day |-> day]
    <2>1. m \in M
      BY <1>4 DEF IInv, TypeOK, LevelSet, Log, Messages, M
    <2>2. m.day <= day
      BY <1>1
    <2>3. q' = Append(q, m) /\ UNCHANGED <<hand, filed, writer, file, day>>
      BY <1>4 DEF Log, Enqueue, Queue!Push, writerVars
    <2> HIDE DEF m
    <2> QED BY <1>3, <2>1, <2>2, <2>3
  <1>5. CASE Wake
    <2>1. Sentinel \in M /\ Sentinel.day <= day
      BY DEF M, Sentinel, IInv, TypeOK
    <2>2. q' = Append(q, Sentinel) /\ UNCHANGED <<hand, filed, writer, file, day>>
      BY <1>5 DEF Wake, PushSentinel, Enqueue, Queue!Push, writerVars
    <2> QED BY <1>3, <2>1, <2>2
  <1>6. CASE Open
    <2>1. /\ file' = day /\ writer' = "pop"
          /\ UNCHANGED <<q, hand, filed, day>>
      BY <1>6 DEF Open, OpenDaily, queueVars
    <2> QED BY <2>1 DEF DateInv, PastDays, FileCurrent, LaterFiles
  <1>7. CASE Pop
    <2>1. /\ q # <<>> /\ q' = Tail(q) /\ hand' = <<Head(q)>>
          /\ writer = "pop" /\ writer' = "check"
          /\ UNCHANGED <<file, filed, day>>
      BY <1>7 DEF Pop, Queue!Pop
    <2>2. Head(q) = q[1] /\ 1 \in 1..Len(q)
      BY <1>1, <2>1
    <2>3. \A i \in 1..Len(q') : q'[i] = q[i + 1] /\ i + 1 \in 1..Len(q)
      BY <1>1, <2>1
    <2>4. \A i \in 1..Len(hand') : hand'[i] = q[1]
      BY <2>1, <2>2
    <2>5. PastDays'
      BY <2>1, <2>2, <2>3, <2>4 DEF DateInv, PastDays
    <2>6. FileCurrent' /\ LaterFiles'
      BY <2>1 DEF DateInv, FileCurrent, LaterFiles
    <2> QED BY <2>5, <2>6 DEF DateInv
  <1>8. CASE Write
    <2> DEFINE e == [msg |-> hand[1], tag |-> loglevel, file |-> file]
    <2>1. /\ filed' = Append(filed, e) /\ hand' = <<>>
          /\ writer = "write" /\ writer' = "open"
          /\ UNCHANGED <<q, file, day>>
      BY <1>8 DEF Write, queueVars
    <2>2. Len(hand) = 1 /\ hand[1] \in M /\ e \in Lines
      BY <2>1 DEF IInv, WriterHolds, Lines, M
    <2>3. e.msg.day <= day /\ e.file = file
      BY <2>2 DEF DateInv, PastDays
    <2> HIDE DEF e
    <2>4. /\ Len(filed') = Len(filed) + 1 /\ Len(filed) \in Nat
          /\ filed'[Len(filed) + 1] = e
          /\ \A i \in 1..Len(filed) : filed'[i] = filed[i]
      BY <1>1, <2>1, <2>2, AppendProperties, LenProperties
    <2>5. PastDays'
      BY <2>1, <2>3, <2>4 DEF DateInv, PastDays
    <2>6. FileCurrent'
      BY <2>1 DEF FileCurrent
    <2>7. \A i \in 1..Len(filed) : filed[i].msg.day <= file
      BY <2>1 DEF DateInv, FileCurrent
    <2>8. LaterFiles'
      <3> SUFFICES ASSUME NEW i \in 1..Len(filed'), NEW j \in 1..Len(filed'), i < j
                   PROVE  filed'[i].msg.day <= filed'[j].file
        BY DEF LaterFiles
      <3>1. i \in 1..Len(filed) /\ filed'[i] = filed[i]
        BY <2>4
      <3>2. CASE j \in 1..Len(filed)
        BY <2>4, <3>1, <3>2 DEF DateInv, LaterFiles
      <3>3. CASE j = Len(filed) + 1
        BY <2>3, <2>4, <2>7, <3>1, <3>3
      <3> QED BY <2>4, <3>2, <3>3
    <2> QED BY <2>5, <2>6, <2>8 DEF DateInv
  <1>9. CASE Midnight
    <2>1. day' = day + 1 /\ UNCHANGED <<q, hand, filed, writer, file>>
      BY <1>9 DEF Midnight, queueVars, writerVars
    <2>2. /\ \A i \in 1..Len(q) : q[i].day \in Int
          /\ \A i \in 1..Len(hand) : hand[i].day \in Int
      BY <1>1, <1>2, ElementOfSeq
    <2>3. PastDays'
      BY <1>1, <1>2, <2>1, <2>2 DEF DateInv, PastDays
    <2>4. FileCurrent' /\ LaterFiles'
      BY <2>1 DEF DateInv, FileCurrent, LaterFiles
    <2> QED BY <2>3, <2>4 DEF DateInv
  <1>10. ASSUME UNCHANGED <<q, hand, filed, file, day>>,
                writer' = writer \/ writer' \notin {"pop", "check", "write"} \/ writer = "check"
         PROVE  DateInv'
    BY <1>10 DEF DateInv, PastDays, FileCurrent, LaterFiles
  <1>11. CASE PopWait \/ Check \/ OpenFails \/ Exchange \/ Join \/ SpuriousWakeup \/ UNCHANGED vars
    BY <1>10, <1>11
    DEF PopWait, Queue!PopWait, Check, OpenFails, Exchange, Join, SpuriousWakeup,
        Queue!SpuriousWakeup, vars, queueVars, writerVars
  <1>12. ASSUME NEW t \in Threads, NEW l \in Levels, SetLogLevel(t, l) PROVE DateInv'
    BY <1>10, <1>12 DEF SetLogLevel, queueVars, writerVars
  <1> QED
    BY <1>4, <1>5, <1>6, <1>7, <1>8, <1>9, <1>11, <1>12 DEF Next, WriterStep, MainStep, Over

(* At most one message of a day or later is in a file of a day before: the *)
(* writer opens the file of the date anew before it waits again            *)
(* (logger.cc:18-47).                                                      *)
THEOREM OneStaleDateHolds == Spec => []OneStaleDate
  <1>1. Init => DateInv
    BY DEF Init, DateInv, PastDays, FileCurrent, LaterFiles, Queue!Init
  <1>2. IInv /\ DateInv => OneStaleDate
    <2> SUFFICES ASSUME IInv, DateInv, NEW d \in 1..LastDay
                 PROVE  Cardinality({i \in 1..Len(filed) :
                                        filed[i].file < d /\ filed[i].msg.day >= d}) <= 1
      BY DEF OneStaleDate
    <2> DEFINE stale == {i \in 1..Len(filed) : filed[i].file < d /\ filed[i].msg.day >= d}
    <2>1. \A i \in 1..Len(filed) : filed[i].file \in Int /\ filed[i].msg.day \in Int
      <3>1. filed \in Seq(Lines)
        BY DEF IInv, TypeOK, Lines
      <3>2. \A i \in 1..Len(filed) : filed[i] \in Lines
        BY <3>1, ElementOfSeq
      <3> QED BY <3>2, BoundAssumption DEF Lines, Messages
    <2>2. Len(filed) \in Nat
      BY DEF IInv, TypeOK
    <2>3. \A i, j \in stale : i = j
      <3> SUFFICES ASSUME NEW i \in stale, NEW j \in stale, i < j PROVE FALSE
        BY <2>2
      <3>1. /\ i \in 1..Len(filed) /\ j \in 1..Len(filed)
            /\ filed[i].msg.day >= d /\ filed[j].file < d
        OBVIOUS
      <3>2. filed[i].msg.day <= filed[j].file
        BY <3>1 DEF DateInv, LaterFiles
      <3> QED BY <2>1, <3>1, <3>2, BoundAssumption
    <2>4. stale = {} \/ \E k \in stale : stale = {k}
      BY <2>3
    <2> HIDE DEF stale
    <2>5. Cardinality(stale) <= 1
      <3>1. Cardinality({}) = 0 /\ \A k : Cardinality({k}) = 1
        BY FS_EmptySet, FS_Singleton
      <3> QED BY <2>4, <3>1
    <2> QED BY <2>5 DEF stale
  <1> QED BY <1>1, <1>2, InitInv, NextInv, DateNext, PTL DEF Spec

=============================================================================
