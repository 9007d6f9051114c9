------------------------------- MODULE Logger -------------------------------
(***************************************************************************)
(* The asynchronous log: the macros LOG_INFO and LOG_ERR in many threads,  *)
(* the writing thread, and Stop, which ~Logger calls when main returns     *)
(* after joining its threads (src/src/logger.cc, src/src/include/logger.h).*)
(* A message is its number, the level it was logged with and the day on    *)
(* which it was pushed; formatting is left out.                            *)
(***************************************************************************)
EXTENDS Integers, Sequences, FiniteSets

CONSTANTS
    Threads,   \* the threads that log
    MaxLogs,   \* bound: messages in a behaviour
    LastDay    \* bound: days in a behaviour

ASSUME BoundAssumption == MaxLogs \in Nat /\ LastDay \in Nat \ {0}

VARIABLES
    q, reader,   \* logQueue
    loglevel,    \* loglevel, one for all threads
    stopping,    \* stopping
    stage,       \* stage[t]: t is between SetLogLevel and Log of a macro
    level,       \* level[t]: the level of the macro t is in
    writer,      \* how far writeThread is in its loop
    file,        \* the day in the name of the file it has open
    hand,        \* <<>>, or what Pop has given it
    main,        \* how far main is in Stop
    day,         \* the date
    pushed,      \* history: everything pushed, in order
    filed        \* the lines in the files, in the order they were written

queueVars == <<q, reader>>
writerVars == <<writer, file, hand, filed>>
vars == <<queueVars, writerVars, loglevel, stopping, stage, level, main, day, pushed>>

Queue == INSTANCE LockQueue

Levels == {"info", "error"}

(* The empty message that Stop pushes.                                     *)
Sentinel == [no |-> 0, level |-> "none", day |-> 0]

Messages == [no : Nat \ {0}, level : Levels, day : 1..LastDay]

(*   open    about to read the date and open the file                      *)
(*   pop     in logQueue.Pop                                               *)
(*   check   has a message, about to look at stopping                      *)
(*   write   about to read the level and write the line                    *)
(*   ended   out of the loop                                               *)
(*   failed  fopen failed: exit() in this thread destroys the logger, which *)
(*           cannot join itself; no thread of the process goes on          *)
WriterStages == {"open", "pop", "check", "write", "ended", "failed"}

(* main is running, in Stop after the exchange, joining, or done.          *)
MainStages == {"running", "stop", "join", "done"}

Init ==
    /\ Queue!Init
    /\ loglevel = "none"
    /\ stopping = FALSE
    /\ stage = [t \in Threads |-> "idle"]
    /\ level = [t \in Threads |-> "none"]
    /\ writer = "open"
    /\ file = 0
    /\ hand = <<>>
    /\ main = "running"
    /\ day = 1
    /\ pushed = <<>>
    /\ filed = <<>>

Alive == writer # "failed"

Enqueue(m) ==
    /\ Queue!Push(m)
    /\ pushed' = Append(pushed, m)

-----------------------------------------------------------------------------
(* The macros                                                              *)

(* logger.SetLogLevel(l).                                                  *)
SetLogLevel(t, l) ==
    /\ Alive
    /\ main = "running"
    /\ stage[t] = "idle"
    /\ Len(pushed) + Cardinality({u \in Threads : stage[u] = "set"}) < MaxLogs
    /\ loglevel' = l
    /\ level' = [level EXCEPT ![t] = l]
    /\ stage' = [stage EXCEPT ![t] = "set"]
    /\ UNCHANGED <<queueVars, writerVars, stopping, main, day, pushed>>

(* logger.Log(c).                                                          *)
Log(t) ==
    /\ Alive
    /\ stage[t] = "set"
    /\ Enqueue([no |-> Len(pushed) + 1, level |-> level[t], day |-> day])
    /\ stage' = [stage EXCEPT ![t] = "idle"]
    /\ level' = [level EXCEPT ![t] = "none"]
    /\ UNCHANGED <<writerVars, loglevel, stopping, main, day>>

-----------------------------------------------------------------------------
(* The writing thread                                                      *)

(* It opens the file of the current date.  (The faulty variant stays with  *)
(* the file it opened first.)                                              *)
OpenOnce == file' = IF file = 0 THEN day ELSE file

OpenDaily == file' = day

Open ==
    /\ writer = "open"
    /\ OpenDaily
    /\ writer' = "pop"
    /\ UNCHANGED <<queueVars, hand, filed, loglevel, stopping, stage, level, main, day, pushed>>

OpenFails ==
    /\ writer = "open"
    /\ writer' = "failed"
    /\ UNCHANGED <<queueVars, file, hand, filed, loglevel, stopping, stage, level, main, day, pushed>>

PopWait ==
    /\ writer = "pop"
    /\ Queue!PopWait
    /\ UNCHANGED <<writerVars, loglevel, stopping, stage, level, main, day, pushed>>

Pop ==
    /\ writer = "pop"
    /\ Queue!Pop
    /\ hand' = <<Head(q)>>
    /\ writer' = "check"
    /\ UNCHANGED <<file, filed, loglevel, stopping, stage, level, main, day, pushed>>

(* if (stopping.load()): the loop ends, with whatever message it has.  (The *)
(* faulty variant does not look.)                                          *)
CheckNothing ==
    /\ writer = "check"
    /\ writer' = "write"
    /\ UNCHANGED <<queueVars, file, hand, filed, loglevel, stopping, stage, level, main, day,
                   pushed>>

Check ==
    /\ writer = "check"
    /\ writer' = IF stopping THEN "ended" ELSE "write"
    /\ UNCHANGED <<queueVars, file, hand, filed, loglevel, stopping, stage, level, main, day,
                   pushed>>

(* One line, with the level of this moment, to the file opened before Pop. *)
Write ==
    /\ writer = "write"
    /\ filed' = Append(filed, [msg |-> hand[1], tag |-> loglevel, file |-> file])
    /\ hand' = <<>>
    /\ writer' = "open"
    /\ UNCHANGED <<queueVars, file, loglevel, stopping, stage, level, main, day, pushed>>

-----------------------------------------------------------------------------
(* Stop                                                                    *)

(* stopping.exchange(true), when all other threads have been joined.       *)
Exchange ==
    /\ Alive
    /\ main = "running"
    /\ \A t \in Threads : stage[t] = "idle"
    /\ stopping' = TRUE
    /\ main' = "stop"
    /\ UNCHANGED <<queueVars, writerVars, loglevel, stage, level, day, pushed>>

(* logQueue.Push("").  (The faulty variant omits it.)                      *)
PushNothing == UNCHANGED <<queueVars, pushed>>

PushSentinel == Enqueue(Sentinel)

Wake ==
    /\ Alive
    /\ main = "stop"
    /\ PushSentinel
    /\ main' = "join"
    /\ UNCHANGED <<writerVars, loglevel, stopping, stage, level, day>>

Join ==
    /\ main = "join"
    /\ writer = "ended"
    /\ main' = "done"
    /\ UNCHANGED <<queueVars, writerVars, loglevel, stopping, stage, level, day, pushed>>

-----------------------------------------------------------------------------
(* The environment                                                         *)

Midnight ==
    /\ Alive
    /\ day < LastDay
    /\ day' = day + 1
    /\ UNCHANGED <<queueVars, writerVars, loglevel, stopping, stage, level, main, pushed>>

SpuriousWakeup ==
    /\ Queue!SpuriousWakeup
    /\ UNCHANGED <<writerVars, loglevel, stopping, stage, level, main, day, pushed>>

Over ==
    /\ ~Alive \/ main = "done"
    /\ UNCHANGED vars

WriterStep == Open \/ PopWait \/ Pop \/ Check \/ Write

MainStep == Wake \/ Join

Next ==
    \/ \E t \in Threads : (\E l \in Levels : SetLogLevel(t, l)) \/ Log(t)
    \/ WriterStep \/ OpenFails
    \/ Exchange \/ MainStep
    \/ Midnight \/ SpuriousWakeup
    \/ Over

Spec == Init /\ [][Next]_vars

(* The scheduler runs the writing thread, and main once it is in Stop.     *)
(* Nothing obliges a thread to log, main to end, or the date to change.    *)
FairSpec == Spec /\ WF_vars(WriterStep) /\ WF_vars(MainStep)

-----------------------------------------------------------------------------
(* Properties                                                              *)

TypeOK ==
    /\ q \in Seq(Messages \union {Sentinel})
    /\ reader \in Queue!ReaderStages
    /\ loglevel \in Levels \union {"none"}
    /\ stopping \in BOOLEAN
    /\ stage \in [Threads -> {"idle", "set"}]
    /\ level \in [Threads -> Levels \union {"none"}]
    /\ writer \in WriterStages
    /\ file \in 0..LastDay
    /\ hand \in Seq(Messages \union {Sentinel}) /\ Len(hand) <= 1
    /\ main \in MainStages
    /\ day \in 1..LastDay
    /\ pushed \in Seq(Messages \union {Sentinel})
    /\ filed \in Seq([msg : Messages, tag : Levels, file : 1..LastDay])

(* Nothing is lost, repeated or put in another order between Push and the  *)
(* files: what is filed, what the writer holds and what is queued are what *)
(* was pushed.                                                             *)
Accounted ==
    pushed = [i \in 1..Len(filed) |-> filed[i].msg] \o hand \o q

(* The writer never sleeps beside a queue that has something in it, so no  *)
(* push, and not the one of Stop, is missed (Push notifies after the       *)
(* append, Pop looks before it waits, both under the lock).                *)
NoLostWakeup == reader = "asleep" => q = <<>>

(* The file is chosen before the wait for the message: the first message   *)
(* of a day may go to the file of a day before, but no second one does.    *)
OneStaleDate ==
    \A d \in 1..LastDay :
        Cardinality({i \in 1..Len(filed) : filed[i].file < d /\ filed[i].msg.day >= d}) <= 1

(* Whatever is in progress at exit, Stop returns: the join is not for ever. *)
StopEnds == stopping ~> main = "done" \/ ~Alive

(* While nobody stops the logger, every message reaches a file.            *)
AllWritten ==
    \A n \in 1..MaxLogs :
        Len(pushed) >= n ~> Len(filed) >= n \/ stopping \/ ~Alive

(* When Stop returns, all messages pushed before it are in the files       *)
(* (logger.cc:32-33).                                                      *)
DrainedAtStop == main = "done" => Len(filed) = Len(pushed) - 1

=============================================================================
