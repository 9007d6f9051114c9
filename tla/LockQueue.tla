----------------------------- MODULE LockQueue -----------------------------
(***************************************************************************)
(* LockQueue<T> of src/src/include/lockqueue.h: a queue under a mutex with *)
(* a condition variable, many threads that push and one that pops.  What a *)
(* thread does between taking the mutex and releasing it, or waiting, is   *)
(* one action.                                                             *)
(***************************************************************************)
EXTENDS Sequences

VARIABLES
    q,       \* q
    reader   \* where the reading thread is in Pop

(*   out     not waiting: before Pop, or before its lock                   *)
(*   asleep  in conVar.wait                                                *)
(*   woken   out of the wait, about to take the mutex again                *)
ReaderStages == {"out", "asleep", "woken"}

Init == q = <<>> /\ reader = "out"

(* Push appends and notifies under the lock.  (The faulty variant forgets  *)
(* to notify.)                                                             *)
PushQuietly(d) == q' = Append(q, d) /\ UNCHANGED reader

Push(d) ==
    /\ q' = Append(q, d)
    /\ reader' = IF reader = "asleep" THEN "woken" ELSE reader

(* Pop finds the queue empty and waits, at first or after a wakeup.        *)
PopWait ==
    /\ reader \in {"out", "woken"}
    /\ q = <<>>
    /\ reader' = "asleep"
    /\ UNCHANGED q

(* Pop returns the front element.  (The faulty variant leaves it queued.)  *)
PopKeep ==
    /\ reader \in {"out", "woken"}
    /\ q # <<>>
    /\ reader' = "out"
    /\ UNCHANGED q

Pop ==
    /\ reader \in {"out", "woken"}
    /\ q # <<>>
    /\ reader' = "out"
    /\ q' = Tail(q)

(* conVar.wait returns though nobody notified.                             *)
SpuriousWakeup ==
    /\ reader = "asleep"
    /\ reader' = "woken"
    /\ UNCHANGED q

=============================================================================
