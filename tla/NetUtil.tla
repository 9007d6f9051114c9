------------------------------ MODULE NetUtil ------------------------------
(***************************************************************************)
(* SendN and RecvN of src/src/netutil.cc at the two ends of a stream, as   *)
(* src/tests/test_netutil.cc pairs them: send and recv move as many bytes  *)
(* as the kernel likes, are interrupted by signals, and fail once the      *)
(* other end is closed.  One side sends with one SendN after the other,    *)
(* the other receives with RecvN of other lengths.  A byte is its position *)
(* in all that is to be sent.                                              *)
(***************************************************************************)
EXTENDS Integers, Sequences

CONSTANTS
    Lens,          \* the lengths that SendN and RecvN may be called with
    MaxSent,       \* bound: bytes to send in a behaviour
    Capacity,      \* bytes the kernel holds between the two ends
    MaxInterrupts  \* bound: calls interrupted by a signal

ASSUME LensAssumption == Lens \subseteq Nat
ASSUME BoundAssumption == MaxSent \in Nat /\ Capacity \in Nat \ {0} /\ MaxInterrupts \in Nat

VARIABLES
    base,         \* bytes of the calls of SendN that have returned
    sendLen,      \* len of SendN, or -1 outside
    sent,         \* sent
    wire,         \* the bytes the kernel has
    received,     \* the buffers of the calls of RecvN that returned true
    recvLen,      \* len of RecvN, or -1 outside
    got,          \* got
    buf,          \* buf
    sendOk,       \* no SendN has returned false
    recvOk,       \* no RecvN has returned false
    closed,       \* one of the ends is closed
    interrupts    \* calls interrupted so far

sendVars == <<base, sendLen, sent, sendOk>>
recvVars == <<received, recvLen, got, buf, recvOk>>
vars == <<sendVars, recvVars, wire, closed, interrupts>>

Smaller(a, b) == IF a < b THEN a ELSE b

(* The n bytes at p of the sender's data.                                  *)
Bytes(p, n) == [i \in 1..n |-> p + i]

Init ==
    /\ base = 0 /\ sendLen = -1 /\ sent = 0 /\ sendOk = TRUE
    /\ wire = <<>>
    /\ received = <<>> /\ recvLen = -1 /\ got = 0 /\ buf = <<>> /\ recvOk = TRUE
    /\ closed = FALSE
    /\ interrupts = 0

-----------------------------------------------------------------------------
(* SendN                                                                   *)

SendN(len) ==
    /\ sendOk
    /\ sendLen = -1
    /\ base + len <= MaxSent
    /\ sendLen' = len
    /\ sent' = 0
    /\ UNCHANGED <<base, sendOk, recvVars, wire, closed, interrupts>>

(* send() takes n bytes at data + sent.                                    *)
Put(n) == wire' = wire \o Bytes(base + sent, n)

SendSome ==
    /\ sent < sendLen
    /\ ~closed
    /\ \E n \in 1..Smaller(sendLen - sent, Capacity - Len(wire)) :
          /\ Put(n)
          /\ sent' = sent + n
    /\ UNCHANGED <<base, sendLen, sendOk, recvVars, closed, interrupts>>

(* The other end is closed, and the kernel may still take bytes for it.    *)
SendInVain ==
    /\ sent < sendLen
    /\ closed
    /\ \E n \in 1..sendLen - sent : sent' = sent + n
    /\ UNCHANGED <<base, sendLen, sendOk, recvVars, wire, closed, interrupts>>

SendFails ==
    /\ sent < sendLen
    /\ closed
    /\ sendOk' = FALSE
    /\ sendLen' = -1
    /\ UNCHANGED <<base, sent, recvVars, wire, closed, interrupts>>

(* The loop ends when all is sent.  (The faulty variant is content with    *)
(* what one send() took.)                                                  *)
SendReturnsShort ==
    /\ sendLen >= 0
    /\ sent > 0 \/ sendLen = 0
    /\ base' = base + sendLen
    /\ sendLen' = -1
    /\ UNCHANGED <<sent, sendOk, recvVars, wire, closed, interrupts>>

SendReturns ==
    /\ sendLen >= 0
    /\ sent >= sendLen
    /\ base' = base + sendLen
    /\ sendLen' = -1
    /\ UNCHANGED <<sent, sendOk, recvVars, wire, closed, interrupts>>

-----------------------------------------------------------------------------
(* RecvN                                                                   *)

(* The buffer starts with what it holds; 0 is no byte.                     *)
RecvN(len) ==
    /\ recvOk
    /\ recvLen = -1
    /\ Len(received) + len <= MaxSent
    /\ recvLen' = len
    /\ got' = 0
    /\ buf' = [i \in 1..len |-> 0]
    /\ UNCHANGED <<received, recvOk, sendVars, wire, closed, interrupts>>

(* recv() stores n bytes at buf + got.  (The faulty variant stores at buf.) *)
StoreAtStart(n) == buf' = [i \in 1..recvLen |-> IF i <= n THEN wire[i] ELSE buf[i]]

StoreBytes(n) ==
    buf' = [i \in 1..recvLen |-> IF got < i /\ i <= got + n THEN wire[i - got] ELSE buf[i]]

RecvSome ==
    /\ got < recvLen
    /\ \E n \in 1..Smaller(recvLen - got, Len(wire)) :
          /\ StoreBytes(n)
          /\ got' = got + n
          /\ wire' = SubSeq(wire, n + 1, Len(wire))
    /\ UNCHANGED <<received, recvLen, recvOk, sendVars, closed, interrupts>>

(* recv() returns 0 when all has been read, or -1.  (The faulty variant    *)
(* calls it again.)                                                        *)
RecvAgain ==
    /\ got < recvLen
    /\ closed
    /\ wire = <<>>
    /\ UNCHANGED vars

RecvFails ==
    /\ got < recvLen
    /\ closed
    /\ wire = <<>>
    /\ recvOk' = FALSE
    /\ recvLen' = -1
    /\ UNCHANGED <<received, got, buf, sendVars, wire, closed, interrupts>>

RecvReturns ==
    /\ recvLen >= 0
    /\ got >= recvLen
    /\ received' = received \o buf
    /\ recvLen' = -1
    /\ UNCHANGED <<got, buf, recvOk, sendVars, wire, closed, interrupts>>

-----------------------------------------------------------------------------
(* Signals and the network                                                 *)

(* A signal interrupts send or recv, which are called again.  (The faulty  *)
(* variant takes EINTR for an error of the receiver.)                      *)
GiveUp ==
    /\ recvOk' = FALSE
    /\ recvLen' = -1
    /\ UNCHANGED <<received, got, buf>>

TryAgain == UNCHANGED recvVars

Interrupted ==
    /\ interrupts < MaxInterrupts
    /\ interrupts' = interrupts + 1
    /\ \/ got < recvLen /\ TryAgain
       \/ sent < sendLen /\ UNCHANGED recvVars
    /\ UNCHANGED <<sendVars, wire, closed>>

(* The connection closes; what has not been read may be lost from some     *)
(* point on.                                                               *)
Close ==
    /\ ~closed
    /\ closed' = TRUE
    /\ \E n \in 0..Len(wire) : wire' = SubSeq(wire, 1, n)
    /\ UNCHANGED <<sendVars, recvVars, interrupts>>

Idle == sendLen = -1 /\ recvLen = -1 /\ UNCHANGED vars

Sending == SendSome \/ SendInVain \/ SendFails \/ SendReturns

Receiving == RecvSome \/ RecvFails \/ RecvReturns

Next ==
    \/ \E len \in Lens : SendN(len) \/ RecvN(len)
    \/ Sending \/ Receiving
    \/ Interrupted \/ Close
    \/ Idle

Spec == Init /\ [][Next]_vars

FairSpec == Spec /\ WF_vars(Sending) /\ WF_vars(Receiving)

-----------------------------------------------------------------------------
(* Properties                                                              *)

TypeOK ==
    /\ base \in Nat /\ sent \in Nat /\ got \in Nat /\ interrupts \in Nat
    /\ sendLen \in Nat \union {-1} /\ recvLen \in Nat \union {-1}
    /\ sendLen >= 0 => sent <= sendLen
    /\ recvLen >= 0 => got <= recvLen /\ Len(buf) = recvLen
    /\ wire \in Seq(Nat) /\ received \in Seq(Nat) /\ buf \in Seq(Nat)
    /\ sendOk \in BOOLEAN /\ recvOk \in BOOLEAN /\ closed \in BOOLEAN

(* The buffers that RecvN filled are, together, a beginning of what was    *)
(* sent: no byte is missing, doubled, displaced or left unset, however the *)
(* kernel cuts the stream, whatever the lengths at the two ends.           *)
InOrder == \A i \in 1..Len(received) : received[i] = i

(* RecvN returns false only when the connection is closed: a signal or a   *)
(* short count is no failure.                                              *)
FailsOnlyClosed == ~recvOk \/ ~sendOk => closed

(* SendN returns true only when the kernel has taken every byte, and then, *)
(* while the connection lives, each is either delivered or on its way.     *)
Delivered ==
    ~closed /\ sendLen = -1 =>
        base = Len(received) + (IF recvLen >= 0 THEN got ELSE 0) + Len(wire)

(* RecvN returns once enough has been sent, or the connection closed.      *)
RecvEnds ==
    recvLen >= 0 /\ (closed \/ base >= Len(received) + recvLen) ~> recvLen = -1

=============================================================================
