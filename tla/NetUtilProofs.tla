--------------------------- MODULE NetUtilProofs ---------------------------
(***************************************************************************)
(* Proofs about SendN and RecvN, for any lengths and any capacity.         *)
(***************************************************************************)
EXTENDS NetUtil, SequenceTheorems, TLAPS

(* The bytes that recv has taken from the stream, and send put into it.    *)
Taken == Len(received) + (IF recvLen >= 0 THEN got ELSE 0)

Given == base + (IF sendLen >= 0 THEN sent ELSE 0)

(* What the kernel has continues what was taken, and the buffer begins     *)
(* where the last one ended.                                               *)
StreamInv == recvOk => \A i \in 1..Len(wire) : wire[i] = Taken + i

BufferInv == recvLen >= 0 => \A i \in 1..got : buf[i] = Len(received) + i

(* While the connection lives, nothing is on neither side.                 *)
CountInv == ~closed => Given = Taken + Len(wire)

CloseInv == (~recvOk \/ ~sendOk => closed) /\ (~recvOk => recvLen = -1)

IInv == TypeOK /\ StreamInv /\ BufferInv /\ CountInv /\ CloseInv /\ InOrder

USE LensAssumption, BoundAssumption

(***************************************************************************)
(* Initially the invariant holds.                                          *)
(***************************************************************************)
LEMMA InitInv == Init => IInv
  <1> SUFFICES ASSUME Init PROVE IInv
    OBVIOUS
  <1>1. <<>> \in Seq(Nat) /\ Len(<<>>) = 0
    BY EmptySeq
  <1>2. /\ base = 0 /\ sendLen = -1 /\ sent = 0 /\ sendOk = TRUE /\ wire = <<>>
        /\ received = <<>> /\ recvLen = -1 /\ got = 0 /\ buf = <<>> /\ recvOk = TRUE
        /\ closed = FALSE /\ interrupts = 0
    BY DEF Init
  <1>3. TypeOK
    <2>1. sendOk \in BOOLEAN /\ recvOk \in BOOLEAN /\ closed \in BOOLEAN
      BY <1>2
    <2>2. /\ base \in Nat /\ sent \in Nat /\ got \in Nat /\ interrupts \in Nat
          /\ sendLen \in Nat \union {-1} /\ recvLen \in Nat \union {-1}
          /\ ~(sendLen >= 0) /\ ~(recvLen >= 0)
          /\ wire \in Seq(Nat) /\ received \in Seq(Nat) /\ buf \in Seq(Nat)
      BY <1>1, <1>2
    <2> QED BY <2>1, <2>2 DEF TypeOK
  <1>4. StreamInv /\ BufferInv /\ CountInv
    BY <1>1, <1>2 DEF StreamInv, BufferInv, CountInv, Taken, Given
  <1>5. CloseInv /\ InOrder
    BY <1>1, <1>2 DEF CloseInv, InOrder
  <1> QED BY <1>3, <1>4, <1>5 DEF IInv

(***************************************************************************)
(* The steps of the sender.                                                *)
(***************************************************************************)
LEMMA SendInv ==
  ASSUME IInv, (\E len \in Lens : SendN(len)) \/ SendInVain \/ SendFails \/ SendReturns
  PROVE  IInv'
  <1>1. ASSUME NEW len \in Lens, SendN(len) PROVE IInv'
    BY <1>1 DEF SendN, recvVars, IInv, TypeOK, StreamInv, BufferInv, CountInv, CloseInv, InOrder,
       Taken, Given
  <1>2. CASE SendInVain
    BY <1>2 DEF SendInVain, recvVars, IInv, TypeOK, StreamInv, BufferInv, CountInv, CloseInv,
       InOrder, Taken, Given
  <1>3. CASE SendFails
    <2>1. /\ closed /\ sendOk' = FALSE /\ sendLen' = -1
          /\ UNCHANGED <<base, sent, received, recvLen, got, buf, recvOk, wire, closed, interrupts>>
      BY <1>3 DEF SendFails, recvVars
    <2>2. TypeOK'
      <3>1. sendOk' \in BOOLEAN /\ recvOk' \in BOOLEAN /\ closed' \in BOOLEAN
        BY <2>1 DEF IInv, TypeOK
      <3>2. sendLen' \in Nat \union {-1} /\ ~(sendLen' >= 0)
        BY <2>1
      <3> QED BY <2>1, <3>1, <3>2 DEF IInv, TypeOK
    <2>3. StreamInv' /\ BufferInv' /\ CountInv' /\ CloseInv' /\ InOrder'
      BY <2>1 DEF IInv, StreamInv, BufferInv, CountInv, CloseInv, InOrder, Taken
    <2> QED BY <2>2, <2>3 DEF IInv
  <1>4. CASE SendReturns
    <2>1. /\ base' = base + sendLen /\ sendLen' = -1 /\ sent = sendLen
          /\ sendLen \in Nat /\ base \in Nat
          /\ UNCHANGED <<sent, sendOk, received, recvLen, got, buf, recvOk, wire, closed,
                         interrupts>>
      BY <1>4 DEF SendReturns, recvVars, IInv, TypeOK
    <2>2. TypeOK'
      BY <2>1 DEF IInv, TypeOK
    <2>3. Given' = Given /\ Taken' = Taken
      BY <2>1 DEF Given, Taken
    <2>4. StreamInv' /\ BufferInv' /\ CountInv' /\ CloseInv' /\ InOrder'
      BY <2>1, <2>3 DEF IInv, StreamInv, BufferInv, CountInv, CloseInv, InOrder
    <2> QED BY <2>2, <2>4 DEF IInv
  <1> QED BY <1>1, <1>2, <1>3, <1>4

(* A send that takes some bytes puts the next ones into the stream.        *)
LEMMA SendSomeInv ==
  ASSUME IInv, SendSome
  PROVE  IInv'
  <1>1. PICK n \in 1..Smaller(sendLen - sent, Capacity - Len(wire)) :
          wire' = wire \o Bytes(base + sent, n) /\ sent' = sent + n
    BY DEF SendSome, Put
  <1>2. /\ ~closed /\ recvOk /\ sendLen \in Nat /\ sent < sendLen
        /\ UNCHANGED <<base, sendLen, sendOk, recvVars, closed, interrupts>>
    BY DEF SendSome, IInv, TypeOK, CloseInv
  <1>3. /\ wire \in Seq(Nat) /\ Len(wire) \in Nat /\ base \in Nat /\ sent \in Nat
        /\ Taken \in Nat
    BY LenProperties DEF IInv, TypeOK, Taken
  <1>4. n \in Nat /\ n <= sendLen - sent
    BY <1>1, <1>2, <1>3 DEF Smaller
  <1>5. /\ Bytes(base + sent, n) \in Seq(Nat) /\ Len(Bytes(base + sent, n)) = n
        /\ \A i \in 1..n : Bytes(base + sent, n)[i] = base + sent + i
    <2>1. Bytes(base + sent, n) \in [1..n -> Nat]
      BY <1>3, <1>4 DEF Bytes
    <2>2. Bytes(base + sent, n) \in Seq(Nat)
      BY <1>4, <2>1, SeqDef
    <2> QED BY <1>3, <1>4, <2>2, LenProperties DEF Bytes
  <1>6. /\ wire' \in Seq(Nat) /\ Len(wire') = Len(wire) + n
        /\ \A i \in 1..Len(wire) + n :
              wire'[i] = IF i <= Len(wire) THEN wire[i] ELSE Bytes(base + sent, n)[i - Len(wire)]
    <2>1. PICK b \in Seq(Nat) : b = Bytes(base + sent, n)
      BY <1>5
    <2>2. PICK w \in Seq(Nat) : w = wire
      BY <1>3
    <2>3. /\ w \o b \in Seq(Nat) /\ Len(w \o b) = Len(w) + Len(b)
          /\ \A i \in 1..Len(w) + Len(b) :
                (w \o b)[i] = IF i <= Len(w) THEN w[i] ELSE b[i - Len(w)]
      BY ONLY ConcatProperties
    <2>4. Len(b) = n /\ wire' = w \o b
      BY <1>1, <1>5, <2>1, <2>2
    <2> QED BY <2>1, <2>2, <2>3, <2>4
  <1>7. base + sent = Taken + Len(wire)
    BY <1>2, <1>3 DEF IInv, CountInv, Given
  <1>8. Taken' = Taken
    BY <1>2 DEF Taken, recvVars
  <1>9. StreamInv'
    <2>1. \A i \in 1..Len(wire) : wire[i] = Taken + i
      BY <1>2 DEF IInv, StreamInv
    <2>2. ASSUME NEW i \in 1..Len(wire) + n PROVE wire'[i] = Taken + i
      <3>1. CASE i <= Len(wire)
        <4>1. i \in 1..Len(wire)
          BY <1>3, <2>2, <3>1
        <4>2. wire[i] = Taken + i
          BY <2>1, <4>1
        <4>3. wire'[i] = wire[i]
          BY ONLY <1>6, <2>2, <3>1
        <4> QED BY ONLY <4>2, <4>3
      <3>2. CASE i > Len(wire)
        <4>1. i - Len(wire) \in 1..n
          BY <1>3, <1>4, <2>2, <3>2
        <4>2. wire'[i] = base + sent + (i - Len(wire))
          <5>1. i \in 1..Len(wire) + n /\ ~(i <= Len(wire))
            BY <1>3, <1>4, <2>2, <3>2
          <5>2. wire'[i] = Bytes(base + sent, n)[i - Len(wire)]
            BY <1>6, <5>1
          <5> QED BY <1>5, <4>1, <5>2
        <4> QED BY <1>3, <1>7, <2>2, <4>2
      <3> QED BY <1>3, <1>4, <3>1, <3>2
    <2> QED BY <1>6, <1>8, <2>2 DEF StreamInv
  <1>10. CountInv'
    <2>1. Given' = base + sent + n
      BY <1>1, <1>2, <1>3, <1>4 DEF Given
    <2>2. Taken' + Len(wire') = Taken + Len(wire) + n
      BY <1>3, <1>4, <1>6, <1>8
    <2> QED BY <1>3, <1>4, <1>7, <2>1, <2>2 DEF CountInv
  <1>11. TypeOK'
    BY <1>1, <1>2, <1>3, <1>4, <1>6 DEF IInv, TypeOK, recvVars
  <1>12. BufferInv' /\ CloseInv' /\ InOrder'
    BY <1>2 DEF IInv, BufferInv, CloseInv, InOrder, recvVars
  <1> QED BY <1>9, <1>10, <1>11, <1>12 DEF IInv

(***************************************************************************)
(* The steps of the receiver.                                              *)
(***************************************************************************)
LEMMA RecvBeginInv ==
  ASSUME IInv, NEW len \in Lens, RecvN(len)
  PROVE  IInv'
  <1>1. /\ len \in Nat /\ recvLen = -1 /\ recvLen' = len /\ got' = 0
        /\ buf' = [i \in 1..len |-> 0]
        /\ UNCHANGED <<received, recvOk, sendVars, wire, closed, interrupts>>
    BY DEF RecvN
  <1>2. buf' \in Seq(Nat) /\ Len(buf') = len
    <2>1. buf' \in [1..len -> Nat]
      BY <1>1
    <2>2. buf' \in Seq(Nat)
      BY <1>1, <2>1, SeqDef
    <2> QED BY <1>1, <2>1, <2>2, LenProperties
  <1>3. TypeOK'
    BY <1>1, <1>2 DEF IInv, TypeOK, sendVars
  <1>4. Len(received) \in Nat
    BY LenProperties DEF IInv, TypeOK
  <1>5. Taken' = Taken /\ Given' = Given
    BY <1>1, <1>4 DEF Taken, Given, sendVars
  <1>6. recvOk
    BY DEF RecvN
  <1> QED
    BY <1>1, <1>3, <1>5, <1>6
    DEF IInv, StreamInv, BufferInv, CountInv, CloseInv, InOrder, sendVars

(* A recv that gives some bytes puts them behind those it has.             *)
LEMMA RecvSomeInv ==
  ASSUME IInv, RecvSome
  PROVE  IInv'
  <1>1. PICK n \in 1..Smaller(recvLen - got, Len(wire)) :
          /\ buf' = [i \in 1..recvLen |->
                       IF got < i /\ i <= got + n THEN wire[i - got] ELSE buf[i]]
          /\ got' = got + n
          /\ wire' = SubSeq(wire, n + 1, Len(wire))
    BY DEF RecvSome, StoreBytes
  <1>2. /\ recvLen \in Nat /\ got \in Nat /\ got < recvLen /\ recvOk
        /\ UNCHANGED <<received, recvLen, recvOk, sendVars, closed, interrupts>>
    BY DEF RecvSome, IInv, TypeOK, CloseInv
  <1>3. /\ wire \in Seq(Nat) /\ Len(wire) \in Nat /\ Len(received) \in Nat
        /\ buf \in Seq(Nat) /\ Len(buf) = recvLen
        /\ \A i \in 1..Len(wire) : wire[i] \in Nat
        /\ \A i \in 1..Len(buf) : buf[i] \in Nat
    BY <1>2, LenProperties, ElementOfSeq DEF IInv, TypeOK
  <1>4. n \in Nat /\ n >= 1 /\ n <= recvLen - got /\ n <= Len(wire)
    BY <1>1, <1>2, <1>3 DEF Smaller
  <1>5. /\ wire' \in Seq(Nat) /\ Len(wire') = Len(wire) - n
        /\ \A i \in 1..Len(wire) - n : wire'[i] = wire[i + n]
    <2>1. /\ SubSeq(wire, n + 1, Len(wire)) \in Seq(Nat)
          /\ Len(SubSeq(wire, n + 1, Len(wire))) =
                IF n + 1 <= Len(wire) THEN Len(wire) - (n + 1) + 1 ELSE 0
          /\ \A i \in 1..Len(wire) - (n + 1) + 1 :
                SubSeq(wire, n + 1, Len(wire))[i] = wire[n + 1 + i - 1]
      BY <1>3, <1>4, SubSeqProperties
    <2> QED BY <1>1, <1>3, <1>4, <2>1
  <1>6. buf' \in Seq(Nat) /\ Len(buf') = recvLen
    <2>1. buf' \in [1..recvLen -> Nat]
      BY <1>1, <1>2, <1>3, <1>4
    <2>2. buf' \in Seq(Nat)
      BY <1>2, <2>1, SeqDef
    <2> QED BY <1>2, <2>1, <2>2, LenProperties
  <1>7. TypeOK'
    BY <1>1, <1>2, <1>4, <1>5, <1>6 DEF IInv, TypeOK, sendVars
  <1>8. Taken = Len(received) + got /\ Taken' = Len(received) + got + n /\ Given' = Given
    BY <1>1, <1>2, <1>3, <1>4 DEF Taken, Given, sendVars
  <1>9. \A i \in 1..Len(wire) : wire[i] = Len(received) + got + i
    BY <1>2, <1>8 DEF IInv, StreamInv
  <1>10. StreamInv'
    <2>1. ASSUME NEW i \in 1..Len(wire) - n PROVE wire'[i] = Taken' + i
      <3>1. i + n \in 1..Len(wire) /\ wire'[i] = wire[i + n]
        BY <1>3, <1>4, <1>5, <2>1
      <3>2. wire[i + n] = Len(received) + got + (i + n)
        BY <1>9, <3>1
      <3> QED BY <1>2, <1>3, <1>4, <1>8, <2>1, <3>1, <3>2
    <2> QED BY <1>5, <2>1 DEF StreamInv
  <1>11. BufferInv'
    <2>1. \A i \in 1..got : buf[i] = Len(received) + i
      BY <1>2 DEF IInv, BufferInv
    <2>2. ASSUME NEW i \in 1..got + n PROVE buf'[i] = Len(received) + i
      <3>1. i \in 1..recvLen
        BY <1>2, <1>4, <2>2
      <3>2. CASE i <= got
        BY <1>1, <1>2, <2>1, <3>1, <3>2
      <3>3. CASE i > got
        <4>1. i - got \in 1..Len(wire) /\ got < i /\ i <= got + n
          BY <1>2, <1>3, <1>4, <2>2, <3>3
        <4>2. buf'[i] = wire[i - got]
          BY <1>1, <3>1, <4>1
        <4>3. wire[i - got] = Len(received) + got + (i - got)
          BY <1>9, <4>1
        <4> QED BY <1>2, <1>3, <2>2, <4>2, <4>3
      <3> QED BY <1>2, <1>4, <3>2, <3>3
    <2> QED BY <1>1, <1>2, <2>2 DEF BufferInv
  <1>12. CountInv'
    BY <1>2, <1>3, <1>4, <1>5, <1>8 DEF IInv, CountInv
  <1>13. CloseInv' /\ InOrder'
    BY <1>2 DEF IInv, CloseInv, InOrder, sendVars
  <1> QED BY <1>7, <1>10, <1>11, <1>12, <1>13 DEF IInv

(* RecvN returns with its buffer full.                                     *)
LEMMA RecvReturnsInv ==
  ASSUME IInv, RecvReturns
  PROVE  IInv'
  <1>1. /\ recvLen \in Nat /\ got = recvLen /\ Len(buf) = recvLen
        /\ received' = received \o buf /\ recvLen' = -1
        /\ UNCHANGED <<got, buf, recvOk, sendVars, wire, closed, interrupts>>
    BY DEF RecvReturns, IInv, TypeOK
  <1>2. /\ received \in Seq(Nat) /\ buf \in Seq(Nat) /\ Len(received) \in Nat
    BY LenProperties DEF IInv, TypeOK
  <1>3. /\ received' \in Seq(Nat) /\ Len(received') = Len(received) + recvLen
        /\ \A i \in 1..Len(received) + recvLen :
              received'[i] = IF i <= Len(received) THEN received[i] ELSE buf[i - Len(received)]
    BY <1>1, <1>2, ConcatProperties
  <1>4. \A i \in 1..recvLen : buf[i] = Len(received) + i
    BY <1>1 DEF IInv, BufferInv
  <1>5. InOrder'
    <2>1. \A i \in 1..Len(received) : received[i] = i
      BY DEF IInv, InOrder
    <2>2. \A i \in 1..Len(received) + recvLen : i > Len(received) => i - Len(received) \in 1..recvLen
      BY <1>1, <1>2
    <2> QED BY <1>1, <1>2, <1>3, <1>4, <2>1, <2>2 DEF InOrder
  <1>6. TypeOK'
    BY <1>1, <1>3 DEF IInv, TypeOK, sendVars
  <1>7. Taken' = Taken /\ Given' = Given
    BY <1>1, <1>2, <1>3 DEF Taken, Given, sendVars
  <1>8. StreamInv' /\ BufferInv' /\ CountInv' /\ CloseInv'
    BY <1>1, <1>7 DEF IInv, StreamInv, BufferInv, CountInv, CloseInv, sendVars
  <1> QED BY <1>5, <1>6, <1>8 DEF IInv

(* RecvN fails at the closed end.                                          *)
LEMMA RecvFailsInv ==
  ASSUME IInv, RecvFails
  PROVE  IInv'
  <1>1. /\ closed /\ recvOk' = FALSE /\ recvLen' = -1
        /\ UNCHANGED <<base, sendLen, sent, sendOk, received, got, buf, wire, closed, interrupts>>
    BY DEF RecvFails, sendVars
  <1>2. TypeOK'
    <2>1. sendOk' \in BOOLEAN /\ recvOk' \in BOOLEAN /\ closed' \in BOOLEAN
      BY <1>1 DEF IInv, TypeOK
    <2>2. recvLen' \in Nat \union {-1} /\ ~(recvLen' >= 0)
      BY <1>1
    <2> QED BY <1>1, <2>1, <2>2 DEF IInv, TypeOK
  <1>3. StreamInv' /\ BufferInv' /\ CountInv'
    BY <1>1 DEF StreamInv, BufferInv, CountInv
  <1>4. CloseInv' /\ InOrder'
    BY <1>1 DEF IInv, CloseInv, InOrder
  <1> QED BY <1>2, <1>3, <1>4 DEF IInv

(***************************************************************************)
(* The rest.                                                               *)
(***************************************************************************)
LEMMA CloseStepInv ==
  ASSUME IInv, Close
  PROVE  IInv'
  <1>1. PICK n \in 0..Len(wire) : wire' = SubSeq(wire, 1, n)
    BY DEF Close
  <1>2. closed' /\ UNCHANGED <<sendVars, recvVars, interrupts>>
    BY DEF Close
  <1>3. wire \in Seq(Nat) /\ Len(wire) \in Nat /\ n \in Nat /\ n <= Len(wire)
    BY <1>1, LenProperties DEF IInv, TypeOK
  <1>4. /\ wire' \in Seq(Nat) /\ Len(wire') = n
        /\ \A i \in 1..n : wire'[i] = wire[i]
    <2>1. /\ SubSeq(wire, 1, n) \in Seq(Nat)
          /\ Len(SubSeq(wire, 1, n)) = IF 1 <= n THEN n - 1 + 1 ELSE 0
          /\ \A i \in 1..n - 1 + 1 : SubSeq(wire, 1, n)[i] = wire[1 + i - 1]
      BY <1>3, SubSeqProperties
    <2> QED BY <1>1, <1>3, <2>1
  <1>5. TypeOK'
    BY <1>2, <1>4 DEF IInv, TypeOK, sendVars, recvVars
  <1>6. StreamInv'
    <2>1. Taken' = Taken /\ recvOk' = recvOk
      BY <1>2 DEF Taken, recvVars
    <2>2. \A i \in 1..n : i \in 1..Len(wire)
      BY <1>3
    <2> QED BY <1>4, <2>1, <2>2 DEF IInv, StreamInv
  <1> QED
    BY <1>2, <1>5, <1>6 DEF IInv, BufferInv, CountInv, CloseInv, InOrder, recvVars, sendVars

(* Every step keeps the invariant.                                         *)
LEMMA NextInv == IInv /\ [Next]_vars => IInv'
  <1> SUFFICES ASSUME IInv, [Next]_vars PROVE IInv'
    OBVIOUS
  <1>1. ASSUME Interrupted \/ UNCHANGED vars PROVE IInv'
    <2>1. UNCHANGED <<base, sendLen, sent, sendOk, received, recvLen, got, buf, recvOk, wire,
                      closed>>
      BY <1>1 DEF Interrupted, TryAgain, vars, sendVars, recvVars
    <2>2. interrupts' \in Nat
      BY <1>1 DEF Interrupted, vars, IInv, TypeOK
    <2>3. TypeOK'
      BY <2>1, <2>2 DEF IInv, TypeOK
    <2>4. Taken' = Taken /\ Given' = Given
      BY <2>1 DEF Taken, Given
    <2>5. StreamInv' /\ BufferInv' /\ CountInv' /\ CloseInv' /\ InOrder'
      BY <2>1, <2>4 DEF IInv, StreamInv, BufferInv, CountInv, CloseInv, InOrder
    <2> QED BY <2>3, <2>5 DEF IInv
  <1> QED
    BY <1>1, SendInv, SendSomeInv, RecvBeginInv, RecvSomeInv, RecvReturnsInv, RecvFailsInv,
       CloseStepInv
    DEF Next, Sending, Receiving, Idle

(* RecvN fills its buffers with the bytes of the stream, in order, whatever *)
(* lengths the two ends use and however the kernel cuts the stream.        *)
THEOREM InOrderHolds == Spec => []InOrder
  <1>1. IInv => InOrder
    BY DEF IInv
  <1> QED BY <1>1, InitInv, NextInv, PTL DEF Spec

(* A call fails only on a closed connection.                               *)
THEOREM FailsOnlyClosedHolds == Spec => []FailsOnlyClosed
  <1>1. IInv => FailsOnlyClosed
    BY DEF IInv, CloseInv, FailsOnlyClosed
  <1> QED BY <1>1, InitInv, NextInv, PTL DEF Spec

(* What SendN has reported sent is delivered or on its way.                *)
THEOREM DeliveredHolds == Spec => []Delivered
  <1>1. IInv => Delivered
    BY DEF IInv, CountInv, Given, Taken, Delivered, TypeOK
  <1> QED BY <1>1, InitInv, NextInv, PTL DEF Spec

=============================================================================
