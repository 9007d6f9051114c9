--------------------------- MODULE ProgramsProofs ---------------------------
(***************************************************************************)
(* Theorems about the programs, for any deployments, connections and       *)
(* cuts: the objects of the provider's heap, its configuration and         *)
(* address, and the exchange of every connection: what is served,          *)
(* answered, waited for and counted.                                       *)
(***************************************************************************)
EXTENDS Programs, MessagesProofs, FiniteSetTheorems

-----------------------------------------------------------------------------
(* The heap                                                                *)

HeapInv ==
    /\ executing = [c \in Connections |-> executing[c]]
    /\ ObjectsFreed

(* At first the heap is empty.                                             *)
LEMMA InitHeap == Init => HeapInv
<1> SUFFICES ASSUME Init PROVE HeapInv
  OBVIOUS
<1>1. executing = [c \in Connections |-> Nothing] /\ heap = NoObjects
  BY DEF Init, ProviderInit
<1> QED
  BY <1>1 DEF HeapInv, ObjectsFreed, NoObjects

(* What a handler's closure captures is not null.                          *)
LEMMA CallThere == \A m, r : [method |-> m, request |-> r] # Nothing
  BY DEF Nothing

(* What is made and deleted again was never there.                         *)
LEMMA RejectedStays ==
  ASSUME HeapInv, NEW c \in Connections
  PROVE  Rejected(c) = heap
<1> DEFINE O == Kinds \X Connections
           made == New(heap, {"request"}, c)
           gone == Delete(made, {"request"}, c)
<1>1. heap = [o \in O |-> heap[o]] /\ \A o \in O : heap[o] \in Nat
  BY DEF HeapInv, ObjectsFreed
<1>2. /\ DOMAIN made = O
      /\ \A o \in O : made[o] = IF o \in {"request"} \X {c} THEN heap[o] + 1 ELSE heap[o]
  BY <1>1 DEF New
<1> HIDE DEF made
<1>3. gone = [o \in O |-> IF o \in {"request"} \X {c} THEN made[o] - 1 ELSE made[o]]
  BY <1>2 DEF Delete
<1>4. ASSUME NEW o \in O
      PROVE  (IF o \in {"request"} \X {c} THEN made[o] - 1 ELSE made[o]) = heap[o]
  <2>1. heap[o] \in Nat /\ made[o] = IF o \in {"request"} \X {c} THEN heap[o] + 1 ELSE heap[o]
    BY <1>1, <1>2
  <2> QED
    BY <2>1
<1>5. gone = heap
  BY <1>1, <1>3, <1>4
<1> QED
  BY <1>5 DEF Rejected, made

(* No step leaves an object that no closure will delete.                   *)
LEMMA NextHeap == HeapInv /\ [Next]_vars => HeapInv'
<1> SUFFICES ASSUME HeapInv, [Next]_vars PROVE HeapInv'
  OBVIOUS
<1> DEFINE O == Kinds \X Connections
<1>0. /\ executing = [c \in Connections |-> executing[c]]
      /\ heap = [o \in O |-> IF executing[o[2]] # Nothing THEN 1 ELSE 0]
  BY DEF HeapInv, ObjectsFreed
<1>1. CASE UNCHANGED <<executing, heap>>
  BY <1>0, <1>1 DEF HeapInv, ObjectsFreed
<1>2. ASSUME NEW c \in Connections, NEW n \in 1..Len(inbox[c]), OnMessage(c, n)
      PROVE  HeapInv'
  <2>0. executing[c] = Nothing
    BY <1>2 DEF OnMessage
  <2>1. CASE Throws
    <3>1. executing' = [d \in Connections |-> Nothing] /\ heap' = NoObjects
      BY <2>1 DEF Throws
    <3> QED
      BY <3>1 DEF HeapInv, ObjectsFreed, NoObjects
  <2>2. CASE Rejects(c)
    <3>1. executing' = executing /\ heap' = heap
      BY <2>2, RejectedStays DEF Rejects
    <3> QED
      BY <1>1, <3>1
  <2>3. ASSUME NEW call, call # Nothing, Serves(c, call) PROVE HeapInv'
    <3>1. executing' = [executing EXCEPT ![c] = call] /\ heap' = New(heap, Kinds, c)
      BY <2>3 DEF Serves
    <3>2. executing' = [d \in Connections |-> executing'[d]] /\ executing'[c] # Nothing
          /\ \A d \in Connections \ {c} : executing'[d] = executing[d]
      BY <1>0, <2>3, <3>1
    <3>3. heap' = [o \in O |-> IF o \in Kinds \X {c} THEN heap[o] + 1 ELSE heap[o]]
      BY <1>0, <3>1 DEF New
    <3>4. ASSUME NEW o \in O
          PROVE  (IF o \in Kinds \X {c} THEN heap[o] + 1 ELSE heap[o])
                 = IF executing'[o[2]] # Nothing THEN 1 ELSE 0
      <4>1. o[2] \in Connections /\ (o \in Kinds \X {c} <=> o[2] = c)
            /\ heap[o] = IF executing[o[2]] # Nothing THEN 1 ELSE 0
        BY <1>0
      <4> QED
        BY <2>0, <3>2, <4>1
    <3>5. heap' = [o \in O |-> IF executing'[o[2]] # Nothing THEN 1 ELSE 0]
      BY <3>3, <3>4
    <3> QED
      BY <3>2, <3>5 DEF HeapInv, ObjectsFreed
  <2>4. \/ UNCHANGED <<executing, heap>> \/ Throws \/ Rejects(c)
        \/ \E m, r : Serves(c, [method |-> m, request |-> r])
    BY <1>2 DEF OnMessage
  <2> QED
    BY <1>1, <2>1, <2>2, <2>3, <2>4, CallThere
<1>3. ASSUME NEW c \in Connections, CallMethodAndDone(c) PROVE HeapInv'
  <2>1. /\ executing[c] # Nothing
        /\ executing' = [executing EXCEPT ![c] = Nothing] /\ heap' = Delete(heap, Kinds, c)
    BY <1>3 DEF CallMethodAndDone
  <2>2. executing' = [d \in Connections |-> executing'[d]] /\ executing'[c] = Nothing
        /\ \A d \in Connections \ {c} : executing'[d] = executing[d]
    BY <1>0, <2>1
  <2>3. heap' = [o \in O |-> IF o \in Kinds \X {c} THEN heap[o] - 1 ELSE heap[o]]
    BY <1>0, <2>1 DEF Delete
  <2>4. ASSUME NEW o \in O
        PROVE  (IF o \in Kinds \X {c} THEN heap[o] - 1 ELSE heap[o])
               = IF executing'[o[2]] # Nothing THEN 1 ELSE 0
    <3>1. o[2] \in Connections /\ (o \in Kinds \X {c} <=> o[2] = c)
          /\ heap[o] = IF executing[o[2]] # Nothing THEN 1 ELSE 0
      BY <1>0
    <3> QED
      BY <2>1, <2>2, <3>1
  <2>5. heap' = [o \in O |-> IF executing'[o[2]] # Nothing THEN 1 ELSE 0]
    BY <2>3, <2>4
  <2> QED
    BY <2>2, <2>5 DEF HeapInv, ObjectsFreed
<1>4. ASSUME ProviderNext PROVE HeapInv'
  <2>1. ProviderMain \/ NotifyService \/ RunBinds \/ RunCreates \/ RunStarts
        => UNCHANGED <<executing, heap>>
    BY DEF ProviderMain, NotifyService, RunBinds, RunCreates, RunStarts, providerVars
  <2> QED
    BY <1>1, <1>2, <1>3, <1>4, <2>1 DEF ProviderNext
<1>5. CallerNext => UNCHANGED <<executing, heap>>
  BY DEF CallerNext, CallerMain, Report, NotExisted, NotExistedNull, Existed, Borrow, BorrowFails,
         Send, Receive, Parsed, SendOrReceiveFails, ReturnsFailed, Returns, providerVars
<1>6. UNCHANGED vars => UNCHANGED <<executing, heap>>
  BY DEF vars, providerVars
<1> QED
  BY <1>1, <1>4, <1>5, <1>6 DEF Next, Over

(* The heap holds one of each of the objects that the closure of a running *)
(* handler will delete, and nothing else, whatever comes over the          *)
(* connections: a request that does not parse, a method that is not there, *)
(* an exception (rpcprovider.cc:200-218, :247-248).                        *)
THEOREM ObjectsFreedHolds == Spec => []ObjectsFreed
<1>1. HeapInv => ObjectsFreed
  BY DEF HeapInv
<1> QED
  BY <1>1, InitHeap, NextHeap, PTL DEF Spec

-----------------------------------------------------------------------------
(* Lines                                                                   *)

(* find() comes to the first place of a character.                         *)
LEMMA FirstPlaceIsFirst ==
  ASSUME NEW s \in Bytes, NEW c, Places(c, s) # {}
  PROVE  /\ FirstPlace(c, s) \in 1..Len(s)
         /\ s[FirstPlace(c, s)] = c
         /\ \A j \in 1..(FirstPlace(c, s) - 1) : s[j] # c
<1>1. Places(c, s) \in SUBSET Nat /\ \A i \in Places(c, s) : i \in 1..Len(s) /\ s[i] = c
  BY DEF Places, Bytes
<1>2. \E i \in Places(c, s) : \A j \in Places(c, s) : i <= j
  BY <1>1, LeastMember
<1>3. FirstPlace(c, s) \in Places(c, s) /\ \A j \in Places(c, s) : FirstPlace(c, s) <= j
  BY <1>2 DEF FirstPlace
<1>4. \A j \in 1..Len(s) : s[j] = c => j \in Places(c, s)
  BY DEF Places, Bytes
<1> QED
  BY <1>1, <1>3, <1>4 DEF Bytes

(* A comment ends the line.                                                *)
LEMMA TrimSharpIsContent ==
  ASSUME NEW line \in Bytes
  PROVE  TrimSharp(line) = Content(line) /\ Content(line) \in Bytes
<1> DEFINE IsContent(s) == /\ Sharp \notin {s[i] : i \in DOMAIN s}
                           /\ Len(s) < Len(line) => line[Len(s) + 1] = Sharp
           Heads == {SubSeq(line, 1, n) : n \in 0..Len(line)}
<1>0. Len(line) \in Nat
  BY DEF Bytes
<1>1. \A n \in 0..Len(line) :
         /\ SubSeq(line, 1, n) \in Bytes
         /\ Len(SubSeq(line, 1, n)) = n
         /\ DOMAIN SubSeq(line, 1, n) = 1..n
         /\ \A i \in 1..n : SubSeq(line, 1, n)[i] = line[i]
  <2> SUFFICES ASSUME NEW n \in 0..Len(line)
               PROVE  /\ SubSeq(line, 1, n) \in Bytes
                      /\ Len(SubSeq(line, 1, n)) = n
                      /\ DOMAIN SubSeq(line, 1, n) = 1..n
                      /\ \A i \in 1..n : SubSeq(line, 1, n)[i] = line[i]
    OBVIOUS
  <2> QED
    BY <1>0, Part
<1>2. TrimSharp(line) \in Heads /\ IsContent(TrimSharp(line))
  <2>1. CASE Places(Sharp, line) = {}
    <3>1. SubSeq(line, 1, Len(line)) = line
      BY SubSeqFull DEF Bytes
    <3>2. TrimSharp(line) = line
      BY <2>1, Zenon DEF TrimSharp
    <3>5. line \in Heads
      <4>1. Len(line) \in 0..Len(line)
        BY <1>0
      <4>2. SubSeq(line, 1, Len(line)) \in Heads
        BY <4>1
      <4> QED
        BY <3>1, <4>2, Zenon
    <3>3. \A i \in DOMAIN line : line[i] # Sharp
      BY <2>1 DEF Places
    <3>4. IsContent(line)
      BY <1>0, <3>3
    <3> QED
      BY <3>2, <3>4, <3>5
  <2>2. CASE Places(Sharp, line) # {}
    <3> DEFINE p == FirstPlace(Sharp, line)
    <3>1. p \in 1..Len(line) /\ line[p] = Sharp /\ \A j \in 1..(p - 1) : line[j] # Sharp
      BY <2>2, FirstPlaceIsFirst
    <3>2. TrimSharp(line) = SubSeq(line, 1, p - 1)
      BY <2>2 DEF TrimSharp
    <3> HIDE DEF p
    <3>3. p - 1 \in 0..Len(line)
      BY <1>0, <3>1
    <3> QED
      BY <1>0, <1>1, <3>1, <3>2, <3>3
  <2> QED
    BY <2>1, <2>2
<1>3. ASSUME NEW s \in Heads, NEW t \in Heads, IsContent(s), IsContent(t) PROVE s = t
  <2>1. PICK n \in 0..Len(line) : s = SubSeq(line, 1, n)
    OBVIOUS
  <2>2. PICK m \in 0..Len(line) : t = SubSeq(line, 1, m)
    OBVIOUS
  <2>3. \A k, l \in 0..Len(line) :
           k < l => ~(IsContent(SubSeq(line, 1, k)) /\ IsContent(SubSeq(line, 1, l)))
    <3> SUFFICES ASSUME NEW k \in 0..Len(line), NEW l \in 0..Len(line), k < l,
                        IsContent(SubSeq(line, 1, k)), IsContent(SubSeq(line, 1, l))
                 PROVE  FALSE
      OBVIOUS
    <3>1. line[k + 1] = Sharp
      BY <1>0, <1>1
    <3>2. k + 1 \in 1..l
      BY <1>0
    <3>3. SubSeq(line, 1, l)[k + 1] = Sharp /\ k + 1 \in DOMAIN SubSeq(line, 1, l)
      BY <1>0, <1>1, <3>1, <3>2
    <3> QED
      BY <3>3
  <2>4. ~(n < m) /\ ~(m < n)
    BY <1>3, <2>1, <2>2, <2>3
  <2> QED
    BY <1>0, <2>1, <2>2, <2>4
<1>4. Content(line) = CHOOSE s \in Heads : IsContent(s)
  BY DEF Content
<1>5. Content(line) \in Heads /\ IsContent(Content(line))
  <2> HIDE DEF Heads, IsContent
  <2> QED
    BY <1>2, <1>4
<1>6. TrimSharp(line) = Content(line)
  BY <1>2, <1>3, <1>5
<1> QED
  BY <1>1, <1>5, <1>6

(* What the scans collect, turn by turn.                                   *)
LEMMA CollectedStep ==
  ASSUME NEW s \in Bytes
  PROVE  \E text \in [0..Len(s) -> Bytes] :
            /\ Collected(s) = text[Len(s)]
            /\ text[0] = <<>>
            /\ \A i \in 1..Len(s) :
                  text[i] = IF s[i] = Space THEN text[i - 1] ELSE Append(text[i - 1], s[i])
<1> DEFINE Taken(i, t) == IF s[i] = Space THEN t ELSE Append(t, s[i])
           IsText(text) == text = [i \in 0..Len(s) |->
              IF i = 0 THEN <<>>
              ELSE IF s[i] = Space THEN text[i - 1] ELSE Append(text[i - 1], s[i])]
           step == [i \in 1..Len(s) |-> [t \in Bytes |-> Taken(i, t)]]
<1>1. Len(s) \in Nat /\ <<>> \in Bytes /\ \A i \in 1..Len(s), t \in Bytes : Taken(i, t) \in Bytes
  BY DEF Bytes
<1>2. \E f : IsText(f)
  <2>1. step \in [1..Len(s) -> [Bytes -> Bytes]]
    BY <1>1
  <2>2. \A i \in 1..Len(s), t \in Bytes : step[i][t] = Taken(i, t)
    OBVIOUS
  <2> HIDE DEF step, Taken
  <2>3. PICK f \in [0..Len(s) -> Bytes] :
            f[0] = <<>> /\ \A i \in 1..Len(s) : f[i] = step[i][f[i - 1]]
    <3> DEFINE n == Len(s)
               r == <<>>
               R == Bytes
    <3>1. n \in Nat /\ r \in R /\ step \in [1..n -> [R -> R]]
      BY <1>1, <2>1
    <3> HIDE DEF n, r, R
    <3>2. Definable(n, R, r, step)
      BY <3>1, Recursion
    <3> QED
      BY <3>2 DEF Definable, Follows, n, r, R
  <2>4. \A i \in 0..Len(s) : f[i] = IF i = 0 THEN <<>> ELSE Taken(i, f[i - 1])
    <3>1. \A i \in 1..Len(s) : i - 1 \in 0..Len(s) /\ f[i - 1] \in Bytes
      BY <1>1
    <3> QED
      BY <1>1, <2>2, <2>3, <3>1
  <2>5. f = [i \in 0..Len(s) |-> IF i = 0 THEN <<>> ELSE Taken(i, f[i - 1])]
    BY <2>4
  <2> QED
    BY <2>5 DEF Taken
<1> DEFINE text == CHOOSE t : IsText(t)
<1>3. IsText(text)
  <2> HIDE DEF IsText
  <2> QED
    BY <1>2
<1>4. Collected(s) = text[Len(s)]
  BY DEF Collected
<1> HIDE DEF text
<1>5. text[0] = <<>> /\ \A i \in 1..Len(s) : text[i] = Taken(i, text[i - 1])
  <2>1. \A i \in 0..Len(s) : text[i] = IF i = 0 THEN <<>> ELSE Taken(i, text[i - 1])
    BY <1>3
  <2> HIDE DEF Taken
  <2> QED
    BY <1>1, <2>1
<1>6. \A i \in 0..Len(s) : text[i] \in Bytes
  <2> DEFINE S == {i \in 0..Len(s) : text[i] \in Bytes}
  <2>1. 0 \in S
    BY <1>1, <1>5
  <2>2. \A i \in 1..Len(s) : i - 1 \in S => i \in S
    <3> HIDE DEF Taken
    <3> QED
      BY <1>1, <1>5
  <2> HIDE DEF S
  <2>3. \A i \in 0..Len(s) : i \in S
    BY <1>1, <2>1, <2>2, Induction
  <2> QED
    BY <2>3 DEF S
<1>7. text \in [0..Len(s) -> Bytes]
  BY <1>3, <1>6
<1> QED
  BY <1>4, <1>5, <1>7

(* A part of a string with the next character behind it.                   *)
LEMMA PartGrows ==
  ASSUME NEW s \in Bytes, NEW a \in 1..Len(s), NEW i \in a..Len(s)
  PROVE  Append(SubSeq(s, a, i - 1), s[i]) = SubSeq(s, a, i)
<1>0. Len(s) \in Nat /\ a \in Nat /\ i \in Nat /\ i - 1 \in Nat /\ s[i] \in 0..255
  BY BytesAre
<1> DEFINE t == SubSeq(s, a, i - 1)
           u == SubSeq(s, a, i)
<1>1. /\ t \in Bytes /\ Len(t) = i - a
      /\ \A j \in 1..(i - a) : t[j] = s[a + j - 1]
  <2>1. (i - 1) - a + 1 = i - a
    BY <1>0
  <2> QED
    BY <1>0, <2>1, Part
<1>2. /\ u \in Bytes /\ Len(u) = i - a + 1
      /\ \A j \in 1..(i - a + 1) : u[j] = s[a + j - 1]
  BY <1>0, Part
<1> HIDE DEF t, u
<1>3. /\ Append(t, s[i]) \in Seq(0..255) /\ Len(Append(t, s[i])) = i - a + 1
      /\ \A j \in 1..(i - a) : Append(t, s[i])[j] = t[j]
      /\ Append(t, s[i])[i - a + 1] = s[i]
  BY <1>0, <1>1, AppendProperties DEF Bytes
<1>4. \A j \in 1..(i - a + 1) : Append(t, s[i])[j] = u[j]
  <2> SUFFICES ASSUME NEW j \in 1..(i - a + 1) PROVE Append(t, s[i])[j] = u[j]
    OBVIOUS
  <2>1. CASE j = i - a + 1
    BY <1>0, <1>2, <1>3, <2>1
  <2>2. CASE j \in 1..(i - a)
    BY <1>0, <1>1, <1>2, <1>3, <2>2
  <2>3. i - a \in Int
    BY <1>0
  <2>4. j = i - a + 1 \/ j \in 1..(i - a)
    BY <2>3
  <2> QED
    BY <2>1, <2>2, <2>4
<1>5. Append(t, s[i]) = u
  BY <1>2, <1>3, <1>4, SeqEqual DEF Bytes
<1> QED
  BY <1>5 DEF t, u

(* Spaces in front and behind are stripped.                                *)
IsStripped(s, a, b) ==
    /\ a <= b
    /\ Stripped(s) = SubSeq(s, a, b)
    /\ s[a] # Space /\ s[b] # Space
    /\ \A i \in 1..Len(s) : i < a \/ i > b => s[i] = Space

(* What is between the spaces in front and behind, when there is           *)
(* something.                                                              *)
LEMMA StrippedIs ==
  ASSUME NEW s \in Bytes
  PROVE  \/ /\ \A i \in 1..Len(s) : s[i] = Space
            /\ Stripped(s) = <<>>
         \/ \E a \in 1..Len(s) : \E b \in 1..Len(s) : IsStripped(s, a, b)
<1> DEFINE inked == {i \in DOMAIN s : s[i] # Space}
           back == {Len(s) - i : i \in inked}
<1>0. Len(s) \in Nat /\ DOMAIN s = 1..Len(s)
  BY BytesAre
<1>1. CASE inked = {}
  BY <1>0, <1>1 DEF Stripped
<1>2. CASE inked # {}
  <2> DEFINE first == CHOOSE i \in inked : \A j \in inked : i <= j
             last == CHOOSE i \in inked : \A j \in inked : i >= j
  <2>1. inked \in SUBSET Nat /\ back \in SUBSET Nat /\ back # {}
    BY <1>0, <1>2
  <2>2. \E i \in inked : \A j \in inked : i <= j
    <3> HIDE DEF inked, back
    <3> QED
      BY <1>2, <2>1, LeastMember
  <2>3. \E i \in inked : \A j \in inked : i >= j
    <3>1. \E m \in back : \A k \in back : m <= k
      <4> HIDE DEF inked, back
      <4> QED
        BY <2>1, LeastMember
    <3>2. PICK i \in inked : \A k \in back : Len(s) - i <= k
      BY <3>1
    <3>3. \A j \in inked : Len(s) - i <= Len(s) - j
      BY <3>2
    <3>4. \A j \in inked : i >= j
      BY <1>0, <3>3
    <3> QED
      BY <3>4
  <2>4. first \in inked /\ \A j \in inked : first <= j
    <3> HIDE DEF inked
    <3> QED
      BY <2>2
  <2>5. last \in inked /\ \A j \in inked : last >= j
    <3> HIDE DEF inked
    <3> QED
      BY <2>3
  <2>6. Stripped(s) = SubSeq(s, first, last)
    BY <1>2 DEF Stripped
  <2> HIDE DEF first, last
  <2>7. first \in 1..Len(s) /\ last \in 1..Len(s)
    BY <1>0, <2>4, <2>5
  <2>8. \A i \in 1..Len(s) : s[i] # Space => first <= i /\ i <= last
    BY <1>0, <2>4, <2>5
  <2>9. IsStripped(s, first, last)
    BY <1>0, <2>4, <2>5, <2>6, <2>7, <2>8 DEF IsStripped
  <2> QED
    BY <2>7, <2>9
<1> QED
  BY <1>1, <1>2

(* The characters of a text stripped are characters of the text, and the   *)
(* others of the text are spaces.                                          *)
LEMMA StrippedHolds ==
  ASSUME NEW s \in Bytes
  PROVE  /\ Stripped(s) \in Bytes
         /\ \A i \in DOMAIN Stripped(s) : \E j \in DOMAIN s : Stripped(s)[i] = s[j]
         /\ \A j \in DOMAIN s : s[j] # Space => \E i \in DOMAIN Stripped(s) : Stripped(s)[i] = s[j]
<1>0. Len(s) \in Nat /\ DOMAIN s = 1..Len(s)
  BY BytesAre
<1>1. CASE (\A i \in 1..Len(s) : s[i] = Space) /\ Stripped(s) = <<>>
  <2>1. <<>> \in Bytes /\ DOMAIN <<>> = {}
    BY DEF Bytes
  <2> QED
    BY <1>0, <1>1, <2>1
<1>2. ASSUME NEW a \in 1..Len(s), NEW b \in 1..Len(s), IsStripped(s, a, b)
      PROVE  /\ Stripped(s) \in Bytes
             /\ \A i \in DOMAIN Stripped(s) : \E j \in DOMAIN s : Stripped(s)[i] = s[j]
             /\ \A j \in DOMAIN s : s[j] # Space => \E i \in DOMAIN Stripped(s) : Stripped(s)[i] = s[j]
  <2>1. a \in Nat /\ b \in Nat /\ a <= b /\ Stripped(s) = SubSeq(s, a, b)
    BY <1>0, <1>2 DEF IsStripped
  <2>2. /\ Stripped(s) \in Bytes
        /\ DOMAIN Stripped(s) = 1..(b - a + 1)
        /\ \A i \in 1..(b - a + 1) : Stripped(s)[i] = s[a + i - 1]
    BY <1>0, <2>1, Part
  <2>3. \A i \in DOMAIN Stripped(s) : Stripped(s)[i] = s[a + i - 1] /\ a + i - 1 \in DOMAIN s
    BY <1>0, <2>1, <2>2
  <2>4. ASSUME NEW j \in DOMAIN s, s[j] # Space
        PROVE  \E i \in DOMAIN Stripped(s) : Stripped(s)[i] = s[j]
    <3>1. a <= j /\ j <= b
      BY <1>0, <1>2, <2>1, <2>4 DEF IsStripped
    <3>2. j - a + 1 \in 1..(b - a + 1) /\ a + (j - a + 1) - 1 = j
      BY <1>0, <2>1, <3>1
    <3> QED
      BY <2>2, <3>2
  <2> QED
    BY <2>2, <2>3, <2>4
<1> QED
  BY <1>1, <1>2, StrippedIs

(* A line is blank when nothing is left of it without its spaces.          *)
LEMMA BlankIsStripped ==
  ASSUME NEW s \in Bytes
  PROVE  BlankLine(s) <=> Stripped(s) = <<>>
<1>0. DOMAIN s = 1..Len(s) /\ DOMAIN <<>> = {}
  BY BytesAre
<1>1. Stripped(s) = <<>> => BlankLine(s)
  BY <1>0, StrippedHolds DEF BlankLine
<1>2. ASSUME BlankLine(s), NEW a \in 1..Len(s), IsStripped(s, a, a) \/ \E b \in 1..Len(s) : IsStripped(s, a, b)
      PROVE  FALSE
  BY <1>0, <1>2 DEF BlankLine, IsStripped
<1> QED
  BY <1>1, <1>2, StrippedIs

(* Without a space inside, what the scans collect is the text stripped.    *)
LEMMA CollectedIsStripped ==
  ASSUME NEW s \in Bytes, \A i \in DOMAIN Stripped(s) : Stripped(s)[i] # Space
  PROVE  Collected(s) = Stripped(s)
<1>0. Len(s) \in Nat /\ DOMAIN s = 1..Len(s)
  BY BytesAre
<1>1. PICK text \in [0..Len(s) -> Bytes] :
            /\ Collected(s) = text[Len(s)]
            /\ text[0] = <<>>
            /\ \A i \in 1..Len(s) :
                  text[i] = IF s[i] = Space THEN text[i - 1] ELSE Append(text[i - 1], s[i])
  BY CollectedStep
<1>2. CASE (\A i \in 1..Len(s) : s[i] = Space) /\ Stripped(s) = <<>>
  <2> DEFINE S == {i \in 0..Len(s) : text[i] = <<>>}
  <2>1. 0 \in S /\ \A i \in 1..Len(s) : i - 1 \in S => i \in S
    BY <1>0, <1>1, <1>2
  <2> HIDE DEF S
  <2>2. \A i \in 0..Len(s) : i \in S
    BY <1>0, <2>1, Induction
  <2> QED
    BY <1>0, <1>1, <1>2, <2>2 DEF S
<1>3. ASSUME NEW a \in 1..Len(s), NEW b \in 1..Len(s), IsStripped(s, a, b)
      PROVE  Collected(s) = Stripped(s)
  <2>1. a \in Nat /\ b \in Nat /\ a <= b /\ Stripped(s) = SubSeq(s, a, b)
    BY <1>0, <1>3 DEF IsStripped
  <2>2. \A j \in a..b : s[j] # Space
    <3>1. /\ DOMAIN Stripped(s) = 1..(b - a + 1)
          /\ \A i \in 1..(b - a + 1) : Stripped(s)[i] = s[a + i - 1]
      BY <1>0, <2>1, Part
    <3>2. \A j \in a..b : j - a + 1 \in 1..(b - a + 1) /\ a + (j - a + 1) - 1 = j
      BY <1>0, <2>1
    <3> QED
      BY <3>1, <3>2
  <2> DEFINE At(i) == IF i < a THEN <<>> ELSE SubSeq(s, a, IF i < b THEN i ELSE b)
             S == {i \in 0..Len(s) : text[i] = At(i)}
  <2>3. 0 \in S
    BY <1>0, <1>1, <2>1
  <2>4. ASSUME NEW i \in 1..Len(s), i - 1 \in S PROVE i \in S
    <3>0. i \in Nat /\ i \in 0..Len(s) /\ text[i - 1] = At(i - 1)
      BY <1>0, <2>4
    <3>1. CASE i < a
      <4>1. s[i] = Space /\ i - 1 < a
        BY <1>0, <1>3, <3>1 DEF IsStripped
      <4> QED
        BY <1>1, <3>0, <3>1, <4>1
    <3>2. CASE i > b
      <4>1. s[i] = Space /\ ~(i - 1 < a) /\ ~(i < a) /\ ~(i < b)
            /\ (IF i - 1 < b THEN i - 1 ELSE b) = b
        BY <1>0, <1>3, <2>1, <3>0, <3>2 DEF IsStripped
      <4> QED
        BY <1>1, <3>0, <4>1
    <3>3. CASE a <= i /\ i <= b
      <4>0. s[i] # Space
        BY <2>1, <2>2, <3>0, <3>3
      <4>1. text[i] = Append(text[i - 1], s[i])
        BY <1>1, <4>0
      <4>2. text[i - 1] = SubSeq(s, a, i - 1)
        <5>1. CASE i = a
          <6>1. SubSeq(s, a, i - 1) = <<>>
            BY <2>1, <3>0, <5>1, SubSeqEmpty
          <6> QED
            BY <2>1, <3>0, <5>1, <6>1
        <5>2. CASE i # a
          BY <2>1, <3>0, <3>3, <5>2
        <5> QED
          BY <5>1, <5>2
      <4>3. text[i] = SubSeq(s, a, i)
        BY <1>0, <2>1, <3>0, <3>3, <4>1, <4>2, PartGrows
      <4> QED
        BY <2>1, <3>0, <3>3, <4>3
    <3> QED
      BY <1>0, <2>1, <3>0, <3>1, <3>2, <3>3
  <2>5. \A i \in 0..Len(s) : i \in S
    <3> HIDE DEF S
    <3> QED
      BY <1>0, <2>3, <2>4, Induction
  <2>6. text[Len(s)] = SubSeq(s, a, b)
    BY <1>0, <2>1, <2>5
  <2> QED
    BY <1>1, <2>1, <2>6
<1> QED
  BY <1>2, <1>3, StrippedIs

-----------------------------------------------------------------------------
(* Entries                                                                 *)

LeftOf(s) == SubSeq(s, 1, FirstPlace(Equal, s) - 1)

RightOf(s) == SubSeq(s, FirstPlace(Equal, s) + 1, Len(s))

(* A line has an entry when there is an equals sign in front of any sharp. *)
LEMMA EntryIs ==
  ASSUME NEW line \in Bytes
  PROVE  HasEntry(line) <=> Places(Equal, TrimSharp(line)) # {}
  BY TrimSharpIsContent DEF HasEntry, Places

(* The two sides of an entry, without the spaces around them.              *)
LEMMA SideIs ==
  ASSUME NEW line \in Bytes, HasEntry(line)
  PROVE  /\ LeftOf(TrimSharp(line)) \in Bytes
         /\ RightOf(TrimSharp(line)) \in Bytes
         /\ Side(line, 1) = Stripped(LeftOf(TrimSharp(line)))
         /\ Side(line, 2) = Stripped(RightOf(TrimSharp(line)))
<1> DEFINE s == TrimSharp(line)
           p == FirstPlace(Equal, s)
           IsFirst(i) == s[i] = Equal /\ \A j \in 1..(i - 1) : s[j] # Equal
           q == CHOOSE i \in DOMAIN s : IsFirst(i)
<1>1. s = Content(line) /\ s \in Bytes /\ Places(Equal, s) # {}
  BY TrimSharpIsContent, EntryIs
<1>2. Side(line, 1) = Stripped(SubSeq(s, 1, q - 1)) /\ Side(line, 2) = Stripped(SubSeq(s, q + 1, Len(s)))
  BY <1>1 DEF Side
<1> HIDE DEF s
<1>3. Len(s) \in Nat /\ DOMAIN s = 1..Len(s)
  BY <1>1, BytesAre
<1>4. p \in DOMAIN s /\ IsFirst(p)
  BY <1>1, <1>3, FirstPlaceIsFirst
<1>5. \A i, j \in DOMAIN s : IsFirst(i) /\ IsFirst(j) => i = j
  BY <1>3
<1>6. q \in DOMAIN s /\ IsFirst(q)
  <2> HIDE DEF IsFirst, p
  <2> QED
    BY <1>4
<1>7. q = p
  <2> HIDE DEF IsFirst, p, q
  <2> QED
    BY <1>4, <1>5, <1>6
<1>8. LeftOf(s) \in Bytes /\ RightOf(s) \in Bytes
  <2> HIDE DEF IsFirst
  <2>1. p \in Nat /\ p - 1 \in Nat /\ p + 1 \in Nat /\ p <= Len(s) /\ 1 <= p
    BY <1>3, <1>4
  <2>2. SubSeq(s, 1, p - 1) \in Bytes
    BY <1>1, <1>3, <2>1, Part
  <2>3. SubSeq(s, p + 1, Len(s)) \in Bytes
    BY <1>1, <1>3, <2>1, Part
  <2> QED
    BY <2>2, <2>3 DEF LeftOf, RightOf
<1>9. SubSeq(s, 1, q - 1) = LeftOf(s) /\ SubSeq(s, q + 1, Len(s)) = RightOf(s)
  <2> HIDE DEF q
  <2> QED
    BY <1>7 DEF LeftOf, RightOf
<1> QED
  BY <1>2, <1>8, <1>9 DEF s

(* What the scans of the code let pass.                                    *)
ValueChar(c) == c = Dot \/ IsDigit(c)

Passes(s) ==
    /\ \A i \in DOMAIN LeftOf(s) : IsAlnum(LeftOf(s)[i]) \/ LeftOf(s)[i] = Space
    /\ \A i \in DOMAIN RightOf(s) : ValueChar(RightOf(s)[i]) \/ RightOf(s)[i] = Space

(* What a line adds to the configuration, or that it ends the program.     *)
LEMMA ReadLineIs ==
  ASSUME NEW config, NEW s
  PROVE  ReadLineIntoConfigMap(config, s) =
            IF Passes(s) THEN <<Insert(config, Collected(LeftOf(s)), Collected(RightOf(s)))>> ELSE Exited
<1>1. Passes(s) <=>
         /\ \A i \in DOMAIN LeftOf(s) : IsAlnum(LeftOf(s)[i]) \/ LeftOf(s)[i] = Space
         /\ \A i \in DOMAIN RightOf(s) :
               RightOf(s)[i] = Dot \/ IsDigit(RightOf(s)[i]) \/ RightOf(s)[i] = Space
  BY DEF Passes, ValueChar
<1> QED
  BY <1>1 DEF ReadLineIntoConfigMap, LeftOf, RightOf

(* A line that the rules allow passes, and one that passes is allowed but  *)
(* for spaces.                                                             *)
LEMMA PassesIfLegal ==
  ASSUME NEW line \in Bytes, HasEntry(line)
  PROVE  /\ IsLegal(line) => Passes(TrimSharp(line))
         /\ Passes(TrimSharp(line)) => LegalButForSpaces(line)
<1> DEFINE l == LeftOf(TrimSharp(line))
           r == RightOf(TrimSharp(line))
<1>1. l \in Bytes /\ r \in Bytes /\ Side(line, 1) = Stripped(l) /\ Side(line, 2) = Stripped(r)
  BY SideIs
<1>3. Passes(TrimSharp(line)) <=>
         /\ \A i \in DOMAIN l : IsAlnum(l[i]) \/ l[i] = Space
         /\ \A i \in DOMAIN r : ValueChar(r[i]) \/ r[i] = Space
  BY DEF Passes
<1>4. IsLegal(line) <=>
         /\ \A i \in DOMAIN Stripped(l) : IsAlnum(Stripped(l)[i])
         /\ \A i \in DOMAIN Stripped(r) : ValueChar(Stripped(r)[i])
  <2> HIDE DEF l, r
  <2> QED
    BY <1>1 DEF IsLegal, ValueChar
<1>5. LegalButForSpaces(line) <=>
         /\ \A i \in DOMAIN Stripped(l) : IsAlnum(Stripped(l)[i]) \/ Stripped(l)[i] = Space
         /\ \A i \in DOMAIN Stripped(r) : ValueChar(Stripped(r)[i]) \/ Stripped(r)[i] = Space
  <2> HIDE DEF l, r
  <2> QED
    BY <1>1 DEF LegalButForSpaces, ValueChar
<1> HIDE DEF l, r
<1>6. IsLegal(line) => Passes(TrimSharp(line))
  <2> SUFFICES ASSUME IsLegal(line) PROVE Passes(TrimSharp(line))
    OBVIOUS
  <2>1. \A i \in DOMAIN l : IsAlnum(l[i]) \/ l[i] = Space
    BY <1>1, <1>4, StrippedHolds
  <2>2. \A i \in DOMAIN r : ValueChar(r[i]) \/ r[i] = Space
    BY <1>1, <1>4, StrippedHolds
  <2> QED
    BY <1>3, <2>1, <2>2
<1>7. Passes(TrimSharp(line)) => LegalButForSpaces(line)
  <2> SUFFICES ASSUME Passes(TrimSharp(line)) PROVE LegalButForSpaces(line)
    OBVIOUS
  <2>1. \A i \in DOMAIN Stripped(l) : IsAlnum(Stripped(l)[i]) \/ Stripped(l)[i] = Space
    BY <1>1, <1>3, StrippedHolds
  <2>2. \A i \in DOMAIN Stripped(r) : ValueChar(Stripped(r)[i]) \/ Stripped(r)[i] = Space
    BY <1>1, <1>3, StrippedHolds
  <2> QED
    BY <1>5, <2>1, <2>2
<1> QED
  BY <1>6, <1>7

(* A line that the rules allow is inserted as the rules read it.           *)
LEMMA LegalIsInserted ==
  ASSUME NEW line \in Bytes, HasEntry(line), IsLegal(line), NEW config
  PROVE  ReadLineIntoConfigMap(config, TrimSharp(line)) =
            <<Insert(config, Side(line, 1), Side(line, 2))>>
<1> DEFINE l == LeftOf(TrimSharp(line))
           r == RightOf(TrimSharp(line))
<1>1. l \in Bytes /\ r \in Bytes /\ Side(line, 1) = Stripped(l) /\ Side(line, 2) = Stripped(r)
  BY SideIs
<1>2. Passes(TrimSharp(line))
  BY PassesIfLegal
<1>3. \A i \in DOMAIN Side(line, 1) : Side(line, 1)[i] # Space
  BY DEF IsLegal, IsAlnum, IsDigit, Space
<1>4. \A i \in DOMAIN Side(line, 2) : Side(line, 2)[i] # Space
  BY DEF IsLegal, IsDigit, Dot, Space
<1>5. Collected(l) = Side(line, 1) /\ Collected(r) = Side(line, 2)
  <2> HIDE DEF l, r
  <2> QED
    BY <1>1, <1>3, <1>4, CollectedIsStripped
<1> QED
  BY <1>2, <1>5, ReadLineIs

-----------------------------------------------------------------------------
(* The file                                                                *)

(* The values let pass are without a colon, which the provider puts behind *)
(* the address.                                                            *)
Words == {v \in Bytes : \A i \in 1..Len(v) : v[i] # Colon}

Configs == UNION {[D -> Words] : D \in SUBSET Bytes}

ConfigReads == {Exited} \union {<<c>> : c \in Configs}

(* What a line makes of what has been read before it.                      *)
LineRead(line, read) ==
    IF read = Exited THEN Exited
    ELSE IF Places(Equal, TrimSharp(line)) # {} THEN ReadLineIntoConfigMap(read[1], TrimSharp(line))
    ELSE IF BlankLine(TrimSharp(line)) THEN read
    ELSE Exited

(* insert adds a key, and never changes a value that is there.             *)
LEMMA InsertIs ==
  ASSUME NEW c \in Configs, NEW k \in Bytes, NEW v \in Words
  PROVE  /\ Insert(c, k, v) \in Configs
         /\ DOMAIN Insert(c, k, v) = DOMAIN c \union {k}
         /\ \A j \in DOMAIN c : Insert(c, k, v)[j] = c[j]
         /\ k \notin DOMAIN c => Insert(c, k, v)[k] = v
<1>1. PICK D \in SUBSET Bytes : c \in [D -> Words]
  BY DEF Configs
<1>2. Insert(c, k, v) \in [D \union {k} -> Words]
  BY <1>1 DEF Insert
<1>3. D \union {k} \in SUBSET Bytes
  BY <1>1
<1>4. Insert(c, k, v) \in Configs
  BY <1>2, <1>3 DEF Configs
<1> QED
  BY <1>1, <1>4 DEF Insert

(* What is collected of a side is bytes.                                   *)
LEMMA CollectedBytes ==
  ASSUME NEW s \in Bytes
  PROVE  Collected(s) \in Bytes
<1>1. PICK text \in [0..Len(s) -> Bytes] : Collected(s) = text[Len(s)]
  BY CollectedStep
<1>2. Len(s) \in 0..Len(s)
  BY BytesAre
<1> QED
  BY <1>1, <1>2

(* What is collected is there in the text.                                 *)
LEMMA CollectedWord ==
  ASSUME NEW s \in Bytes, \A i \in 1..Len(s) : s[i] # Colon
  PROVE  Collected(s) \in Words
<1>1. PICK text \in [0..Len(s) -> Bytes] :
            /\ Collected(s) = text[Len(s)]
            /\ text[0] = <<>>
            /\ \A i \in 1..Len(s) :
                  text[i] = IF s[i] = Space THEN text[i - 1] ELSE Append(text[i - 1], s[i])
  BY CollectedStep
<1>2. Len(s) \in Nat /\ \A i \in 1..Len(s) : s[i] \in 0..255
  BY BytesAre
<1>3. <<>> \in Words
  BY DEF Words, Bytes
<1>4. ASSUME NEW t \in Words, NEW c \in 0..255, c # Colon PROVE Append(t, c) \in Words
  <2> DEFINE B == 0..255
  <2>1. t \in Seq(B) /\ c \in B /\ \A i \in 1..Len(t) : t[i] # Colon
    BY DEF Words, Bytes
  <2> HIDE DEF B
  <2>2. /\ Append(t, c) \in Seq(B) /\ Len(Append(t, c)) = Len(t) + 1
        /\ \A i \in 1..Len(t) : Append(t, c)[i] = t[i]
        /\ Append(t, c)[Len(t) + 1] = c
    BY <2>1, AppendProperties
  <2>3. Len(t) \in Nat
    BY <2>1, LenProperties
  <2>4. \A i \in 1..(Len(t) + 1) : i \in 1..Len(t) \/ i = Len(t) + 1
    BY <2>3
  <2>5. \A i \in 1..Len(Append(t, c)) : Append(t, c)[i] # Colon
    BY <1>4, <2>1, <2>2, <2>4
  <2> QED
    BY <2>2, <2>5 DEF Words, Bytes, B
<1> DEFINE S == {i \in 0..Len(s) : text[i] \in Words}
<1>5. 0 \in S
  BY <1>1, <1>2, <1>3
<1>6. ASSUME NEW i \in 1..Len(s), i - 1 \in S PROVE i \in S
  <2>1. i \in 0..Len(s) /\ text[i - 1] \in Words /\ s[i] \in 0..255 /\ s[i] # Colon
    BY <1>2, <1>6
  <2>2. Append(text[i - 1], s[i]) \in Words
    BY <1>4, <2>1
  <2>3. text[i] \in Words
    BY <1>1, <2>1, <2>2
  <2> QED
    BY <2>1, <2>3
<1> HIDE DEF S
<1>7. \A i \in 0..Len(s) : i \in S
  BY <1>2, <1>5, <1>6, Induction
<1>8. Len(s) \in S
  BY <1>2, <1>7
<1> QED
  BY <1>1, <1>8 DEF S

(* Reading a line leaves a configuration, or ends the program.             *)
LEMMA LineReadType ==
  ASSUME NEW line \in Bytes, NEW read \in ConfigReads
  PROVE  LineRead(line, read) \in ConfigReads
<1>1. CASE read = Exited
  BY <1>1 DEF LineRead
<1>2. CASE read # Exited /\ Places(Equal, TrimSharp(line)) # {}
  <2> DEFINE s == TrimSharp(line)
  <2>1. PICK c \in Configs : read = <<c>>
    BY <1>2 DEF ConfigReads
  <2>2. LeftOf(s) \in Bytes /\ RightOf(s) \in Bytes
    BY <1>2, EntryIs, SideIs
  <2> HIDE DEF s
  <2>3. ASSUME Passes(s)
        PROVE  Insert(c, Collected(LeftOf(s)), Collected(RightOf(s))) \in Configs
    <3>1. \A i \in DOMAIN RightOf(s) : RightOf(s)[i] # Colon
      BY <2>3 DEF Passes, ValueChar, IsDigit, Dot, Space, Colon
    <3>2. Collected(RightOf(s)) \in Words
      BY <2>2, <3>1, BytesAre, CollectedWord
    <3> QED
      BY <2>2, <3>2, CollectedBytes, InsertIs
  <2>4. ReadLineIntoConfigMap(c, s) \in ConfigReads
    BY <2>3, ReadLineIs DEF ConfigReads
  <2> QED
    BY <1>2, <2>1, <2>4 DEF LineRead, s
<1>3. CASE read # Exited /\ Places(Equal, TrimSharp(line)) = {}
  BY <1>3 DEF LineRead, ConfigReads
<1> QED
  BY <1>1, <1>2, <1>3

(* What has been read at the end of each line.                             *)
IsReading(read, lines, loaded) ==
    /\ read \in [0..Len(lines) -> ConfigReads]
    /\ loaded = read[Len(lines)]
    /\ read[0] = <<NoConfig>>
    /\ \A i \in 1..Len(lines) : read[i] = LineRead(lines[i], read[i - 1])

(* A file is read one line after the other.                                *)
LEMMA LoadStep ==
  ASSUME NEW files, NEW name \in DOMAIN files, files[name] \in Seq(Bytes)
  PROVE  \E read : IsReading(read, files[name], LoadConfigFile(files, name))
<1> DEFINE lines == files[name]
           n == Len(lines)
           IsRead(read) == read = [i \in 0..n |->
              IF i = 0 THEN <<NoConfig>>
              ELSE LET line == TrimSharp(lines[i])
                   IN IF read[i - 1] = Exited THEN Exited
                      ELSE IF Places(Equal, line) # {} THEN ReadLineIntoConfigMap(read[i - 1][1], line)
                      ELSE IF BlankLine(line) THEN read[i - 1]
                      ELSE Exited]
           step == [i \in 1..n |-> [t \in ConfigReads |-> LineRead(lines[i], t)]]
           read == CHOOSE r : IsRead(r)
<1>1. LoadConfigFile(files, name) = read[n]
  BY DEF LoadConfigFile
<1>2. n \in Nat /\ \A i \in 1..n : lines[i] \in Bytes
  <2> DEFINE B == Bytes
  <2>1. lines \in Seq(B)
    OBVIOUS
  <2> HIDE DEF B, lines
  <2>2. n \in Nat /\ lines \in [1..n -> B]
    BY <2>1, LenProperties
  <2> QED
    BY <2>2 DEF B
<1> HIDE DEF lines, n
<1>3. <<NoConfig>> \in ConfigReads
  <2>1. {} \in SUBSET Bytes /\ NoConfig \in [{} -> Words]
    BY DEF NoConfig
  <2> QED
    BY <2>1 DEF ConfigReads, Configs
<1>4. \A i \in 1..n, t \in ConfigReads : LineRead(lines[i], t) \in ConfigReads
  BY <1>2, LineReadType
<1>5. ASSUME NEW r
      PROVE  IsRead(r) <=> r = [i \in 0..n |-> IF i = 0 THEN <<NoConfig>> ELSE LineRead(lines[i], r[i - 1])]
  BY DEF LineRead
<1>6. \E r : IsRead(r)
  <2>1. step \in [1..n -> [ConfigReads -> ConfigReads]]
    BY <1>4
  <2>2. \A i \in 1..n, t \in ConfigReads : step[i][t] = LineRead(lines[i], t)
    OBVIOUS
  <2> HIDE DEF step
  <2>3. Definable(n, ConfigReads, <<NoConfig>>, step)
    BY <1>2, <1>3, <2>1, Recursion
  <2>4. PICK r \in [0..n -> ConfigReads] : r[0] = <<NoConfig>> /\ \A i \in 1..n : r[i] = step[i][r[i - 1]]
    BY <2>3 DEF Definable, Follows
  <2>5. \A i \in 1..n : r[i] = LineRead(lines[i], r[i - 1])
    BY <1>2, <2>2, <2>4
  <2>6. r = [i \in 0..n |-> IF i = 0 THEN <<NoConfig>> ELSE LineRead(lines[i], r[i - 1])]
    <3> DEFINE Value(i) == IF i = 0 THEN <<NoConfig>> ELSE LineRead(lines[i], r[i - 1])
    <3>1. \A i \in 0..n : r[i] = Value(i)
      <4>1. r[0] = Value(0)
        BY <2>4
      <4>2. \A i \in 1..n : r[i] = Value(i)
        BY <2>5
      <4>3. \A i \in 0..n : i = 0 \/ i \in 1..n
        BY <1>2
      <4> HIDE DEF Value
      <4> QED
        BY <4>1, <4>2, <4>3
    <3>2. r = [i \in 0..n |-> r[i]]
      BY <2>4
    <3> HIDE DEF Value
    <3>3. r = [i \in 0..n |-> Value(i)]
      BY <3>1, <3>2
    <3> QED
      BY <3>3 DEF Value
  <2> HIDE DEF IsRead
  <2> QED
    BY <1>5, <2>6
<1>7. IsRead(read)
  <2> HIDE DEF IsRead
  <2> QED
    BY <1>6
<1>8. read = [i \in 0..n |-> IF i = 0 THEN <<NoConfig>> ELSE LineRead(lines[i], read[i - 1])]
  <2> HIDE DEF IsRead, read
  <2> QED
    BY <1>5, <1>7
<1> HIDE DEF read, IsRead
<1>9. read[0] = <<NoConfig>> /\ \A i \in 1..n : read[i] = LineRead(lines[i], read[i - 1])
  BY <1>2, <1>8
<1>10. \A i \in 0..n : read[i] \in ConfigReads
  <2> DEFINE S == {i \in 0..n : read[i] \in ConfigReads}
  <2>1. 0 \in S /\ \A i \in 1..n : i - 1 \in S => i \in S
    BY <1>2, <1>3, <1>4, <1>9
  <2> HIDE DEF S
  <2>2. \A i \in 0..n : i \in S
    BY <1>2, <2>1, Induction
  <2> QED
    BY <2>2 DEF S
<1>11. read \in [0..n -> ConfigReads]
  BY <1>8, <1>10
<1> QED
  BY <1>1, <1>9, <1>11 DEF IsReading, n, lines

(* The entries of the first n lines, and a configuration that holds them,  *)
(* of each key the first.                                                  *)
Entries(lines, n) == {j \in 1..n : HasEntry(lines[j])}

HoldsEntries(c, lines, n) ==
    /\ DOMAIN c = {Side(lines[j], 1) : j \in Entries(lines, n)}
    /\ \A j \in Entries(lines, n) :
          (\A h \in Entries(lines, n) : Side(lines[h], 1) = Side(lines[j], 1) => j <= h)
             => c[Side(lines[j], 1)] = Side(lines[j], 2)

(* A configuration that holds the entries of all lines is the one the      *)
(* rules make.                                                             *)
LEMMA HeldIsByRules ==
  ASSUME NEW lines \in Seq(Bytes), NEW c \in Configs, HoldsEntries(c, lines, Len(lines))
  PROVE  c = ByRules(lines)
<1> DEFINE entries == {i \in DOMAIN lines : HasEntry(lines[i])}
           IsFirstOf(k, i) == /\ Side(lines[i], 1) = k
                              /\ \A j \in entries : Side(lines[j], 1) = k => i <= j
           FirstOf(k) == CHOOSE i \in entries : IsFirstOf(k, i)
           keys == {Side(lines[i], 1) : i \in entries}
<1>1. ByRules(lines) = [k \in keys |-> Side(lines[FirstOf(k)], 2)]
  BY DEF ByRules
<1>2. DOMAIN lines = 1..Len(lines) /\ Len(lines) \in Nat
  <2> DEFINE B == Bytes
  <2>1. lines \in Seq(B)
    OBVIOUS
  <2> HIDE DEF B
  <2> QED
    BY <2>1, LenProperties
<1>3. entries = Entries(lines, Len(lines)) /\ entries \in SUBSET Nat
  BY <1>2 DEF Entries
<1> HIDE DEF entries
<1>4. ASSUME NEW k \in keys PROVE c[k] = Side(lines[FirstOf(k)], 2)
  <2> DEFINE S == {i \in entries : Side(lines[i], 1) = k}
  <2>1. S \in SUBSET Nat /\ S # {}
    BY <1>3
  <2>2. \E m \in S : \A j \in S : m <= j
    <3> HIDE DEF S
    <3> QED
      BY <2>1, LeastMember
  <2>3. \E i \in entries : IsFirstOf(k, i)
    BY <2>2
  <2>4. FirstOf(k) \in entries /\ IsFirstOf(k, FirstOf(k))
    <3> HIDE DEF IsFirstOf
    <3> QED
      BY <2>3
  <2> DEFINE f == FirstOf(k)
  <2>5. f \in entries /\ IsFirstOf(k, f)
    BY <2>4
  <2> HIDE DEF f
  <2>6. c[Side(lines[f], 1)] = Side(lines[f], 2)
    BY <1>3, <2>5 DEF HoldsEntries
  <2>7. c[k] = Side(lines[f], 2)
    BY <2>5, <2>6
  <2> QED
    BY <2>7 DEF f
<1>5. c = [k \in keys |-> c[k]]
  <2>1. DOMAIN c = keys
    BY <1>3 DEF HoldsEntries
  <2>2. c = [k \in DOMAIN c |-> c[k]]
    BY DEF Configs
  <2> QED
    BY <2>1, <2>2
<1> DEFINE value(k) == Side(lines[FirstOf(k)], 2)
<1>6. \A k \in keys : c[k] = value(k)
  BY <1>4
<1>7. ByRules(lines) = [k \in keys |-> value(k)]
  BY <1>1
<1> HIDE DEF keys, value
<1> QED
  BY <1>5, <1>6, <1>7

(* The next line adds its entry, unless the key is there already.          *)
LEMMA HoldsNext ==
  ASSUME NEW lines \in Seq(Bytes), NEW n \in 1..Len(lines), NEW c \in Configs,
         HoldsEntries(c, lines, n - 1), HasEntry(lines[n]),
         Side(lines[n], 1) \in Bytes, Side(lines[n], 2) \in Words
  PROVE  /\ Insert(c, Side(lines[n], 1), Side(lines[n], 2)) \in Configs
         /\ HoldsEntries(Insert(c, Side(lines[n], 1), Side(lines[n], 2)), lines, n)
<1> DEFINE Key(j) == Side(lines[j], 1)
           d == Insert(c, Key(n), Side(lines[n], 2))
           before == Entries(lines, n - 1)
<1>1. /\ d \in Configs
      /\ DOMAIN d = DOMAIN c \union {Key(n)}
      /\ \A k \in DOMAIN c : d[k] = c[k]
      /\ Key(n) \notin DOMAIN c => d[Key(n)] = Side(lines[n], 2)
  BY InsertIs
<1>2. Entries(lines, n) = before \union {n} /\ \A j \in before : j \in Nat /\ j < n
  BY DEF Entries
<1>3. DOMAIN c = {Key(j) : j \in before}
  BY DEF HoldsEntries
<1> HIDE DEF d, before
<1>4. DOMAIN d = {Key(j) : j \in Entries(lines, n)}
  BY <1>1, <1>2, <1>3
<1>5. ASSUME NEW j \in Entries(lines, n), \A h \in Entries(lines, n) : Key(h) = Key(j) => j <= h
      PROVE  d[Key(j)] = Side(lines[j], 2)
  <2>1. CASE j \in before
    <3>1. c[Key(j)] = Side(lines[j], 2)
      BY <1>2, <1>5, <2>1 DEF HoldsEntries, before
    <3>2. Key(j) \in DOMAIN c
      BY <1>3, <2>1
    <3> QED
      BY <1>1, <3>1, <3>2
  <2>2. CASE j = n
    <3>1. \A h \in before : Key(h) # Key(n)
      BY <1>2, <1>5, <2>2
    <3>2. Key(n) \notin DOMAIN c
      BY <1>3, <3>1
    <3> QED
      BY <1>1, <2>2, <3>2
  <2> QED
    BY <1>2, <2>1, <2>2
<1>6. HoldsEntries(d, lines, n)
  BY <1>4, <1>5 DEF HoldsEntries
<1> QED
  BY <1>1, <1>6 DEF d

Allowed(lines, n) == \A j \in 1..n : IsLegal(lines[j])

Plain(line) == IsLegal(line) \/ LegalButForSpaces(line)

(* What has been read of the first n lines.                                *)
ReadRight(read, lines, n) ==
    /\ read = Exited => ~Allowed(lines, n)
    /\ read # Exited => \A j \in 1..n : Plain(lines[j])
    /\ Allowed(lines, n) => HoldsEntries(read[1], lines, n)

(* A line that is read adds what the rules say of it.                      *)
LEMMA LineReadRight ==
  ASSUME NEW lines \in Seq(Bytes), NEW n \in 1..Len(lines), NEW read \in ConfigReads,
         ReadRight(read, lines, n - 1)
  PROVE  ReadRight(LineRead(lines[n], read), lines, n)
<1> DEFINE line == lines[n]
           next == LineRead(line, read)
<1>1. line \in Bytes
  <2> DEFINE B == Bytes
  <2>1. lines \in Seq(B)
    OBVIOUS
  <2> HIDE DEF B
  <2>2. line \in B
    BY <2>1, ElementOfSeq
  <2> QED
    BY <2>2 DEF B
<1>2. /\ Allowed(lines, n) <=> Allowed(lines, n - 1) /\ IsLegal(line)
      /\ (\A j \in 1..n : Plain(lines[j])) <=> (\A j \in 1..(n - 1) : Plain(lines[j])) /\ Plain(line)
  <2>1. \A j : j \in 1..n <=> j \in 1..(n - 1) \/ j = n
    OBVIOUS
  <2> QED
    BY <2>1 DEF Allowed
<1>3. CASE read = Exited
  BY <1>2, <1>3 DEF LineRead, ReadRight
<1>4. CASE read # Exited /\ HasEntry(line)
  <2>1. PICK c \in Configs : read = <<c>>
    BY <1>4 DEF ConfigReads
  <2>2. next = ReadLineIntoConfigMap(c, TrimSharp(line))
    BY <1>1, <1>4, <2>1, EntryIs DEF LineRead
  <2>3. (next = Exited <=> ~Passes(TrimSharp(line)))
    <3>1. \A x : <<x>> # Exited
      BY DEF Exited
    <3> QED
      BY <2>2, <3>1, ReadLineIs
  <2>4. /\ IsLegal(line) => Passes(TrimSharp(line))
        /\ Passes(TrimSharp(line)) => Plain(line)
    BY <1>1, <1>4, PassesIfLegal DEF Plain
  <2>5. ASSUME Allowed(lines, n) PROVE HoldsEntries(next[1], lines, n)
    <3>1. IsLegal(line) /\ HoldsEntries(c, lines, n - 1)
      BY <1>2, <2>1, <2>5 DEF ReadRight
    <3>2. next = <<Insert(c, Side(line, 1), Side(line, 2))>>
      BY <1>1, <1>4, <2>2, <3>1, LegalIsInserted
    <3>3. Side(line, 1) \in Bytes /\ Side(line, 2) \in Words
      <4>1. Side(line, 1) \in Bytes /\ Side(line, 2) \in Bytes
        BY <1>1, <1>4, SideIs, StrippedHolds
      <4>2. \A i \in DOMAIN Side(line, 2) : Side(line, 2)[i] # Colon
        BY <1>4, <3>1 DEF IsLegal, IsDigit, Dot, Colon
      <4> QED
        BY <4>1, <4>2, BytesAre DEF Words
    <3>4. HoldsEntries(Insert(c, Side(line, 1), Side(line, 2)), lines, n)
      BY <1>4, <3>1, <3>3, HoldsNext
    <3> QED
      BY <3>2, <3>4
  <2> HIDE DEF next, line
  <2> QED
    BY <1>2, <1>4, <2>3, <2>4, <2>5 DEF ReadRight, next, line
<1>5. CASE read # Exited /\ ~HasEntry(line)
  <2>1. next = IF BlankLine(TrimSharp(line)) THEN read ELSE Exited
    BY <1>1, <1>5, EntryIs DEF LineRead
  <2>2. BlankLine(TrimSharp(line)) <=> IsLegal(line)
    BY <1>1, <1>5, BlankIsStripped, TrimSharpIsContent DEF IsLegal
  <2>3. ~LegalButForSpaces(line)
    BY <1>5 DEF LegalButForSpaces
  <2>4. Entries(lines, n) = Entries(lines, n - 1)
    BY <1>5 DEF Entries
  <2>5. HoldsEntries(read[1], lines, n - 1) => HoldsEntries(read[1], lines, n)
    BY <2>4 DEF HoldsEntries
  <2> HIDE DEF next, line
  <2> QED
    BY <1>2, <1>5, <2>1, <2>2, <2>3, <2>5 DEF ReadRight, Plain, next, line
<1> QED
  BY <1>3, <1>4, <1>5

(* So the whole file is read by the rules.                                 *)
LEMMA LoadRight ==
  ASSUME NEW files, NEW name \in DOMAIN files, files[name] \in Seq(Bytes)
  PROVE  /\ LoadConfigFile(files, name) \in ConfigReads
         /\ ReadRight(LoadConfigFile(files, name), files[name], Len(files[name]))
<1> DEFINE lines == files[name]
           n == Len(lines)
<1>1. n \in Nat /\ n \in 0..n
  <2> DEFINE B == Bytes
  <2>1. lines \in Seq(B)
    OBVIOUS
  <2> HIDE DEF B, lines
  <2> QED
    BY <2>1, LenProperties
<1>2. PICK read : IsReading(read, lines, LoadConfigFile(files, name))
  BY LoadStep
<1>3. /\ read \in [0..n -> ConfigReads]
      /\ LoadConfigFile(files, name) = read[n]
      /\ read[0] = <<NoConfig>>
      /\ \A i \in 1..n : read[i] = LineRead(lines[i], read[i - 1])
  BY <1>2 DEF IsReading
<1> DEFINE S == {i \in 0..n : ReadRight(read[i], lines, i)}
<1>4. 0 \in S
  <2>1. <<NoConfig>> # Exited /\ <<NoConfig>>[1] = NoConfig
    BY DEF Exited
  <2>2. Entries(lines, 0) = {} /\ DOMAIN NoConfig = {}
    BY DEF Entries, NoConfig
  <2>3. HoldsEntries(NoConfig, lines, 0)
    BY <2>2 DEF HoldsEntries
  <2>4. ReadRight(<<NoConfig>>, lines, 0)
    BY <2>1, <2>3 DEF ReadRight
  <2> QED
    BY <1>1, <1>3, <2>4
<1>5. ASSUME NEW i \in 1..n, i - 1 \in S PROVE i \in S
  <2>1. i - 1 \in 0..n /\ i \in 0..n /\ read[i - 1] \in ConfigReads
    BY <1>1, <1>3
  <2>2. ReadRight(LineRead(lines[i], read[i - 1]), lines, i)
    BY <1>5, <2>1, LineReadRight
  <2> QED
    BY <1>3, <2>1, <2>2
<1>6. n \in S
  <2> HIDE DEF S
  <2>1. \A i \in 0..n : i \in S
    BY <1>1, <1>4, <1>5, Induction
  <2> QED
    BY <1>1, <2>1
<1> QED
  BY <1>1, <1>3, <1>6

-----------------------------------------------------------------------------
(* The configuration of the provider                                       *)

Started ==
    KopirpcApplication_Init(deployment.providerArgv, deployment.files)

ConfigInv ==
    /\ deployment \in Deployments
    /\ ConfigByRules

(* At first no configuration has been read.                                *)
LEMMA InitConfig == Init => ConfigInv
  BY DEF Init, ProviderInit, ConfigInv, ConfigByRules

(* The process exits or starts as ConfigByRules says.                      *)
LEMMA StartedRight ==
  ASSUME deployment \in Deployments
  PROVE  /\ Started \in ConfigReads
         /\ Started = Exited => ~IsOpened \/ \E i \in DOMAIN Lines : ~IsLegal(Lines[i])
         /\ Started # Exited =>
               /\ IsOpened
               /\ (\A i \in DOMAIN Lines : IsLegal(Lines[i])) => Started[1] = ByRules(Lines)
               /\ \A i \in DOMAIN Lines : Plain(Lines[i])
<1> DEFINE argv == deployment.providerArgv
           name == Getopt(argv).optarg
<1>1. CASE ~IsOpened
  <2>1. Getopt(argv).c # "i" => Started = Exited
    BY DEF Started, KopirpcApplication_Init
  <2>2. name \notin DOMAIN deployment.files => Started = Exited
    BY DEF Started, KopirpcApplication_Init, LoadConfigFile
  <2>3. Started = Exited
    BY <1>1, <2>1, <2>2 DEF IsOpened
  <2>4. Exited \in ConfigReads
    BY DEF ConfigReads
  <2> QED
    BY <1>1, <2>3, <2>4
<1>2. CASE IsOpened
  <2>1. Getopt(argv).c = "i" /\ name \in DOMAIN deployment.files
    BY <1>2 DEF IsOpened
  <2>2. argv # <<>>
    <3> SUFFICES ASSUME argv = <<>> PROVE FALSE
      OBVIOUS
    <3>1. Getopt(<<>>) = [c |-> "end", optarg |-> <<>>]
      BY DEF Getopt
    <3> QED
      BY <2>1, <3>1
  <2>3. Started = LoadConfigFile(deployment.files, name)
    BY <2>1, <2>2 DEF Started, KopirpcApplication_Init
  <2>4. Lines = deployment.files[name] /\ Lines \in Seq(Bytes)
    BY <2>1, FileAssumption DEF Lines
  <2>5. DOMAIN Lines = 1..Len(Lines)
    <3> DEFINE B == Bytes
    <3>1. Lines \in Seq(B)
      BY <2>4
    <3> HIDE DEF B
    <3> QED
      BY <3>1, LenProperties
  <2>6. Started \in ConfigReads /\ ReadRight(Started, Lines, Len(Lines))
    BY <2>1, <2>3, <2>4, LoadRight
  <2>7. ASSUME Started # Exited, Allowed(Lines, Len(Lines)) PROVE Started[1] = ByRules(Lines)
    <3>1. PICK c \in Configs : Started = <<c>>
      BY <2>6, <2>7 DEF ConfigReads
    <3>2. HoldsEntries(c, Lines, Len(Lines))
      BY <2>6, <2>7, <3>1 DEF ReadRight
    <3>3. c = ByRules(Lines)
      BY <2>4, <3>2, HeldIsByRules
    <3> QED
      BY <3>1, <3>3
  <2>8. Allowed(Lines, Len(Lines)) <=> \A i \in DOMAIN Lines : IsLegal(Lines[i])
    BY <2>5 DEF Allowed
  <2> QED
    BY <1>2, <2>5, <2>6, <2>7, <2>8 DEF ReadRight
<1> QED
  BY <1>1, <1>2

(* Every step keeps the configuration by the rules.                        *)
LEMMA NextConfig == ConfigInv /\ [Next]_vars => ConfigInv'
<1> SUFFICES ASSUME ConfigInv, [Next]_vars PROVE ConfigInv'
  OBVIOUS
<1>0. deployment \in Deployments /\ ConfigByRules
  BY DEF ConfigInv
<1>1. CASE UNCHANGED <<deployment, provider, providerConfig>>
  BY <1>0, <1>1 DEF ConfigInv, ConfigByRules, Lines, IsOpened
<1>2. CASE UNCHANGED deployment /\ provider' \notin {"exited", "notify"}
  BY <1>0, <1>2 DEF ConfigInv, ConfigByRules
<1>3. CASE ProviderMain
  <2>1. deployment' = deployment /\ Lines' = Lines /\ (IsOpened' <=> IsOpened)
    BY <1>3 DEF ProviderMain, Lines, IsOpened
  <2>2. CASE Started = Exited
    <3>1. provider' = "exited"
      BY <1>3, <2>2 DEF ProviderMain, Started
    <3>2. ConfigByRules'
      BY <1>0, <2>1, <2>2, <3>1, StartedRight DEF ConfigByRules
    <3> QED
      BY <1>0, <2>1, <3>2 DEF ConfigInv
  <2>3. CASE Started # Exited
    <3>1. provider' = "notify" /\ providerConfig' = Started[1]
      BY <1>3, <2>3 DEF ProviderMain, Started
    <3>2. ConfigByRules'
      BY <1>0, <2>1, <2>3, <3>1, StartedRight DEF ConfigByRules, Plain
    <3> QED
      BY <1>0, <2>1, <3>2 DEF ConfigInv
  <2> QED
    BY <2>2, <2>3
<1>4. NotifyService \/ RunBinds \/ RunStarts => UNCHANGED deployment /\ provider' \notin {"exited", "notify"}
  BY DEF NotifyService, RunBinds, RunStarts
<1>5. RunCreates => UNCHANGED <<deployment, provider, providerConfig>>
  BY DEF RunCreates, providerVars
<1>6. ASSUME NEW c \in Connections, NEW n \in 1..Len(inbox[c]), OnMessage(c, n)
      PROVE  \/ UNCHANGED <<deployment, provider, providerConfig>>
             \/ UNCHANGED deployment /\ provider' \notin {"exited", "notify"}
  BY <1>6 DEF OnMessage, Throws, Rejects, Serves
<1>7. ASSUME NEW c \in Connections, CallMethodAndDone(c)
      PROVE  UNCHANGED <<deployment, provider, providerConfig>>
  BY <1>7 DEF CallMethodAndDone
<1>8. CallerNext => UNCHANGED <<deployment, provider, providerConfig>>
  BY DEF CallerNext, CallerMain, Report, NotExisted, NotExistedNull, Existed, Borrow, BorrowFails,
         Send, Receive, Parsed, SendOrReceiveFails, ReturnsFailed, Returns, providerVars
<1>9. UNCHANGED vars => UNCHANGED <<deployment, provider, providerConfig>>
  BY DEF vars, providerVars
<1>10. CASE ProviderNext
  BY <1>1, <1>2, <1>3, <1>4, <1>5, <1>6, <1>7, <1>10 DEF ProviderNext
<1> QED
  BY <1>1, <1>8, <1>9, <1>10 DEF Next, Over

(* Whatever the file of the provider holds, it runs with what the rules    *)
(* make of it and refuses no file that they allow; of those that they      *)
(* forbid it runs with none but for spaces inside a key or value           *)
(* (kopirpcconfig.h:9-13, kopirpcconfig.cc:16-152).                        *)
THEOREM ConfigByRulesHolds == Spec => []ConfigByRules
<1>1. ConfigInv => ConfigByRules
  BY DEF ConfigInv
<1> QED
  BY <1>1, InitConfig, NextConfig, PTL DEF Spec

-----------------------------------------------------------------------------
(* Numbers in text                                                         *)

DigitTexts == {s \in Bytes : \A i \in 1..Len(s) : IsDigit(s[i])}

DigitOf(n) == <<48 + (n % 10)>>

(* A digit behind digits.                                                  *)
LEMMA DigitAppended ==
  ASSUME NEW s \in DigitTexts, NEW n \in Nat
  PROVE  /\ s \o DigitOf(n) \in DigitTexts
         /\ Len(s \o DigitOf(n)) = Len(s) + 1
         /\ \A i \in 1..Len(s) : (s \o DigitOf(n))[i] = s[i]
         /\ (s \o DigitOf(n))[Len(s) + 1] = 48 + (n % 10)
<1> DEFINE d == 48 + (n % 10)
           t == s \o <<d>>
<1>1. d \in 48..57
  OBVIOUS
<1>2. s \in Seq(0..255) /\ <<d>> \in Seq(0..255) /\ Len(<<d>>) = 1 /\ <<d>>[1] = d
  BY <1>1 DEF DigitTexts, Bytes
<1> HIDE DEF d
<1>3. /\ t \in Seq(0..255) /\ Len(t) = Len(s) + 1
      /\ \A i \in 1..(Len(s) + 1) : t[i] = IF i <= Len(s) THEN s[i] ELSE <<d>>[i - Len(s)]
  BY <1>2, ConcatProperties
<1>4. Len(s) \in Nat
  BY <1>2, LenProperties
<1> HIDE DEF t
<1>5. (\A i \in 1..Len(s) : t[i] = s[i]) /\ t[Len(s) + 1] = d
  BY <1>2, <1>3, <1>4
<1>6. \A i \in 1..Len(s) : IsDigit(s[i])
  BY DEF DigitTexts
<1>7. \A i \in 1..Len(t) : IsDigit(t[i])
  BY <1>1, <1>3, <1>4, <1>5, <1>6 DEF IsDigit
<1>8. t \in DigitTexts
  BY <1>3, <1>7 DEF DigitTexts, Bytes
<1> QED
  BY <1>3, <1>5, <1>8 DEF t, d, DigitOf

(* A digit, alone.                                                         *)
LEMMA DigitAlone == \A n \in Nat : DigitOf(n) \in DigitTexts /\ (n < 10 => DigitOf(n) = <<48 + n>>)
<1> SUFFICES ASSUME NEW n \in Nat
             PROVE  DigitOf(n) \in DigitTexts /\ (n < 10 => DigitOf(n) = <<48 + n>>)
  OBVIOUS
<1> DEFINE d == 48 + (n % 10)
<1>1. d \in 48..57 /\ (n < 10 => d = 48 + n)
  OBVIOUS
<1> HIDE DEF d
<1>2. <<d>> \in Seq(0..255) /\ Len(<<d>>) = 1 /\ <<d>>[1] = d
  BY <1>1
<1>3. \A i \in 1..Len(<<d>>) : IsDigit(<<d>>[i])
  BY <1>1, <1>2 DEF IsDigit
<1>4. <<d>> \in DigitTexts
  BY <1>2, <1>3 DEF DigitTexts, Bytes
<1> QED
  BY <1>1, <1>4 DEF d, DigitOf

(* sprintf("%d").                                                          *)
LEMMA DecimalIs ==
  /\ \A n \in Nat : Decimal[n] \in DigitTexts
  /\ \A n \in Nat : Decimal[n] = IF n < 10 THEN DigitOf(n) ELSE Decimal[n \div 10] \o DigitOf(n)
<1> DEFINE down == [n \in Nat |-> n \div 10]
           first == [n \in Nat |-> DigitOf(n)]
           step == [n \in Nat |-> [s \in DigitTexts |-> s \o DigitOf(n)]]
           IsDecimal(f) ==
              f = [n \in Nat |-> IF n < 10 THEN <<48 + n>> ELSE f[n \div 10] \o <<48 + (n % 10)>>]
           text == CHOOSE f : IsDecimal(f)
<1>1. /\ down \in [Nat -> Nat] /\ first \in [Nat -> DigitTexts]
      /\ step \in [Nat -> [DigitTexts -> DigitTexts]]
      /\ \A n \in Nat : n >= 10 => down[n] < n
  <2>1. \A n \in Nat : n \div 10 \in Nat /\ (n >= 10 => n \div 10 < n)
    OBVIOUS
  <2>2. \A n \in Nat : DigitOf(n) \in DigitTexts /\ \A s \in DigitTexts : s \o DigitOf(n) \in DigitTexts
    BY DigitAppended, DigitAlone
  <2> QED
    BY <2>1, <2>2
<1>2. /\ \A n \in Nat : down[n] = n \div 10 /\ first[n] = DigitOf(n)
      /\ \A n \in Nat, s \in DigitTexts : step[n][s] = s \o DigitOf(n)
  OBVIOUS
<1>3. Unfolded(DigitTexts, 10, down, first, step)
  <2> HIDE DEF down, first, step
  <2> QED
    BY <1>1, Unfolding
<1>4. \E f : IsDecimal(f)
  <2> HIDE DEF down, first, step
  <2>1. PICK f \in [Nat -> DigitTexts] :
            \A n \in Nat : f[n] = IF n < 10 THEN first[n] ELSE step[n][f[down[n]]]
    BY <1>3 DEF Unfolded
  <2>2. \A n \in Nat : f[n] = IF n < 10 THEN <<48 + n>> ELSE f[n \div 10] \o <<48 + (n % 10)>>
    <3> SUFFICES ASSUME NEW n \in Nat
                 PROVE  f[n] = IF n < 10 THEN <<48 + n>> ELSE f[n \div 10] \o <<48 + (n % 10)>>
      OBVIOUS
    <3>1. n \div 10 \in Nat /\ f[n \div 10] \in DigitTexts
      OBVIOUS
    <3>2. f[n] = IF n < 10 THEN DigitOf(n) ELSE f[n \div 10] \o DigitOf(n)
      BY <1>2, <2>1, <3>1
    <3> QED
      BY <3>2, DigitAlone DEF DigitOf
  <2>3. IsDecimal(f)
    BY <2>2
  <2> QED
    BY <2>3
<1>5. IsDecimal(text)
  <2> HIDE DEF IsDecimal
  <2> QED
    BY <1>4
<1>6. Decimal = text
  BY DEF Decimal
<1> HIDE DEF text
<1>7. \A n \in Nat : Decimal[n] = IF n < 10 THEN DigitOf(n) ELSE Decimal[n \div 10] \o DigitOf(n)
  BY <1>5, <1>6, DigitAlone DEF DigitOf
<1>8. \A n \in Nat : Decimal[n] \in DigitTexts
  <2> DEFINE S == {n \in Nat : Decimal[n] \in DigitTexts}
  <2>1. ASSUME NEW n \in Nat, \A m \in 0..(n - 1) : m \in S PROVE n \in S
    <3>1. n >= 10 => n \div 10 \in 0..(n - 1)
      OBVIOUS
    <3>2. n >= 10 => Decimal[n \div 10] \in DigitTexts
      BY <2>1, <3>1
    <3>3. CASE n < 10
      BY <1>7, <3>3, DigitAlone
    <3>4. CASE n >= 10
      <4>1. Decimal[n] = Decimal[n \div 10] \o DigitOf(n)
        <5>1. ~(n < 10)
          BY <3>4
        <5> QED
          BY <1>7, <5>1, Zenon
      <4> QED
        BY <3>2, <3>4, <4>1, DigitAppended
    <3> QED
      BY <3>3, <3>4
  <2> HIDE DEF S
  <2>2. \A n \in Nat : n \in S
    BY <2>1, StrongInduction
  <2> QED
    BY <2>2 DEF S
<1> QED
  BY <1>7, <1>8

(* atoi, character by character.                                           *)
Scanned == [n : Nat, open : BOOLEAN]

Scan(c, v) ==
    IF v.open /\ IsDigit(c)
    THEN [n |-> 10 * v.n + (c - 48), open |-> TRUE]
    ELSE [v EXCEPT !.open = FALSE]

IsScan(value, s) ==
    /\ value \in [0..Len(s) -> Scanned]
    /\ value[0] = [n |-> 0, open |-> TRUE]
    /\ \A i \in 1..Len(s) : value[i] = Scan(s[i], value[i - 1])

(* atoi goes through a text one character after the other.                 *)
LEMMA AtoiStep ==
  ASSUME NEW s \in Bytes
  PROVE  \E value : IsScan(value, s) /\ Atoi(s) = value[Len(s)].n
<1> DEFINE n == Len(s)
           zero == [n |-> 0, open |-> TRUE]
           IsValue(f) == f = [i \in 0..n |->
              IF i = 0 THEN [n |-> 0, open |-> TRUE]
              ELSE IF f[i - 1].open /\ IsDigit(s[i])
              THEN [n |-> 10 * f[i - 1].n + (s[i] - 48), open |-> TRUE]
              ELSE [f[i - 1] EXCEPT !.open = FALSE]]
           step == [i \in 1..n |-> [v \in Scanned |-> Scan(s[i], v)]]
           value == CHOOSE f : IsValue(f)
<1>1. Atoi(s) = value[n].n
  BY DEF Atoi
<1>2. n \in Nat /\ \A i \in 1..n : s[i] \in 0..255
  BY BytesAre
<1> HIDE DEF n
<1>3. \A c \in 0..255, v \in Scanned : Scan(c, v) \in Scanned
  <2> SUFFICES ASSUME NEW c \in 0..255, NEW v \in Scanned PROVE Scan(c, v) \in Scanned
    OBVIOUS
  <2>1. CASE v.open /\ IsDigit(c)
    <3>1. 10 * v.n + (c - 48) \in Nat
      BY <2>1 DEF Scanned, IsDigit
    <3> QED
      BY <2>1, <3>1 DEF Scan, Scanned
  <2>2. CASE ~(v.open /\ IsDigit(c))
    BY <2>2 DEF Scan, Scanned
  <2> QED
    BY <2>1, <2>2
<1>4. zero \in Scanned
  BY DEF Scanned
<1>5. ASSUME NEW f
      PROVE  IsValue(f) <=> f = [i \in 0..n |-> IF i = 0 THEN zero ELSE Scan(s[i], f[i - 1])]
  BY DEF Scan
<1>6. \E f : IsValue(f)
  <2>1. step \in [1..n -> [Scanned -> Scanned]]
    BY <1>2, <1>3
  <2>2. \A i \in 1..n, v \in Scanned : step[i][v] = Scan(s[i], v)
    OBVIOUS
  <2> HIDE DEF step, zero
  <2>3. Definable(n, Scanned, zero, step)
    BY <1>2, <1>4, <2>1, Recursion
  <2>4. PICK f \in [0..n -> Scanned] : f[0] = zero /\ \A i \in 1..n : f[i] = step[i][f[i - 1]]
    BY <2>3 DEF Definable, Follows
  <2> DEFINE at(i) == IF i = 0 THEN zero ELSE Scan(s[i], f[i - 1])
  <2>5. \A i \in 1..n : f[i] = at(i)
    BY <1>2, <2>2, <2>4
  <2>6. f[0] = at(0)
    BY <2>4
  <2>7. f = [i \in 0..n |-> f[i]] /\ \A i \in 0..n : i = 0 \/ i \in 1..n
    BY <1>2, <2>4
  <2> HIDE DEF at
  <2>8. f = [i \in 0..n |-> at(i)]
    BY <2>5, <2>6, <2>7
  <2> HIDE DEF IsValue
  <2> QED
    BY <1>5, <2>8 DEF at
<1>7. IsValue(value)
  <2> HIDE DEF IsValue
  <2> QED
    BY <1>6
<1>8. value = [i \in 0..n |-> IF i = 0 THEN zero ELSE Scan(s[i], value[i - 1])]
  <2> HIDE DEF IsValue, value
  <2> QED
    BY <1>5, <1>7
<1> HIDE DEF value, IsValue, zero
<1>9. value[0] = zero /\ \A i \in 1..n : value[i] = Scan(s[i], value[i - 1])
  BY <1>2, <1>8
<1>10. \A i \in 0..n : value[i] \in Scanned
  <2> DEFINE S == {i \in 0..n : value[i] \in Scanned}
  <2>1. 0 \in S
    BY <1>2, <1>4, <1>9
  <2>2. ASSUME NEW i \in 1..n, i - 1 \in S PROVE i \in S
    <3>1. i \in 0..n /\ value[i - 1] \in Scanned /\ s[i] \in 0..255
      BY <1>2, <2>2
    <3>2. Scan(s[i], value[i - 1]) \in Scanned
      BY <1>3, <3>1
    <3> QED
      BY <1>9, <3>1, <3>2
  <2> HIDE DEF S
  <2>3. \A i \in 0..n : i \in S
    BY <1>2, <2>1, <2>2, Induction
  <2> QED
    BY <2>3 DEF S
<1>11. value \in [0..n -> Scanned]
  BY <1>8, <1>10
<1>12. IsScan(value, s)
  BY <1>9, <1>11 DEF IsScan, n, zero
<1> QED
  BY <1>1, <1>12 DEF n

(* Another digit multiplies by ten and adds.                               *)
LEMMA AtoiGrows ==
  ASSUME NEW s \in DigitTexts, NEW n \in Nat
  PROVE  Atoi(s \o DigitOf(n)) = 10 * Atoi(s) + (n % 10)
<1> DEFINE t == s \o DigitOf(n)
<1>1. /\ t \in DigitTexts /\ Len(t) = Len(s) + 1
      /\ \A i \in 1..Len(s) : t[i] = s[i]
      /\ t[Len(s) + 1] = 48 + (n % 10)
  BY DigitAppended
<1> HIDE DEF t
<1>2. s \in Bytes /\ t \in Bytes /\ Len(s) \in Nat
  BY <1>1, BytesAre DEF DigitTexts
<1>3. PICK v : IsScan(v, s) /\ Atoi(s) = v[Len(s)].n
  BY <1>2, AtoiStep
<1>4. PICK w : IsScan(w, t) /\ Atoi(t) = w[Len(t)].n
  BY <1>2, AtoiStep
<1> DEFINE S == {i \in 0..Len(s) : w[i] = v[i] /\ v[i].open}
<1>5. 0 \in S
  <2>1. v[0] = [n |-> 0, open |-> TRUE] /\ w[0] = [n |-> 0, open |-> TRUE]
    BY <1>3, <1>4 DEF IsScan
  <2> QED
    BY <1>2, <2>1
<1>6. ASSUME NEW i \in 1..Len(s), i - 1 \in S PROVE i \in S
  <2>1. i \in 1..Len(t) /\ IsDigit(s[i]) /\ t[i] = s[i] /\ i \in 0..Len(s)
    BY <1>1, <1>2 DEF DigitTexts
  <2>2. v[i] = Scan(s[i], v[i - 1]) /\ w[i] = Scan(t[i], w[i - 1])
    BY <1>3, <1>4, <2>1 DEF IsScan
  <2>3. v[i] = w[i]
    BY <1>6, <2>1, <2>2
  <2>4. v[i].open
    BY <1>6, <2>1, <2>2 DEF Scan
  <2> QED
    BY <2>1, <2>3, <2>4
<1>7. Len(s) \in S
  <2> HIDE DEF S
  <2>1. \A i \in 0..Len(s) : i \in S
    BY <1>2, <1>5, <1>6, Induction
  <2> QED
    BY <1>2, <2>1
<1>8. Len(t) \in 1..Len(t) /\ Len(t) - 1 = Len(s)
  BY <1>1, <1>2
<1>9. w[Len(t)] = Scan(48 + (n % 10), v[Len(s)])
  BY <1>1, <1>4, <1>7, <1>8 DEF IsScan
<1>10. v[Len(s)] \in Scanned /\ v[Len(s)].open
  BY <1>2, <1>3, <1>7 DEF IsScan
<1>11. IsDigit(48 + (n % 10)) /\ (48 + (n % 10)) - 48 = n % 10
  BY DEF IsDigit
<1>12. w[Len(t)].n = 10 * v[Len(s)].n + (n % 10)
  BY <1>9, <1>10, <1>11 DEF Scan
<1> QED
  BY <1>3, <1>4, <1>12 DEF t

(* atoi takes back what sprintf has written.                               *)
LEMMA AtoiDecimal == \A n \in Nat : Atoi(Decimal[n]) = n
<1>1. <<>> \in DigitTexts /\ Atoi(<<>>) = 0
  <2>1. <<>> \in Bytes /\ Len(<<>>) = 0
    BY DEF Bytes
  <2>2. PICK v : IsScan(v, <<>>) /\ Atoi(<<>>) = v[Len(<<>>)].n
    BY <2>1, AtoiStep
  <2> QED
    BY <2>1, <2>2 DEF IsScan, DigitTexts
<1>2. ASSUME NEW n \in Nat PROVE <<>> \o DigitOf(n) = DigitOf(n)
  <2>1. DigitOf(n) \in Seq(0..255)
    BY DigitAlone DEF DigitTexts, Bytes
  <2> QED
    BY <2>1, ConcatEmptySeq
<1>3. ASSUME NEW n \in Nat PROVE Atoi(DigitOf(n)) = n % 10
  <2>1. Atoi(<<>> \o DigitOf(n)) = 10 * Atoi(<<>>) + (n % 10)
    BY <1>1, AtoiGrows
  <2>2. 10 * 0 + (n % 10) = n % 10
    OBVIOUS
  <2> QED
    BY <1>1, <1>2, <2>1, <2>2
<1> DEFINE S == {n \in Nat : Atoi(Decimal[n]) = n}
<1>4. ASSUME NEW n \in Nat, \A m \in 0..(n - 1) : m \in S PROVE n \in S
  <2>1. CASE n < 10
    <3>1. Decimal[n] = DigitOf(n)
      BY <2>1, DecimalIs
    <3>2. n % 10 = n
      BY <2>1
    <3> QED
      BY <1>3, <3>1, <3>2
  <2>2. CASE ~(n < 10)
    <3>1. Decimal[n] = Decimal[n \div 10] \o DigitOf(n)
      BY <2>2, DecimalIs, Zenon
    <3>2. n \div 10 \in 0..(n - 1) /\ n = 10 * (n \div 10) + (n % 10)
      BY <2>2
    <3>3. Decimal[n \div 10] \in DigitTexts /\ Atoi(Decimal[n \div 10]) = n \div 10
      BY <1>4, <3>2, DecimalIs
    <3>4. Atoi(Decimal[n]) = 10 * (n \div 10) + (n % 10)
      BY <3>1, <3>3, AtoiGrows
    <3> QED
      BY <3>2, <3>4
  <2> QED
    BY <2>1, <2>2
<1> HIDE DEF S
<1>5. \A n \in Nat : n \in S
  BY <1>4, StrongInduction
<1> QED
  BY <1>5 DEF S

(* A port survives the way through text.                                   *)
LEMMA PortBack ==
  ASSUME NEW s \in Bytes
  PROVE  PortOf(s) \in Nat /\ PortOf(Decimal[PortOf(s)]) = PortOf(s)
<1>1. PICK v : IsScan(v, s) /\ Atoi(s) = v[Len(s)].n
  BY AtoiStep
<1>2. Len(s) \in 0..Len(s)
  BY BytesAre
<1>3. Atoi(s) \in Nat
  BY <1>1, <1>2 DEF IsScan, Scanned
<1>4. ASSUME NEW a \in Nat PROVE a % 65536 \in Nat /\ (a % 65536) % 65536 = a % 65536
  OBVIOUS
<1>5. \A t : PortOf(t) = Atoi(t) % 65536
  BY DEF PortOf
<1>6. PortOf(s) \in Nat /\ PortOf(s) % 65536 = PortOf(s)
  BY <1>3, <1>4, <1>5
<1>7. Atoi(Decimal[PortOf(s)]) = PortOf(s)
  BY <1>6, AtoiDecimal
<1> QED
  BY <1>5, <1>6, <1>7

(* The caller takes "ip:port" apart again, whatever the port, when there   *)
(* is no colon in the address.                                             *)
LEMMA EndpointParts ==
  ASSUME NEW ip \in Bytes, \A i \in 1..Len(ip) : ip[i] # Colon,
         NEW port \in Nat, PortOf(Decimal[port]) = port
  PROVE  EndpointIn(ip \o <<Colon>> \o Decimal[port]) = [ip |-> ip, port |-> port]
<1> DEFINE digits == Decimal[port]
           front == ip \o <<Colon>>
           data == front \o digits
<1>1. digits \in Bytes /\ PortOf(digits) = port
  BY DecimalIs DEF DigitTexts
<1> HIDE DEF digits
<1>2. <<Colon>> \in Bytes /\ Len(<<Colon>>) = 1 /\ <<Colon>>[1] = Colon
  BY DEF Bytes, Colon
<1>3. Len(ip) \in Nat /\ Len(digits) \in Nat
  BY <1>1, BytesAre
<1>4. /\ front \in Bytes /\ Len(front) = Len(ip) + 1
      /\ \A i \in 1..Len(ip) : front[i] = ip[i]
      /\ front[Len(ip) + 1] = Colon
  BY <1>2, BytesJoined
<1> HIDE DEF front
<1>5. /\ data \in Bytes /\ Len(data) = Len(ip) + 1 + Len(digits)
      /\ \A i \in 1..Len(front) : data[i] = front[i]
      /\ \A i \in 1..Len(digits) : data[Len(front) + i] = digits[i]
  <2>1. /\ data \in Bytes /\ Len(data) = Len(front) + Len(digits)
        /\ \A i \in 1..Len(front) : data[i] = front[i]
        /\ \A i \in 1..Len(digits) : data[Len(front) + i] = digits[i]
    BY <1>1, <1>4, BytesJoined
  <2> QED
    BY <1>4, <2>1
<1> HIDE DEF data
<1>6. /\ \A i \in 1..Len(ip) : data[i] = ip[i]
      /\ data[Len(ip) + 1] = Colon
      /\ \A i \in 1..Len(digits) : data[Len(ip) + 1 + i] = digits[i]
  BY <1>3, <1>4, <1>5
<1>7. FirstPlace(Colon, data) = Len(ip) + 1
  <2>1. Len(ip) + 1 \in Places(Colon, data)
    <3>1. DOMAIN data = 1..Len(data)
      BY <1>5, BytesAre
    <3>2. Len(ip) + 1 \in 1..Len(data)
      BY <1>3, <1>5
    <3> QED
      BY <1>6, <3>1, <3>2 DEF Places
  <2> DEFINE p == FirstPlace(Colon, data)
  <2>2. p \in 1..Len(data) /\ data[p] = Colon /\ \A j \in 1..(p - 1) : data[j] # Colon
    BY <1>5, <2>1, FirstPlaceIsFirst
  <2> HIDE DEF p
  <2>3. p = Len(ip) + 1
    BY <1>3, <1>5, <1>6, <2>2
  <2> QED
    BY <2>3 DEF p
<1>8. SubSeq(data, 1, Len(ip)) = ip
  <2>1. /\ SubSeq(data, 1, Len(ip)) \in Bytes
        /\ Len(SubSeq(data, 1, Len(ip))) = Len(ip) - 1 + 1
        /\ \A i \in 1..(Len(ip) - 1 + 1) : SubSeq(data, 1, Len(ip))[i] = data[1 + i - 1]
    BY <1>3, <1>5, Part
  <2>2. \A i \in 1..Len(ip) : SubSeq(data, 1, Len(ip))[i] = ip[i]
    BY <1>3, <1>6, <2>1
  <2> QED
    BY <1>3, <2>1, <2>2, SeqEqual DEF Bytes
<1>9. SubSeq(data, Len(ip) + 2, Len(data)) = digits
  <2> DEFINE rest == SubSeq(data, Len(ip) + 2, Len(data))
  <2>0. /\ Len(data) \in Nat /\ Len(ip) + 2 \in Nat /\ Len(ip) + 2 <= Len(data) + 1
        /\ Len(data) - (Len(ip) + 2) + 1 = Len(digits)
    BY <1>3, <1>5
  <2>1. /\ rest \in Bytes
        /\ Len(rest) = Len(digits)
        /\ \A i \in 1..Len(digits) : rest[i] = data[(Len(ip) + 2) + i - 1]
    BY <1>3, <1>5, <2>0, Part
  <2> HIDE DEF rest
  <2>2. \A i \in 1..Len(digits) : rest[i] = digits[i]
    <3>1. \A i \in 1..Len(digits) : (Len(ip) + 2) + i - 1 = Len(ip) + 1 + i
      BY <1>3
    <3> QED
      BY <1>6, <2>1, <3>1
  <2>3. rest = digits
    BY <1>1, <2>1, <2>2, SeqEqual DEF Bytes
  <2> QED
    BY <2>3 DEF rest
<1>10. EndpointIn(data) = [ip |-> ip, port |-> port]
  <2> DEFINE p == FirstPlace(Colon, data)
             before == SubSeq(data, 1, p - 1)
             behind == SubSeq(data, p + 1, Len(data))
  <2>1. EndpointIn(data) = [ip |-> before, port |-> PortOf(behind)]
    BY DEF EndpointIn
  <2>2. p = Len(ip) + 1
    BY <1>7
  <2> HIDE DEF p
  <2>3. p - 1 = Len(ip) /\ p + 1 = Len(ip) + 2
    BY <1>3, <2>2
  <2>4. before = ip
    BY <1>8, <2>3, Zenon
  <2>5. behind = digits
    BY <1>9, <2>3, Zenon
  <2> HIDE DEF before, behind
  <2>6. PortOf(behind) = port
    BY <1>1, <2>5, Zenon
  <2> QED
    BY <2>1, <2>4, <2>6, Zenon
<1> QED
  BY <1>10 DEF data, front, digits

-----------------------------------------------------------------------------
(* The address                                                             *)

(* Where a provider with the configuration binds.                          *)
Bound(config) ==
    LET port == PortOf(Load(config, KeyPort))
    IN [ip |-> Load(config, KeyIp), port |-> IF port = 0 THEN KernelPort ELSE port]

Open == {"serving", "aborted"}

(* Where a call goes: to what the node said that was there before, or to   *)
(* what the provider has written.                                          *)
GoesTo(w) ==
    IF PathOf(w) \in DOMAIN deployment.registry
    THEN endpoint[w] = EndpointIn(deployment.registry[PathOf(w)])
    ELSE address # Nothing /\ endpoint[w] = EndpointIn(NodeData(Started[1]))

Here(w) ==
    /\ stage[w] # "idle" => GoesTo(w)
    /\ stage[w] \in {"send", "receive"} => endpoint[w] = address /\ provider \in Open
    /\ linked[w] => provider \in Open

(* A node that was there before stays as it was; another is made when the  *)
(* provider has bound, with what it was configured with.                   *)
NodesInv ==
    /\ deployment \in Deployments
    /\ provider \notin {"off", "exited"} => Started # Exited /\ providerConfig = Started[1]
    /\ address = Nothing <=> provider \in {"off", "exited", "notify", "run"}
    /\ address # Nothing => address = Bound(Started[1])
    /\ DOMAIN deployment.registry \subseteq DOMAIN registry
    /\ \A path \in DOMAIN registry :
          IF path \in DOMAIN deployment.registry
          THEN registry[path] = deployment.registry[path]
          ELSE address # Nothing /\ registry[path] = NodeData(Started[1])

CallTables ==
    /\ endpoint = [w \in Connections |-> endpoint[w]] /\ linked = [w \in Connections |-> linked[w]]
    /\ stage = [w \in Connections |-> stage[w]] /\ todo = [w \in Connections |-> todo[w]]

(* The callers have what the nodes say, and call over what has been bound. *)
EndpointInv ==
    /\ NodesInv
    /\ CallTables
    /\ caller = "off" => \A w \in Connections : stage[w] = "idle"
    /\ \A w \in Connections : Here(w)

(* A table with one entry changed.                                         *)
LEMMA Changed ==
  ASSUME NEW C, NEW f, f = [w \in C |-> f[w]], NEW c \in C, NEW e, NEW g, g = [f EXCEPT ![c] = e]
  PROVE  g = [w \in C |-> g[w]] /\ g[c] = e /\ \A w \in C : w # c => g[w] = f[w]
OBVIOUS

(* What is configured comes back as it was from the text of the node.      *)
LEMMA NodeDataParts ==
  ASSUME NEW config \in Configs
  PROVE  EndpointIn(NodeData(config)) =
            [ip |-> Load(config, KeyIp), port |-> PortOf(Load(config, KeyPort))]
<1>1. \A k : Load(config, k) \in Words
  <2>1. <<>> \in Words
    BY DEF Words, Bytes
  <2>2. PICK D \in SUBSET Bytes : config \in [D -> Words]
    BY DEF Configs
  <2> QED
    BY <2>1, <2>2 DEF Load
<1> DEFINE ip == Load(config, KeyIp)
           text == Load(config, KeyPort)
           port == PortOf(text)
<1>2. ip \in Bytes /\ (\A i \in 1..Len(ip) : ip[i] # Colon) /\ text \in Bytes
  BY <1>1 DEF Words
<1> HIDE DEF ip, text
<1>3. port \in Nat /\ PortOf(Decimal[port]) = port
  BY <1>2, PortBack
<1>4. NodeData(config) = ip \o <<Colon>> \o Decimal[port]
  BY DEF NodeData, ip, text
<1> HIDE DEF port
<1>5. EndpointIn(ip \o <<Colon>> \o Decimal[port]) = [ip |-> ip, port |-> port]
  BY <1>2, <1>3, EndpointParts
<1> QED
  BY <1>4, <1>5, Zenon DEF ip, port, text

(* At first nothing is bound, and no address has been read.                *)
LEMMA InitEndpoint == Init => EndpointInv
<1> SUFFICES ASSUME Init PROVE EndpointInv
  OBVIOUS
<1>1. /\ deployment \in Deployments /\ registry = deployment.registry
      /\ provider = "off" /\ address = Nothing
      /\ endpoint = [w \in Connections |-> Nothing] /\ linked = [w \in Connections |-> FALSE]
      /\ stage = [w \in Connections |-> "idle"] /\ todo = [w \in Connections |-> <<>>]
  BY DEF Init, ProviderInit
<1>2. NodesInv
  BY <1>1 DEF NodesInv
<1>3. CallTables
  BY <1>1 DEF CallTables
<1>4. \A w \in Connections : stage[w] = "idle" /\ linked[w] = FALSE
  BY <1>1
<1>5. \A w \in Connections : Here(w)
  BY <1>4 DEF Here
<1> QED
  BY <1>2, <1>3, <1>4, <1>5 DEF EndpointInv

(* Where a call goes does not change while it is under way.                *)
LEMMA GoesToStays ==
  ASSUME deployment' = deployment, NEW w, endpoint'[w] = endpoint[w], todo'[w] = todo[w],
         address # Nothing => address' # Nothing, GoesTo(w)
  PROVE  GoesTo(w)'
<1>1. PathOf(w)' = PathOf(w)
  BY Zenon DEF PathOf, Call, MethodPath
<1>2. NodeData(Started[1])' = NodeData(Started[1])
  BY Zenon DEF Started, NodeData
<1> QED
  BY <1>1, <1>2, Zenon DEF GoesTo, EndpointIn

(* Steps that change neither the address nor the nodes.                    *)
LEMMA NodesStay ==
  ASSUME NodesInv, UNCHANGED <<deployment, providerConfig, address, registry>>,
         \/ provider' = provider
         \/ provider = "notify" /\ provider' = "run"
         \/ provider \in {"register", "serving"} /\ provider' \in Open
  PROVE  NodesInv'
<1>1. Started' = Started
  BY DEF Started
<1>2. \A c : Bound(c)' = Bound(c) /\ NodeData(c)' = NodeData(c)
  BY DEF Bound, NodeData
<1> QED
  BY <1>1, <1>2 DEF NodesInv, Open

(* What a step of the caller or the provider leaves alone of a call.       *)
LEMMA HereStays ==
  ASSUME deployment' = deployment, address' = address, NEW w,
         endpoint'[w] = endpoint[w], todo'[w] = todo[w], stage'[w] = stage[w], linked'[w] = linked[w],
         provider \in Open => provider' \in Open, Here(w)
  PROVE  Here(w)'
<1>1. GoesTo(w) => GoesTo(w)'
  BY GoesToStays
<1> QED
  BY <1>1, Zenon DEF Here

(* The provider comes to its address, and makes its nodes.                 *)
LEMMA NodeSteps ==
  ASSUME EndpointInv, ProviderMain \/ RunBinds \/ RunCreates, UNCHANGED callerVars
  PROVE  EndpointInv'
<1>1. NodesInv /\ CallTables /\ (caller = "off" => \A w \in Connections : stage[w] = "idle")
  BY DEF EndpointInv
<1>2. /\ UNCHANGED <<endpoint, linked, stage, todo, caller>> /\ deployment' = deployment
  BY DEF callerVars, ProviderMain, RunBinds, RunCreates
<1>3. Started' = Started
  BY <1>2 DEF Started
<1>4. CallTables' /\ (caller' = "off" => \A w \in Connections : stage'[w] = "idle")
  BY <1>1, <1>2, Zenon DEF CallTables
<1>5. CASE RunCreates
  <2>1. UNCHANGED <<provider, providerConfig, address>> /\ provider = "register"
    BY <1>5 DEF RunCreates, providerVars
  <2>2. PICK path : path \notin DOMAIN registry /\ registry' = WithNode(path, NodeData(providerConfig))
    BY <1>5 DEF RunCreates
  <2>3. providerConfig = Started[1] /\ address # Nothing
    BY <1>1, <2>1 DEF NodesInv
  <2>4. /\ DOMAIN registry' = DOMAIN registry \union {path}
        /\ registry'[path] = NodeData(Started[1])
        /\ \A p \in DOMAIN registry : registry'[p] = registry[p]
    BY <2>2, <2>3 DEF WithNode
  <2>5. NodeData(Started[1])' = NodeData(Started[1]) /\ Bound(Started[1])' = Bound(Started[1])
    BY <1>3, Zenon DEF NodeData, Bound
  <2>6. NodesInv'
    BY <1>1, <1>2, <1>3, <2>1, <2>2, <2>3, <2>4, <2>5 DEF NodesInv
  <2>7. \A w \in Connections : Here(w)'
    BY <1>2, <2>1, HereStays DEF EndpointInv
  <2> QED
    BY <1>4, <2>6, <2>7 DEF EndpointInv
<1>6. CASE ProviderMain \/ RunBinds
  <2>1. registry' = registry /\ provider \in {"off", "run"}
    BY <1>6 DEF ProviderMain, RunBinds
  <2>2. address = Nothing /\ provider \notin Open
    BY <1>1, <2>1 DEF NodesInv, Open
  <2>3. NodesInv'
    <3>1. CASE ProviderMain
      <4>1. address' = address /\ provider = "off"
        BY <3>1 DEF ProviderMain
      <4>2. \/ Started = Exited /\ provider' = "exited"
            \/ Started # Exited /\ provider' = "notify" /\ providerConfig' = Started[1]
        BY <3>1 DEF ProviderMain, Started
      <4> QED
        BY <1>1, <1>2, <1>3, <2>1, <2>2, <4>1, <4>2 DEF NodesInv
    <3>2. CASE RunBinds
      <4>1. /\ provider = "run" /\ provider' = "register" /\ providerConfig' = providerConfig
            /\ address' = Bound(providerConfig)
        BY <3>2 DEF RunBinds, Bound
      <4>2. Started # Exited /\ providerConfig = Started[1]
        BY <1>1, <4>1 DEF NodesInv
      <4>3. Bound(providerConfig) # Nothing /\ Bound(Started[1])' = Bound(Started[1])
        BY <1>3 DEF Bound, Nothing
      <4> QED
        BY <1>1, <1>2, <1>3, <2>1, <2>2, <4>1, <4>2, <4>3 DEF NodesInv
    <3> QED
      BY <1>6, <3>1, <3>2
  <2>4. ASSUME NEW w \in Connections PROVE Here(w)'
    <3>1. Here(w)
      BY DEF EndpointInv
    <3>2. ~(stage[w] \in {"send", "receive"}) /\ ~linked[w] /\ (stage[w] # "idle" => GoesTo(w))
      BY <2>2, <3>1, Zenon DEF Here
    <3>3. GoesTo(w) => GoesTo(w)'
      BY <1>2, <2>2, GoesToStays
    <3> QED
      BY <1>2, <3>2, <3>3, Zenon DEF Here
  <2> QED
    BY <1>4, <2>3, <2>4 DEF EndpointInv
<1> QED
  BY <1>5, <1>6

(* The steps of the provider that a call does not notice.                  *)
LEMMA ProviderStays ==
  ASSUME EndpointInv, UNCHANGED <<deployment, providerConfig, address, registry>>, UNCHANGED callerVars,
         \/ provider' = provider
         \/ provider = "notify" /\ provider' = "run"
         \/ provider \in {"register", "serving"} /\ provider' \in Open
  PROVE  EndpointInv'
<1>1. NodesInv'
  BY NodesStay DEF EndpointInv
<1>2. UNCHANGED <<endpoint, linked, stage, todo, caller>>
  BY DEF callerVars
<1>3. provider \in Open => provider' \in Open
  BY DEF Open
<1>4. \A w \in Connections : Here(w)'
  BY <1>2, <1>3, HereStays DEF EndpointInv
<1>5. CallTables'
  BY <1>2, Zenon DEF EndpointInv, CallTables
<1> QED
  BY <1>1, <1>2, <1>4, <1>5, Zenon DEF EndpointInv

(* A step of one call.                                                     *)
LEMMA CallStep ==
  ASSUME EndpointInv, UNCHANGED <<deployment, provider, providerConfig, address, registry>>,
         CallTables', caller' # "off", NEW w \in Connections, Here(w)',
         \A v \in Connections : v # w =>
            /\ endpoint'[v] = endpoint[v] /\ todo'[v] = todo[v]
            /\ stage'[v] = stage[v] /\ linked'[v] = linked[v]
  PROVE  EndpointInv'
<1>1. NodesInv'
  BY NodesStay DEF EndpointInv
<1>2. ASSUME NEW v \in Connections, v # w PROVE Here(v)'
  BY <1>2, HereStays DEF EndpointInv
<1> QED
  BY <1>1, <1>2, Zenon DEF EndpointInv

(* The address of a call is what the node says.                            *)
LEMMA ExistedGoes ==
  ASSUME EndpointInv, NEW w \in Connections, Existed(w)
  PROVE  EndpointInv'
<1>1. /\ UNCHANGED <<deployment, provider, providerConfig, address, registry, todo, linked, caller>>
      /\ caller = "calling" /\ stage[w] = "idle" /\ Places(Colon, AddressOf(w)) # {}
      /\ endpoint' = [endpoint EXCEPT ![w] = EndpointIn(AddressOf(w))]
      /\ stage' = [stage EXCEPT ![w] = "borrow"]
  BY Zenon DEF Existed, Calling, providerVars
<1>2. NodesInv /\ CallTables /\ Here(w)
  BY DEF EndpointInv
<1> DEFINE e == EndpointIn(AddressOf(w))
<1>3. /\ endpoint' = [v \in Connections |-> endpoint'[v]] /\ endpoint'[w] = e
      /\ \A v \in Connections : v # w => endpoint'[v] = endpoint[v]
  <2> HIDE DEF e
  <2> QED
    BY <1>1, <1>2, Changed DEF CallTables, e
<1>4. /\ stage' = [v \in Connections |-> stage'[v]] /\ stage'[w] = "borrow"
      /\ \A v \in Connections : v # w => stage'[v] = stage[v]
  BY <1>1, <1>2, Changed DEF CallTables
<1>5. CallTables'
  BY <1>1, <1>2, <1>3, <1>4, Zenon DEF CallTables
<1>6. PathOf(w) \in DOMAIN registry /\ AddressOf(w) = registry[PathOf(w)]
  <2>1. Places(Colon, <<>>) = {}
    BY DEF Places
  <2> QED
    BY <1>1, <2>1 DEF AddressOf
<1>7. IF PathOf(w) \in DOMAIN deployment.registry
      THEN registry[PathOf(w)] = deployment.registry[PathOf(w)]
      ELSE address # Nothing /\ registry[PathOf(w)] = NodeData(Started[1])
  BY <1>2, <1>6, Zenon DEF NodesInv
<1>8. PathOf(w)' = PathOf(w) /\ NodeData(Started[1])' = NodeData(Started[1])
  BY <1>1, Zenon DEF PathOf, Call, MethodPath, Started, NodeData
<1>9. endpoint'[w] = EndpointIn(registry[PathOf(w)])
  BY <1>3, <1>6, Zenon
<1>10. GoesTo(w)'
  BY <1>1, <1>7, <1>8, <1>9, Zenon DEF GoesTo, EndpointIn
<1>11. linked'[w] => provider' \in Open
  BY <1>1, <1>2, Zenon DEF Here
<1>12. Here(w)'
  BY <1>4, <1>10, <1>11 DEF Here
<1> QED
  BY <1>1, <1>3, <1>4, <1>5, <1>12, CallStep

(* A connection is to the socket that the provider has bound.              *)
LEMMA BorrowGoes ==
  ASSUME EndpointInv, NEW w \in Connections, Borrow(w) \/ Send(w)
  PROVE  EndpointInv'
<1>1. NodesInv /\ CallTables /\ Here(w)
  BY DEF EndpointInv
<1>2. /\ UNCHANGED <<deployment, provider, providerConfig, address, registry, todo, endpoint, caller>>
      /\ caller = "calling" /\ stage[w] \in {"borrow", "send"}
  BY Zenon DEF Borrow, Send, Calling, providerVars
<1>3. PICK s \in {"send", "receive"} : stage' = [stage EXCEPT ![w] = s]
  BY DEF Borrow, Send
<1>4. linked' = linked \/ linked' = [linked EXCEPT ![w] = TRUE]
  BY DEF Borrow, Send
<1>5. endpoint[w] = address /\ provider \in Open
  <2>1. CASE Borrow(w)
    <3>1. (linked[w] /\ endpoint[w] = address) \/ (provider = "serving" /\ endpoint[w] = address)
      BY <2>1 DEF Borrow, InBucket, Reachable
    <3> QED
      BY <1>1, <3>1 DEF Here, Open
  <2>2. CASE Send(w)
    BY <1>1, <2>2 DEF Here, Send, Calling
  <2> QED
    BY <2>1, <2>2
<1>6. /\ stage' = [v \in Connections |-> stage'[v]] /\ stage'[w] = s
      /\ \A v \in Connections : v # w => stage'[v] = stage[v]
  BY <1>1, <1>3, Changed DEF CallTables
<1>7. /\ linked' = [v \in Connections |-> linked'[v]]
      /\ \A v \in Connections : v # w => linked'[v] = linked[v]
  <2>1. CASE linked' = linked
    BY <1>1, <2>1 DEF CallTables
  <2>2. CASE linked' = [linked EXCEPT ![w] = TRUE]
    BY <1>1, <2>2, Changed DEF CallTables
  <2> QED
    BY <1>4, <2>1, <2>2
<1>8. CallTables'
  BY <1>1, <1>2, <1>6, <1>7, Zenon DEF CallTables
<1>9. GoesTo(w)'
  BY <1>1, <1>2, GoesToStays DEF Here
<1>10. Here(w)'
  BY <1>2, <1>5, <1>9 DEF Here
<1> QED
  BY <1>2, <1>6, <1>7, <1>8, <1>10, CallStep

(* A call that is over goes nowhere.                                       *)
LEMMA ReturnGoes ==
  ASSUME EndpointInv, NEW w \in Connections,
         NotExisted(w) \/ BorrowFails(w) \/ SendOrReceiveFails(w) \/ Receive(w)
  PROVE  EndpointInv'
<1>1. NodesInv /\ CallTables /\ Here(w)
  BY DEF EndpointInv
<1>2. /\ UNCHANGED <<deployment, provider, providerConfig, address, registry, caller, endpoint>>
      /\ todo' = [todo EXCEPT ![w] = Tail(todo[w])] /\ stage' = [stage EXCEPT ![w] = "idle"]
      /\ caller = "calling"
  BY Zenon DEF NotExisted, BorrowFails, SendOrReceiveFails, Receive, Parsed, ReturnsFailed, Returns,
     Calling, providerVars
<1>3. /\ linked' = linked \/ \E l : linked' = [linked EXCEPT ![w] = l]
      /\ linked' = linked \/ provider \in Open
  <2>1. CASE NotExisted(w) \/ BorrowFails(w)
    BY <2>1 DEF NotExisted, BorrowFails
  <2>2. CASE SendOrReceiveFails(w)
    BY <2>2 DEF SendOrReceiveFails, Open
  <2>3. CASE Receive(w)
    <3>1. stage[w] = "receive"
      BY <2>3 DEF Receive, Calling
    <3>2. provider \in Open
      BY <1>1, <3>1 DEF Here
    <3>3. \E p : Parsed(w, p)
      BY <2>3 DEF Receive
    <3>4. \E l : linked' = [linked EXCEPT ![w] = l]
      BY <3>3 DEF Parsed
    <3> QED
      BY <3>2, <3>4
  <2> QED
    BY <2>1, <2>2, <2>3
<1>4. /\ stage' = [v \in Connections |-> stage'[v]] /\ stage'[w] = "idle"
      /\ \A v \in Connections : v # w => stage'[v] = stage[v]
  BY <1>1, <1>2, Changed DEF CallTables
<1>5. /\ todo' = [v \in Connections |-> todo'[v]]
      /\ \A v \in Connections : v # w => todo'[v] = todo[v]
  BY <1>1, <1>2, Changed DEF CallTables
<1>6. /\ linked' = [v \in Connections |-> linked'[v]]
      /\ \A v \in Connections : v # w => linked'[v] = linked[v]
  <2>1. CASE linked' = linked
    BY <1>1, <2>1 DEF CallTables
  <2>2. CASE \E l : linked' = [linked EXCEPT ![w] = l]
    <3>1. PICK l : linked' = [linked EXCEPT ![w] = l]
      BY <2>2
    <3> QED
      BY <1>1, <3>1, Changed DEF CallTables
  <2> QED
    BY <1>3, <2>1, <2>2
<1>7. CallTables'
  BY <1>1, <1>2, <1>4, <1>5, <1>6, Zenon DEF CallTables
<1>8. linked'[w] => provider' \in Open
  BY <1>1, <1>2, <1>3, Zenon DEF Here
<1>9. Here(w)'
  BY <1>4, <1>8 DEF Here
<1> QED
  BY <1>2, <1>4, <1>5, <1>6, <1>7, <1>9, CallStep

(* A program that begins to call.                                          *)
LEMMA MainGoes ==
  ASSUME EndpointInv, CallerMain
  PROVE  EndpointInv'
<1>1. NodesInv /\ CallTables /\ \A w \in Connections : stage[w] = "idle" /\ Here(w)
  BY DEF EndpointInv, CallerMain
<1>2. /\ UNCHANGED <<deployment, provider, providerConfig, address, registry, endpoint, linked, stage>>
      /\ caller' # "off"
      /\ todo' = todo \/ todo' = [w \in Connections |-> IF w \in Threads THEN Calls ELSE <<>>]
  BY DEF CallerMain, providerVars
<1>3. todo' = [w \in Connections |-> todo'[w]]
  BY <1>1, <1>2 DEF CallTables
<1>4. CallTables'
  BY <1>1, <1>2, <1>3, Zenon DEF CallTables
<1>5. NodesInv'
  BY <1>1, <1>2, NodesStay
<1>6. \A w \in Connections : Here(w)'
  BY <1>1, <1>2 DEF Here
<1> QED
  BY <1>2, <1>4, <1>5, <1>6 DEF EndpointInv

(* Every step keeps the addresses that are read to those in the nodes.     *)
LEMMA NextEndpoint == EndpointInv /\ [Next]_vars => EndpointInv'
<1> SUFFICES ASSUME EndpointInv, [Next]_vars PROVE EndpointInv'
  OBVIOUS
<1>1. CASE ProviderNext /\ UNCHANGED callerVars
  <2>1. CASE ProviderMain \/ RunBinds \/ RunCreates
    BY <1>1, <2>1, NodeSteps
  <2>2. CASE NotifyService \/ RunStarts
    BY <1>1, <2>2, ProviderStays DEF NotifyService, RunStarts, Open
  <2>3. ASSUME NEW c \in Connections, CallMethodAndDone(c) PROVE EndpointInv'
    BY <1>1, <2>3, ProviderStays DEF CallMethodAndDone
  <2>4. ASSUME NEW c \in Connections, NEW n \in 1..Len(inbox[c]), OnMessage(c, n) PROVE EndpointInv'
    <3>1. /\ UNCHANGED <<deployment, providerConfig, address, registry>>
          /\ provider = "serving" /\ provider' \in {"serving", "aborted"}
      BY <2>4 DEF OnMessage, Throws, Rejects, Serves
    <3> QED
      BY <1>1, <3>1, ProviderStays DEF Open
  <2> QED
    BY <1>1, <2>1, <2>2, <2>3, <2>4, Zenon DEF ProviderNext
<1>2. CASE CallerMain
  BY <1>2, MainGoes
<1>3. CASE \E w \in Connections :
              NotExisted(w) \/ BorrowFails(w) \/ SendOrReceiveFails(w) \/ Receive(w)
  BY <1>3, ReturnGoes
<1>4. CASE \E w \in Connections : Existed(w)
  BY <1>4, ExistedGoes
<1>5. CASE \E w \in Connections : Borrow(w) \/ Send(w)
  BY <1>5, BorrowGoes
<1>6. CASE Report \/ (\E w \in Connections : NotExistedNull(w)) \/ Over \/ UNCHANGED vars
  <2>1. /\ UNCHANGED <<deployment, provider, providerConfig, address, registry>>
        /\ UNCHANGED <<endpoint, linked, stage, todo>>
        /\ caller' = "off" => caller = "off"
    <3>1. CASE Report
      BY <3>1 DEF Report, providerVars
    <3>2. CASE \E w \in Connections : NotExistedNull(w)
      BY <3>2 DEF NotExistedNull, providerVars
    <3>3. CASE Over \/ UNCHANGED vars
      BY <3>3, Zenon DEF Over, vars, providerVars, callerVars
    <3> QED
      BY <1>6, <3>1, <3>2, <3>3
  <2>2. NodesInv'
    BY <2>1, NodesStay DEF EndpointInv
  <2>3. \A w \in Connections : Here(w)'
    BY <2>1, HereStays DEF EndpointInv
  <2>4. CallTables'
    BY <2>1, Zenon DEF EndpointInv, CallTables
  <2> QED
    BY <2>1, <2>2, <2>3, <2>4, Zenon DEF EndpointInv
<1> QED
  BY <1>1, <1>2, <1>3, <1>4, <1>5, <1>6, Zenon DEF Next, CallerNext

(* Where the calls go, whatever the provider's file says and whatever      *)
(* nodes others have left: a call whose node the provider has made, to the *)
(* socket that it has bound, or to port 0 when its file names no port, 0   *)
(* or 65536; a call whose node was there, to the address of that node; and *)
(* only calls that go to the provider's socket are sent                    *)
(* (rpcprovider.cc:77-79, :108, zookeeperutil.cc:64-83,                    *)
(* kopirpcchannel.cc:124-131).                                             *)
THEOREM EndpointAgreesHolds == Spec => []EndpointAgrees
<1>1. EndpointInv => EndpointAgrees
  <2> DEFINE port == IF PortOf(Load(providerConfig, KeyPort)) = 0 THEN 0 ELSE address.port
  <2> SUFFICES ASSUME EndpointInv, NEW w \in Connections
               PROVE  /\ stage[w] # "idle" =>
                           IF PathOf(w) \in DOMAIN deployment.registry
                           THEN endpoint[w] = EndpointIn(deployment.registry[PathOf(w)])
                           ELSE address # Nothing /\ endpoint[w] = [ip |-> address.ip, port |-> port]
                      /\ stage[w] \in {"send", "receive"} => endpoint[w] = address
    BY Zenon DEF EndpointAgrees
  <2>1. NodesInv /\ Here(w)
    BY DEF EndpointInv
  <2>2. ASSUME address # Nothing, endpoint[w] = EndpointIn(NodeData(Started[1]))
        PROVE  endpoint[w] = [ip |-> address.ip, port |-> port]
    <3>1. /\ deployment \in Deployments
          /\ Started # Exited /\ providerConfig = Started[1] /\ address = Bound(Started[1])
      BY <2>1, <2>2 DEF NodesInv
    <3>2. PICK config \in Configs : Started = <<config>>
      BY <3>1, StartedRight DEF ConfigReads
    <3>3. Started[1] = config
      BY <3>2
    <3> DEFINE p == PortOf(Load(config, KeyPort))
               ip == Load(config, KeyIp)
    <3>4. endpoint[w] = [ip |-> ip, port |-> p]
      BY <2>2, <3>3, NodeDataParts
    <3>5. address = [ip |-> ip, port |-> IF p = 0 THEN KernelPort ELSE p] /\ providerConfig = config
      BY <3>1, <3>3 DEF Bound
    <3> HIDE DEF p, ip
    <3>6. port = p
      BY <3>5 DEF p
    <3>7. address.ip = ip
      BY <3>5
    <3> QED
      BY <3>4, <3>6, <3>7, Zenon
  <2> HIDE DEF port
  <2> QED
    BY <2>1, <2>2, Zenon DEF Here, GoesTo
<1> QED
  BY <1>1, InitEndpoint, NextEndpoint, PTL DEF Spec

-----------------------------------------------------------------------------
(* The codec                                                               *)

(* Whatever two messages of the corpus a program holds and sends, each     *)
(* class reads back what it wrote, the bytes of two after each other are   *)
(* their merge, and the size announced is the size written (user.pb.cc,    *)
(* friend.pb.cc, rpcheader.pb.cc).  The messages are those of any corpus   *)
(* whose fields protobuf can write.                                        *)
THEOREM CodecAgreesHolds == Spec => []CodecAgrees
<1>1. ASSUME NEW a \in Corpus, NEW b \in Corpus, a.type = b.type PROVE Agrees(a, b)
  <2>1. a \in AnyMessage /\ b \in AnyMessage
    BY CorpusAssumption
  <2>2. /\ ByteSizeLong(b) = Len(SerializeToString(b))
        /\ ParseFromString(a, SerializeToString(b)) = Begin(b)
        /\ CopyFrom(a, b) = b
        /\ ParseFromString(a, SerializeToString(a) \o SerializeToString(b)) = Begin(MergeFrom(a, b))
    BY <1>1, <2>1, MessagesAgree
  <2> QED
    BY <2>2, Zenon DEF Agrees, Begin
<1>2. CodecAgrees
  BY <1>1, Zenon DEF AllAgree, CodecAgrees
<1> QED
  BY <1>2, PTL

-----------------------------------------------------------------------------
(* The exchange of a connection                                            *)

(* What begins a frame in front of bytes that are not 0: the size of a     *)
(* header in its four bytes.                                               *)
Frames ==
    {f \in Bytes :
        /\ 5 <= Len(f) /\ Len(f) < 100
        /\ f[1] \in 1..254 /\ f[2] = 0 /\ f[3] = 0 /\ f[4] = 0
        /\ \A i \in 5..Len(f) : f[i] \in 1..254}

(* What is left of a frame behind a segment that has ended inside: the     *)
(* rest of its size, and bytes that are not 0.                             *)
Leftovers ==
    {t \in Bytes :
        /\ Len(t) < 100
        /\ \E z \in 0..3 :
              /\ \A i \in 1..z : i <= Len(t) => t[i] = 0
              /\ \A i \in (z + 1)..Len(t) : t[i] \in 1..254}

(* A segment has ended early behind the call that was served last, or the  *)
(* one before it.                                                          *)
CutBefore(w) == Len(served[w]) \in cuts[w] \/ Len(served[w]) + 1 \in cuts[w]

Left(w, t) == t \in Leftovers /\ (t # <<>> => CutBefore(w))

Methods == {UserServiceRpc.method[1], UserServiceRpc.method[2], FriendServiceRpc.method[1]}

BenchCall ==
    [method |-> FriendServiceRpc_Stub_GetFriendList,
     request |-> [GetFriendListRequest EXCEPT !.userid = 2000]]

MadeCalls == {UserCalls[1], UserCalls[2], FriendCalls[1], BenchCall}

(* No handler looks at its request, but for a number it does not use.      *)
AnswerTo(method) == Service_CallMethod(method, BenchCall.request, GetResponsePrototype(method))

AnswerFrame(method) == ResponseFrame(SerializeToString(AnswerTo(method)))

Known == {deployment.service.method[i] : i \in DOMAIN deployment.service.method}

Asking(w) ==
    /\ stage[w] = "receive" /\ todo[w] # <<>>
    /\ sent[w] # <<>> /\ sent[w][Len(sent[w])] = Call(w)

Unserved(w) ==
    /\ Len(sent[w]) = Len(served[w]) + 1
    /\ Len(Answered(replies[w])) = Len(served[w])
    /\ executing[w] = Nothing /\ outbox[w] = <<>>

LastServed(w) == served[w][Len(served[w])]

Unanswered(w) ==
    /\ Len(sent[w]) = Len(served[w])
    /\ Len(served[w]) = Len(Answered(replies[w])) + 1
    /\ Left(w, inbox[w])

(* Where the exchange of connection w is: nothing is under way; the frame  *)
(* is on its way, behind what is left of others; what has been read of it  *)
(* has come to nothing; a handler runs; its answer is on the way back; or  *)
(* the provider is gone.                                                   *)
Resting(w) ==
    /\ stage[w] # "receive"
    /\ executing[w] = Nothing /\ outbox[w] = <<>> /\ Left(w, inbox[w])
    /\ Len(sent[w]) = Len(served[w]) /\ Len(served[w]) = Len(Answered(replies[w]))

Asked(w) ==
    Asking(w) /\ Unserved(w) /\ \E t \in Leftovers : Left(w, t) /\ inbox[w] = t \o Frame(Call(w))

Ignored(w) ==
    /\ Asking(w) /\ Unserved(w) /\ Left(w, inbox[w])
    /\ CutBefore(w) \/ Call(w).method \notin Known

Handled(w) ==
    /\ Asking(w) /\ Unanswered(w)
    /\ executing[w] # Nothing /\ executing[w] = LastServed(w) /\ outbox[w] = <<>>

Replied(w) ==
    /\ Asking(w) /\ Unanswered(w)
    /\ executing[w] = Nothing /\ outbox[w] = AnswerFrame(LastServed(w).method)

Gone(w) ==
    /\ provider = "aborted"
    /\ executing[w] = Nothing /\ outbox[w] = <<>> /\ IsBytes(inbox[w])

Under(w) == Resting(w) \/ Asked(w) \/ Ignored(w) \/ Handled(w) \/ Replied(w) \/ Gone(w)

(* A call that has been served, the i-th, and the call that was sent.      *)
Matches(s, call, cut, i) ==
    /\ s.method = call.method
    /\ i \notin cut => s.request = call.request
    /\ \E n \in 0..Len(SerializeToString(call.request)) :
          ParseFromString(GetRequestPrototype(call.method),
                          SubSeq(SerializeToString(call.request), 1, n))
          = [ok |-> TRUE, msg |-> s.request]

Matched(w) ==
    /\ Len(served[w]) <= Len(sent[w])
    /\ \A i \in 1..Len(served[w]) : Matches(served[w][i], sent[w][i], cuts[w], i)
    /\ Len(Answered(replies[w])) <= Len(served[w])
    /\ \A i \in 1..Len(Answered(replies[w])) : Answered(replies[w])[i].method = served[w][i].method

(* What calls come to.                                                     *)
GoodReply(m) ==
    [answered |-> TRUE, method |-> m, controller |-> Controller, response |-> AnswerTo(m)]

FailedReply(m, reason) ==
    [answered |-> FALSE, method |-> m, controller |-> SetFailedIfAny(Controller, reason),
     response |-> GetResponsePrototype(m)]

Reasons == {"address", "borrow", "send", "receive"}

Made == {Calls[i] : i \in DOMAIN Calls}

Replies ==
    {GoodReply(c.method) : c \in Made} \union {FailedReply(c.method, r) : c \in Made, r \in Reasons}

(* The services of the provider.                                           *)
MapOf(service) == [n \in {service.name} |-> MethodMap(service)]

MapInv ==
    /\ provider \in {"off", "notify"} => serviceMap = [n \in {} |-> Nothing]
    /\ provider \in {"run", "register", "serving"} => serviceMap = MapOf(deployment.service)

(* How far a thread is with its calls, and what the benchmark has counted. *)
Progress(w) ==
    /\ Len(replies[w]) + Len(todo[w]) =
          IF caller \in {"off", "exited"} \/ w \notin Threads THEN 0 ELSE Len(Calls)
    /\ IsBench =>
          /\ tally[w].ok = Len(Answered(replies[w]))
          /\ tally[w].rtts = tally[w].ok
          /\ tally[w].ok + tally[w].fail = Len(replies[w])
    /\ w \notin Threads => todo[w] = <<>>

-----------------------------------------------------------------------------
(* The replies that count                                                  *)

CountsIf(r, before) == IF r.answered THEN Append(before, r) ELSE before

(* f[i] is the answered ones of the first i.                               *)
IsAnswered(f, rs) ==
    /\ f[0] = <<>>
    /\ \A i \in 1..Len(rs) : f[i] = CountsIf(rs[i], f[i - 1])
    /\ Answered(rs) = f[Len(rs)]

(* Going through the replies one after the other, whatever they are.       *)
LEMMA AnsweredIs ==
  ASSUME NEW R, NEW rs \in Seq(R)
  PROVE  \E f \in [0..Len(rs) -> Seq(R)] : IsAnswered(f, rs)
<1> DEFINE n == Len(rs)
           e == <<>>
           S == Seq(R)
           step == [i \in 1..n |-> [x \in S |-> CountsIf(rs[i], x)]]
           Table(f) == f = [i \in 0..n |->
              IF i = 0 THEN <<>>
              ELSE IF rs[i].answered THEN Append(f[i - 1], rs[i]) ELSE f[i - 1]]
           Entry(f, i) == IF i = 0 THEN e ELSE CountsIf(rs[i], f[i - 1])
           f == CHOOSE f : Table(f)
<1>1. n \in Nat /\ e \in S /\ \A i \in 1..n : rs[i] \in R
  OBVIOUS
<1>2. \A i \in 1..n, x \in S : CountsIf(rs[i], x) \in S
  BY <1>1 DEF CountsIf
<1>3. ASSUME NEW g PROVE Table(g) <=> g = [i \in 0..n |-> Entry(g, i)]
  BY DEF CountsIf
<1>4. \E g : Table(g)
  <2>1. step \in [1..n -> [S -> S]] /\ \A i \in 1..n, x \in S : step[i][x] = CountsIf(rs[i], x)
    BY <1>2
  <2> HIDE DEF step, e, n, S
  <2>2. Definable(n, S, e, step)
    BY <1>1, <2>1, Recursion
  <2>3. PICK g \in [0..n -> S] : g[0] = e /\ \A i \in 1..n : g[i] = step[i][g[i - 1]]
    BY <2>2 DEF Definable, Follows
  <2>4. \A i \in 0..n : g[i] = Entry(g, i)
    <3> SUFFICES ASSUME NEW i \in 0..n PROVE g[i] = Entry(g, i)
      OBVIOUS
    <3>1. i = 0 \/ (i \in 1..n /\ i - 1 \in 0..n /\ i # 0)
      BY <1>1
    <3> QED
      BY <2>1, <2>3, <3>1
  <2>5. g = [i \in 0..n |-> Entry(g, i)]
    BY <2>3, <2>4
  <2> HIDE DEF Table, Entry
  <2> QED
    BY <1>3, <2>5
<1>5. Table(f)
  <2> HIDE DEF Table
  <2> QED
    BY <1>4
<1>6. f = [i \in 0..n |-> Entry(f, i)]
  <2> HIDE DEF Table, Entry, f
  <2> QED
    BY <1>3, <1>5
<1>7. Answered(rs) = f[n]
  BY Zenon DEF Answered, n
<1> HIDE DEF f, n, e, S
<1>8. f[0] = e /\ \A i \in 1..n : f[i] = CountsIf(rs[i], f[i - 1])
  <2>1. \A i \in 0..n : f[i] = Entry(f, i)
    BY <1>6, Zenon
  <2>2. 0 \in 0..n /\ \A i \in 1..n : i \in 0..n /\ i # 0
    BY <1>1
  <2> QED
    BY <2>1, <2>2
<1> DEFINE T == {i \in 0..n : f[i] \in S}
<1>9. \A i \in 0..n : f[i] \in S
  <2>1. 0 \in T
    BY <1>1, <1>8
  <2>2. ASSUME NEW i \in 1..n, i - 1 \in T PROVE i \in T
    BY <1>2, <1>8, <2>2
  <2> HIDE DEF T
  <2>3. \A i \in 0..n : i \in T
    BY <1>1, <2>1, <2>2, Induction
  <2> QED
    BY <2>3 DEF T
<1>10. f \in [0..n -> S]
  BY <1>6, <1>9
<1> QED
  BY <1>7, <1>8, <1>10 DEF IsAnswered, n, e, S

(* No replies, no answered ones.                                           *)
LEMMA NoneAnswered == Answered(<<>>) = <<>>
<1> DEFINE e == <<>>
<1>1. e \in Seq({}) /\ Len(e) = 0
  OBVIOUS
<1> HIDE DEF e
<1>2. PICK f : IsAnswered(f, e)
  BY <1>1, AnsweredIs
<1>3. Answered(e) = <<>>
  BY <1>1, <1>2 DEF IsAnswered
<1> QED
  BY <1>3 DEF e

(* One more reply counts when it is answered.                              *)
LEMMA AnsweredGrows ==
  ASSUME NEW R, NEW rs \in Seq(R), NEW r \in R
  PROVE  Answered(Append(rs, r)) = CountsIf(r, Answered(rs))
<1> DEFINE n == Len(rs)
           both == Append(rs, r)
<1>1. /\ n \in Nat /\ both \in Seq(R) /\ Len(both) = n + 1
      /\ \A i \in 1..n : both[i] = rs[i]
      /\ both[n + 1] = r
  OBVIOUS
<1>2. PICK f \in [0..n -> Seq(R)] : IsAnswered(f, rs)
  BY AnsweredIs
<1>3. PICK g \in [0..Len(both) -> Seq(R)] : IsAnswered(g, both)
  BY <1>1, AnsweredIs
<1> HIDE DEF n, both
<1> DEFINE T == {i \in 0..n : g[i] = f[i]}
<1>4. 0 \in T
  BY <1>1, <1>2, <1>3 DEF IsAnswered
<1>5. ASSUME NEW i \in 1..n, i - 1 \in T PROVE i \in T
  <2>1. i \in 1..(n + 1) /\ i \in 0..n
    BY <1>1
  <2> QED
    BY <1>1, <1>2, <1>3, <1>5, <2>1 DEF IsAnswered, n
<1>6. n \in T
  <2> HIDE DEF T
  <2>1. \A i \in 0..n : i \in T
    BY <1>1, <1>4, <1>5, Induction
  <2> QED
    BY <1>1, <2>1
<1>7. n + 1 \in 1..(n + 1) /\ (n + 1) - 1 = n
  BY <1>1
<1>8. g[n + 1] = CountsIf(r, g[n])
  BY <1>1, <1>3, <1>7 DEF IsAnswered
<1> QED
  BY <1>1, <1>2, <1>3, <1>6, <1>8 DEF IsAnswered, n, both

(* The answered replies are replies, no more than there are, and answered. *)
LEMMA AnsweredAre ==
  ASSUME NEW R, NEW rs \in Seq(R)
  PROVE  Answered(rs) \in Seq({r \in R : r.answered})
<1> DEFINE n == Len(rs)
           Q == {r \in R : r.answered}
<1>1. PICK f \in [0..n -> Seq(R)] : IsAnswered(f, rs)
  BY AnsweredIs
<1>2. n \in Nat /\ \A i \in 1..n : rs[i] \in R
  OBVIOUS
<1> HIDE DEF n
<1> DEFINE T == {i \in 0..n : f[i] \in Seq(Q)}
<1>3. 0 \in T
  BY <1>1, <1>2 DEF IsAnswered
<1>4. ASSUME NEW i \in 1..n, i - 1 \in T PROVE i \in T
  <2>1. f[i] = CountsIf(rs[i], f[i - 1]) /\ f[i - 1] \in Seq(Q) /\ rs[i] \in R /\ i \in 0..n
    BY <1>1, <1>2, <1>4 DEF IsAnswered, n
  <2>2. rs[i].answered => rs[i] \in Q
    BY <2>1
  <2> HIDE DEF Q
  <2>3. f[i] \in Seq(Q)
    BY <2>1, <2>2 DEF CountsIf
  <2> QED
    BY <2>1, <2>3
<1> HIDE DEF T, Q
<1>5. \A i \in 0..n : i \in T
  BY <1>2, <1>3, <1>4, Induction
<1>6. f[n] \in Seq(Q)
  BY <1>2, <1>5 DEF T
<1> QED
  BY <1>1, <1>6 DEF IsAnswered, n, Q

-----------------------------------------------------------------------------
(* What the benchmark adds up                                              *)

(* s[i] is the sum over the first i threads of k.                          *)
IsTotal(s, k, f) ==
    /\ s[0] = 0
    /\ \A i \in 1..k : s[i] = s[i - 1] + f[i]
    /\ Sum(f) = s[k]

(* Numbers added up one thread after the other, whatever they are.         *)
LEMMA SumIs ==
  ASSUME NEW k \in Nat, Threads = 1..k, NEW f \in [1..k -> Int]
  PROVE  \E s \in [0..k -> Int] : IsTotal(s, k, f)
<1> DEFINE step == [i \in 1..k |-> [x \in Int |-> x + f[i]]]
           Entry(s, i) == IF i = 0 THEN 0 ELSE s[i - 1] + f[i]
           Table(s) == s = [i \in 0..k |-> Entry(s, i)]
           s == CHOOSE s : Table(s)
<1>1. Cardinality(Threads) = k
  <2>1. Cardinality(1..k) = IF 1 > k THEN 0 ELSE k - 1 + 1
    BY FS_Interval
  <2> QED
    BY <2>1
<1>2. \A i \in 1..k : f[i] \in Int
  OBVIOUS
<1>3. \E g : Table(g)
  <2>1. step \in [1..k -> [Int -> Int]] /\ \A i \in 1..k, x \in Int : step[i][x] = x + f[i]
    BY <1>2
  <2> HIDE DEF step
  <2> DEFINE zero == 0
  <2>0. zero \in Int
    OBVIOUS
  <2> HIDE DEF zero
  <2>2. Definable(k, Int, zero, step)
    BY <2>0, <2>1, Recursion
  <2>3. PICK g \in [0..k -> Int] : g[0] = 0 /\ \A i \in 1..k : g[i] = step[i][g[i - 1]]
    BY <2>2 DEF Definable, Follows, zero
  <2>4. \A i \in 0..k : g[i] = Entry(g, i)
    <3> SUFFICES ASSUME NEW i \in 0..k PROVE g[i] = Entry(g, i)
      OBVIOUS
    <3>1. i = 0 \/ (i \in 1..k /\ i - 1 \in 0..k /\ i # 0)
      OBVIOUS
    <3> QED
      BY <2>1, <2>3, <3>1
  <2>5. g = [i \in 0..k |-> Entry(g, i)]
    BY <2>3, <2>4
  <2> HIDE DEF Entry
  <2> QED
    BY <2>5
<1>4. Table(s)
  <2> HIDE DEF Table
  <2> QED
    BY <1>3
<1>5. Sum(f) = s[k]
  BY <1>1, Zenon DEF Sum
<1> HIDE DEF s
<1>6. s[0] = 0 /\ \A i \in 1..k : s[i] = s[i - 1] + f[i]
  <2>1. \A i \in 0..k : s[i] = Entry(s, i)
    BY <1>4, Zenon
  <2>2. 0 \in 0..k /\ \A i \in 1..k : i \in 0..k /\ i # 0
    OBVIOUS
  <2> QED
    BY <2>1, <2>2
<1> DEFINE T == {i \in 0..k : s[i] \in Int}
<1>7. \A i \in 0..k : s[i] \in Int
  <2>1. 0 \in T
    BY <1>6
  <2>2. ASSUME NEW i \in 1..k, i - 1 \in T PROVE i \in T
    BY <1>2, <1>6, <2>2
  <2> HIDE DEF T
  <2>3. \A i \in 0..k : i \in T
    BY <2>1, <2>2, Induction
  <2> QED
    BY <2>3 DEF T
<1>8. s \in [0..k -> Int]
  BY <1>4, <1>7
<1> QED
  BY <1>5, <1>6, <1>8 DEF IsTotal

(* When two counts of every thread add up to the same number, the sums add *)
(* up to that number for each thread.                                      *)
LEMMA SumsAdd ==
  ASSUME NEW k \in Nat, Threads = 1..k, NEW c \in Int,
         NEW f \in [1..k -> Int], NEW g \in [1..k -> Int], \A i \in 1..k : f[i] + g[i] = c
  PROVE  Sum(f) + Sum(g) = c * k
<1>1. PICK s \in [0..k -> Int] : IsTotal(s, k, f)
  BY SumIs
<1>2. PICK t \in [0..k -> Int] : IsTotal(t, k, g)
  BY SumIs
<1> DEFINE T == {i \in 0..k : s[i] + t[i] = c * i}
<1>3. 0 \in T
  BY <1>1, <1>2 DEF IsTotal
<1>4. ASSUME NEW i \in 1..k, i - 1 \in T PROVE i \in T
  <2> DEFINE x == c * (i - 1)
             y == c * i
  <2>1. x + c = y /\ x \in Int /\ y \in Int
    OBVIOUS
  <2>2. i \in 0..k /\ i - 1 \in 0..k
    OBVIOUS
  <2>3. s[i - 1] + t[i - 1] = x
    BY <1>4
  <2> HIDE DEF x
  <2>4. s[i] = s[i - 1] + f[i] /\ t[i] = t[i - 1] + g[i]
    BY <1>1, <1>2 DEF IsTotal
  <2>5. f[i] + g[i] = c /\ f[i] \in Int /\ g[i] \in Int /\ s[i - 1] \in Int /\ t[i - 1] \in Int
    BY <2>2
  <2> HIDE DEF y
  <2>6. \A a, b, u, v \in Int : (a + u) + (b + v) = (a + b) + (u + v)
    OBVIOUS
  <2>7. s[i] + t[i] = (s[i - 1] + t[i - 1]) + (f[i] + g[i])
    BY <2>4, <2>5, <2>6
  <2>8. s[i] + t[i] = y
    BY <2>1, <2>3, <2>5, <2>7
  <2> QED
    BY <2>2, <2>8 DEF y
<1> HIDE DEF T
<1>5. \A i \in 0..k : i \in T
  BY <1>3, <1>4, Induction
<1>6. k \in T
  BY <1>5
<1> QED
  BY <1>1, <1>2, <1>6 DEF IsTotal, T

-----------------------------------------------------------------------------
(* The bytes of calls                                                      *)

(* At most k bytes, none of them 0 and none of them 255.                   *)
Visible(k) == {s \in Bytes : Len(s) <= k /\ \A i \in 1..Len(s) : s[i] \in 1..254}

(* Visible bytes behind visible bytes.                                     *)
LEMMA VisibleJoined ==
  ASSUME NEW j \in Nat, NEW k \in Nat, NEW s \in Visible(j), NEW t \in Visible(k)
  PROVE  s \o t \in Visible(j + k) /\ Len(s \o t) = Len(s) + Len(t)
<1> DEFINE u == s \o t
           m == Len(s)
           n == Len(t)
<1>1. /\ m \in Nat /\ n \in Nat /\ m <= j /\ n <= k
      /\ \A i \in 1..m : s[i] \in 1..254
      /\ \A i \in 1..n : t[i] \in 1..254
  BY BytesAre DEF Visible
<1>2. /\ u \in Bytes /\ Len(u) = m + n
      /\ \A i \in 1..m : u[i] = s[i]
      /\ \A i \in 1..n : u[m + i] = t[i]
  BY BytesJoined DEF Visible
<1> HIDE DEF u, m, n
<1>6. /\ \A i \in 1..m : u[i] = s[i]
      /\ \A i \in 1..n : u[m + i] = t[i]
  BY <1>2
<1>3. ASSUME NEW i \in 1..(m + n) PROVE u[i] \in 1..254
  <2>1. CASE i <= m
    BY <1>1, <1>6, <2>1
  <2>2. CASE i > m
    <3>1. i - m \in 1..n /\ m + (i - m) = i
      BY <1>1, <2>2
    <3> QED
      <4>1. u[m + (i - m)] = t[i - m] /\ t[i - m] \in 1..254
        BY <1>1, <1>6, <3>1, Zenon
      <4> QED
        BY <3>1, <4>1
  <2> QED
    BY <1>1, <2>1, <2>2
<1>4. m + n <= j + k
  BY <1>1
<1>5. u \in Visible(j + k)
  BY <1>2, <1>3, <1>4 DEF Visible
<1> QED
  BY <1>2, <1>5 DEF u, m, n

(* No bytes at all are visible.                                            *)
LEMMA VisibleNothing == \A k \in Nat : <<>> \in Visible(k)
<1>1. <<>> \in Bytes /\ Len(<<>>) = 0
  BY Joins
<1> QED
  BY <1>1 DEF Visible

(* So is one byte that is neither 0 nor 255.                               *)
LEMMA VisibleByte == \A d \in 1..254 : <<d>> \in Visible(1) /\ Len(<<d>>) = 1 /\ <<d>>[1] = d
<1> SUFFICES ASSUME NEW d \in 1..254 PROVE <<d>> \in Visible(1) /\ Len(<<d>>) = 1 /\ <<d>>[1] = d
  OBVIOUS
<1>1. d \in 0..255
  OBVIOUS
<1> DEFINE s == <<d>>
<1>2. s \in Bytes /\ Len(s) = 1 /\ s[1] = d
  BY <1>1, Byte
<1> HIDE DEF s
<1>4. \A i \in 1..Len(s) : s[i] \in 1..254
  BY <1>2
<1>3. s \in Visible(1)
  <2>1. Len(s) <= 1
    BY <1>2
  <2> QED
    BY <1>2, <1>4, <2>1, Zenon DEF Visible
<1> QED
  BY <1>2, <1>3 DEF s

(* The sizes, and the two user ids.                                        *)
Counts == 1..127 \union {1000, 2000}

(* A size or a user id is written without a byte 0 or 255.                 *)
LEMMA VisibleVarint ==
  /\ \A v \in 1..127 : Varint[v] = <<v>> /\ Varint[v] \in Visible(1)
  /\ \A v \in Counts : Varint[v] \in Visible(2)
<1>1. ASSUME NEW v \in 1..127 PROVE Varint[v] = <<v>> /\ Varint[v] \in Visible(1)
  <2>1. v \in Nat /\ v < 128 /\ v \in 1..254
    OBVIOUS
  <2>2. Varint[v] = <<v>>
    BY <2>1, VarintIs, Zenon
  <2> QED
    BY <2>1, <2>2, VisibleByte
<1>2. ASSUME NEW v \in Nat, v >= 128, v \div 128 \in 1..127, 128 + (v % 128) \in 1..254
      PROVE  Varint[v] \in Visible(2)
  <2>1. Varint[v] = <<128 + (v % 128)>> \o Varint[v \div 128]
    <3>1. ~(v < 128)
      BY <1>2
    <3> QED
      BY <3>1, VarintIs, Zenon
  <2>2. Varint[v \div 128] \in Visible(1) /\ <<128 + (v % 128)>> \in Visible(1)
    BY <1>1, <1>2, VisibleByte
  <2>3. 1 \in Nat /\ 1 + 1 = 2
    OBVIOUS
  <2> QED
    BY <2>1, <2>2, <2>3, VisibleJoined
<1>3. /\ 1000 \in Nat /\ 1000 >= 128 /\ 1000 \div 128 \in 1..127 /\ 128 + (1000 % 128) \in 1..254
      /\ 2000 \in Nat /\ 2000 >= 128 /\ 2000 \div 128 \in 1..127 /\ 128 + (2000 % 128) \in 1..254
  BY SMT
<1>4. Visible(1) \subseteq Visible(2)
  BY BytesAre DEF Visible
<1>5. Varint[1000] \in Visible(2) /\ Varint[2000] \in Visible(2)
  BY <1>2, <1>3
<1>6. ASSUME NEW v \in Counts PROVE Varint[v] \in Visible(2)
  <2>1. v \in 1..127 \/ v = 1000 \/ v = 2000
    BY DEF Counts
  <2>2. CASE v \in 1..127
    <3>1. Varint[v] \in Visible(1)
      BY <1>1, <2>2
    <3> QED
      BY <1>4, <3>1
  <2>3. CASE v = 1000
    BY <1>5, <2>3, SMT
  <2>4. CASE v = 2000
    BY <1>5, <2>4, SMT
  <2> QED
    BY <2>1, <2>2, <2>3, <2>4, SMT
<1> QED
  BY <1>1, <1>6
(* A short text, and a number, as fields.                                  *)
LEMMA VisibleText ==
  ASSUME NEW number \in 1..3, NEW k \in 0..100, NEW v \in Visible(k)
  PROVE  /\ When(Len(v) > 0, WriteBytes(number, v)) \in Visible(k + 2)
         /\ Len(v) > 0 => Len(When(Len(v) > 0, WriteBytes(number, v))) > 0
<1> DEFINE l == Len(v)
<1>1. l \in Nat /\ l <= 100
  BY BytesAre DEF Visible
<1> HIDE DEF l
<1>2. CASE ~(Len(v) > 0)
  <2>1. k + 2 \in Nat
    OBVIOUS
  <2> QED
    BY <1>2, <2>1, VisibleNothing DEF When
<1>3. CASE Len(v) > 0
  <2> DEFINE a == Varint[8 * number + 2]
             b == Varint[l]
  <2>1. a \in Visible(1)
    <3>1. 8 * number + 2 \in 1..127
      OBVIOUS
    <3> QED
      BY <3>1, VisibleVarint
  <2>2. b \in Visible(1) /\ Len(b) = 1
    <3>1. l \in 1..127 /\ l \in 1..254
      <4>1. l > 0
        BY <1>3 DEF l
      <4> QED
        BY <1>1, <4>1
    <3>2. b = <<l>> /\ b \in Visible(1)
      BY <3>1, VisibleVarint
    <3> QED
      BY <3>1, <3>2, VisibleByte
  <2>3. When(Len(v) > 0, WriteBytes(number, v)) = (a \o b) \o v
    BY <1>3, Zenon DEF When, WriteBytes, l
  <2>9. 1 \in Nat
    OBVIOUS
  <2> HIDE DEF a, b
  <2>4. a \o b \in Visible(1 + 1) /\ Len(a \o b) = Len(a) + Len(b)
    BY <2>1, <2>2, <2>9, VisibleJoined
  <2> DEFINE ab == a \o b
  <2>5. 1 + 1 \in Nat /\ k \in Nat /\ 1 + 1 + k = k + 2
    OBVIOUS
  <2>6. ab \o v \in Visible(k + 2) /\ Len(ab \o v) = Len(ab) + Len(v)
    BY <2>4, <2>5, VisibleJoined
  <2>7. Len(ab) \in Nat
    <3>1. ab \in Bytes
      BY <2>4 DEF Visible
    <3> QED
      BY <3>1, BytesAre
  <2> HIDE DEF ab
  <2>8. Len(ab \o v) > 0
    BY <1>1, <1>3, <2>6, <2>7 DEF l
  <2> QED
    BY <1>3, <2>3, <2>6, <2>8 DEF ab
<1> QED
  BY <1>2, <1>3

(* So is the field that holds it.                                          *)
LEMMA VisibleNumber ==
  ASSUME NEW number \in 1..3, NEW v \in Counts \union {0}
  PROVE  When(v # 0, WriteUInt32(number, v)) \in Visible(3)
<1>1. CASE v = 0
  BY <1>1, VisibleNothing DEF When
<1>2. CASE v # 0
  <2>1. v \in Counts /\ v >= 0
    BY <1>2 DEF Counts
  <2>2. When(v # 0, WriteUInt32(number, v)) = Varint[8 * number] \o Varint[v]
    BY <1>2, <2>1, Zenon DEF When, WriteUInt32, UInt32Bytes
  <2>3. Varint[8 * number] \in Visible(1) /\ Varint[v] \in Visible(2)
    <3>1. 8 * number \in 1..127
      OBVIOUS
    <3> QED
      BY <2>1, <3>1, VisibleVarint
  <2> DEFINE a == Varint[8 * number]
             b == Varint[v]
  <2>4. 1 \in Nat /\ 2 \in Nat /\ 1 + 2 = 3
    OBVIOUS
  <2> HIDE DEF a, b
  <2>5. a \o b \in Visible(1 + 2)
    BY <2>3, <2>4, VisibleJoined DEF a, b
  <2> QED
    BY <2>2, <2>4, <2>5 DEF a, b
<1> QED
  BY <1>1, <1>2

-----------------------------------------------------------------------------
(* The calls of the example                                                *)

RpcHeaderFor(call) ==
    [RpcHeader EXCEPT !.servicename = call.method.service, !.methodname = call.method.name,
                      !.argssize = Len(SerializeToString(call.request))]

ArgsStr(call) == SerializeToString(call.request)

HeaderStr(call) == SerializeToString(RpcHeaderFor(call))

(* What the proofs need to know of the methods: names of one character     *)
(* that tell them apart.                                                   *)
LEMMA MethodsAre ==
  /\ \A m \in Methods :
        /\ m.service \in Visible(1) /\ Len(m.service) = 1
        /\ m.name \in Visible(1) /\ Len(m.name) = 1
        /\ m = [service |-> m.service, name |-> m.name, index |-> m.index]
  /\ \A m, n \in Methods : m.service = n.service /\ m.name = n.name => m = n
<1> DEFINE M(s, n, i) == [service |-> <<s>>, name |-> <<n>>, index |-> i]
           Good(m) ==
              /\ m.service \in Visible(1) /\ Len(m.service) = 1
              /\ m.name \in Visible(1) /\ Len(m.name) = 1
              /\ m = [service |-> m.service, name |-> m.name, index |-> m.index]
           m1 == M(85, 76, 0)
           m2 == M(85, 82, 1)
           m3 == M(70, 71, 0)
<1>1. Methods = {m1, m2, m3}
  BY DEF Methods, UserServiceRpc, FriendServiceRpc
<1>2. ASSUME NEW s \in 1..254, NEW n \in 1..254, NEW i
      PROVE  Good(M(s, n, i)) /\ M(s, n, i).name[1] = n
  <2> DEFINE x == <<s>>
             y == <<n>>
  <2>1. x \in Visible(1) /\ Len(x) = 1 /\ y \in Visible(1) /\ Len(y) = 1 /\ y[1] = n
    BY VisibleByte
  <2>2. M(s, n, i) = [service |-> x, name |-> y, index |-> i]
    OBVIOUS
  <2> HIDE DEF x, y, M
  <2> QED
    BY <2>1, <2>2
<1> HIDE DEF Good, M
<1>3. 85 \in 1..254 /\ 76 \in 1..254 /\ 82 \in 1..254 /\ 70 \in 1..254 /\ 71 \in 1..254
  BY SMT
<1>4. /\ Good(m1) /\ Good(m2) /\ Good(m3)
      /\ m1.name[1] = 76 /\ m2.name[1] = 82 /\ m3.name[1] = 71
  <2>1. \A s, n, i : s \in 1..254 /\ n \in 1..254 => Good(M(s, n, i)) /\ M(s, n, i).name[1] = n
    BY <1>2, Zenon
  <2>2. Good(m1) /\ m1.name[1] = 76
    BY <1>3, <2>1, SMT
  <2>3. Good(m2) /\ m2.name[1] = 82
    BY <1>3, <2>1, SMT
  <2>4. Good(m3) /\ m3.name[1] = 71
    BY <1>3, <2>1, SMT
  <2> QED
    BY <2>2, <2>3, <2>4, SMT
<1> HIDE DEF m1, m2, m3
<1>5. \A m \in Methods : Good(m)
  BY <1>1, <1>4
<1>6. ASSUME NEW m \in Methods, NEW n \in Methods, m.name = n.name PROVE m = n
  BY <1>1, <1>4, <1>6, SMT
<1> QED
  BY <1>5, <1>6 DEF Good

(* Short texts are strings, and a shorter text is a longer one's length.   *)
LEMMA VisibleFits ==
  ASSUME NEW k \in 0..100
  PROVE  Visible(k) \subseteq Strings /\ \A j \in 0..k : Visible(j) \subseteq Visible(k)
<1>1. ASSUME NEW s \in Visible(k) PROVE s \in Strings
  <2> DEFINE l == Len(s)
  <2>1. s \in Bytes /\ l \in Nat /\ l <= k
    BY BytesAre DEF Visible
  <2> HIDE DEF l
  <2>2. l \in Int31
    BY <2>1, SMT DEF Int31
  <2> QED
    BY <2>1, <2>2 DEF Strings, l
<1>2. ASSUME NEW j \in 0..k, NEW s \in Visible(j) PROVE s \in Visible(k)
  <2> DEFINE l == Len(s)
  <2>1. s \in Bytes /\ l \in Nat /\ l <= j /\ \A i \in 1..l : s[i] \in 1..254
    BY BytesAre DEF Visible
  <2> HIDE DEF l
  <2>2. l <= k
    BY <2>1
  <2> QED
    BY <2>1, <2>2 DEF Visible, l
<1> QED
  BY <1>1, <1>2

(* The bytes of three fields, of which some may be empty.                  *)
LEMMA VisibleFields ==
  ASSUME NEW a \in Visible(3), NEW b \in Visible(3), NEW c \in Visible(3)
  PROVE  /\ (a \o b) \o c \in Visible(9) /\ Len((a \o b) \o c) = Len(a) + Len(b) + Len(c)
         /\ a \o b \in Visible(6) /\ Len(a \o b) = Len(a) + Len(b)
<1>1. 3 \in Nat /\ 6 \in Nat /\ 3 + 3 = 6 /\ 6 + 3 = 9
  OBVIOUS
<1> DEFINE ab == a \o b
<1>2. ab \in Visible(6) /\ Len(ab) = Len(a) + Len(b)
  BY <1>1, VisibleJoined
<1> HIDE DEF ab
<1>3. ab \o c \in Visible(9) /\ Len(ab \o c) = Len(ab) + Len(c)
  BY <1>1, <1>2, VisibleJoined
<1> QED
  BY <1>2, <1>3 DEF ab

(* Nothing behind a string changes nothing.                                *)
LEMMA NothingBehind == \A k \in Nat : \A s \in Visible(k) : s \o <<>> = s
<1> SUFFICES ASSUME NEW k \in Nat, NEW s \in Visible(k) PROVE s \o <<>> = s
  OBVIOUS
<1>1. s \in Seq(0..255)
  BY DEF Visible, Bytes
<1> QED
  BY <1>1, ConcatEmptySeq

(* The requests of the example and what they are written as.               *)
LEMMA LoginCall ==
  ASSUME NEW n \in Visible(1), NEW p \in Visible(1)
  PROVE  LET m == LoginRequestOf(n, p, <<>>)
         IN m \in LoginRequests /\ SerializeToString(m) \in Visible(9)
<1> DEFINE e == <<>>
           m == LoginRequestOf(n, p, e)
           a == When(Len(n) > 0, WriteBytes(1, n))
           b == When(Len(p) > 0, WriteBytes(2, p))
<1>1. m.type = "LoginRequest" /\ m.name = n /\ m.pwd = p /\ m.unknown = e
  BY DEF LoginRequestOf
<1>2. n \in Strings /\ p \in Strings /\ e \in Strange(LoginRequest_InternalParse)
  BY VisibleFits, NothingStrange
<1>3. m \in LoginRequests
  BY <1>2 DEF LoginRequestOf, LoginRequests
<1>4. a \in Visible(3) /\ b \in Visible(3)
  BY VisibleText
<1>5. SerializeToString(m) = (a \o b) \o e
  BY <1>1, Zenon DEF SerializeToString, LoginRequest_InternalSerialize
<1> HIDE DEF a, b, m
<1>6. a \o b \in Visible(6)
  BY <1>4, VisibleFields
<1>7. (a \o b) \o e = a \o b /\ Visible(6) \subseteq Visible(9)
  <2>1. 6 \in Nat /\ 6 \in 0..9 /\ 9 \in 0..100
    OBVIOUS
  <2> QED
    BY <1>6, <2>1, NothingBehind, VisibleFits
<1> QED
  BY <1>3, <1>5, <1>6, <1>7 DEF m, e

(* And the request of Register, with a short name and password.            *)
LEMMA RegisterCall ==
  ASSUME NEW n \in Visible(1), NEW p \in Visible(1)
  PROVE  LET m == RegisterRequestOf(2000, n, p, <<>>)
         IN m \in RegisterRequests /\ SerializeToString(m) \in Visible(9)
<1> DEFINE e == <<>>
           i == 2000
           m == RegisterRequestOf(i, n, p, e)
           a == When(i # 0, WriteUInt32(1, i))
           b == When(Len(n) > 0, WriteBytes(2, n))
           c == When(Len(p) > 0, WriteBytes(3, p))
<1>0. i \in Counts /\ i \in Int32
  BY SMT DEF Counts, Int32
<1> HIDE DEF i
<1>1. m.type = "RegisterRequest" /\ m.id = i /\ m.name = n /\ m.pwd = p /\ m.unknown = e
  BY DEF RegisterRequestOf
<1>2. n \in Strings /\ p \in Strings /\ e \in Strange(RegisterRequest_InternalParse)
  BY VisibleFits, NothingStrange
<1>3. m \in RegisterRequests
  BY <1>0, <1>2 DEF RegisterRequestOf, RegisterRequests
<1>4. a \in Visible(3) /\ b \in Visible(3) /\ c \in Visible(3)
  BY <1>0, VisibleText, VisibleNumber
<1>5. SerializeToString(m) = ((a \o b) \o c) \o e
  BY <1>1, Zenon DEF SerializeToString, RegisterRequest_InternalSerialize
<1> HIDE DEF a, b, c, m
<1>6. (a \o b) \o c \in Visible(9)
  BY <1>4, VisibleFields
<1>7. ((a \o b) \o c) \o e = (a \o b) \o c
  <2>1. 9 \in Nat
    OBVIOUS
  <2> QED
    BY <1>6, <2>1, NothingBehind
<1>8. m \in RegisterRequests /\ SerializeToString(m) \in Visible(9)
  BY <1>3, <1>5, <1>6, <1>7
<1> QED
  BY <1>8, SMT DEF m, e, i

(* And the request of GetFriendList.                                       *)
LEMMA FriendCall ==
  ASSUME NEW i \in {1000, 2000}
  PROVE  LET m == GetFriendListRequestOf(i, <<>>)
         IN m \in GetFriendListRequests /\ SerializeToString(m) \in Visible(9)
<1> DEFINE e == <<>>
           m == GetFriendListRequestOf(i, e)
           a == When(i # 0, WriteUInt32(1, i))
<1>0. i \in Counts /\ i \in Int32
  BY SMT DEF Counts, Int32
<1>1. m.type = "GetFriendListRequest" /\ m.userid = i /\ m.unknown = e
  BY DEF GetFriendListRequestOf
<1>2. e \in Strange(GetFriendListRequest_InternalParse)
  BY NothingStrange
<1>3. m \in GetFriendListRequests
  BY <1>0, <1>2 DEF GetFriendListRequestOf, GetFriendListRequests
<1>4. a \in Visible(3)
  BY <1>0, VisibleNumber
<1>5. SerializeToString(m) = a \o e
  <2> HIDE DEF m, e
  <2>1. SerializeToString(m) = GetFriendListRequest_InternalSerialize(m)
    BY <1>1 DEF SerializeToString
  <2> QED
    BY <1>1, <2>1 DEF GetFriendListRequest_InternalSerialize, e
<1> HIDE DEF a, m
<1>6. a \o e = a /\ Visible(3) \subseteq Visible(9)
  <2>1. 3 \in Nat /\ 3 \in 0..9 /\ 9 \in 0..100
    OBVIOUS
  <2> QED
    BY <1>4, <2>1, NothingBehind, VisibleFits
<1> QED
  BY <1>3, <1>4, <1>5, <1>6 DEF m, e

-----------------------------------------------------------------------------
(* The calls and their frames                                              *)

(* What the classes of a method are.                                       *)
LEMMA PrototypesAre ==
  /\ GetRequestPrototype(UserServiceRpc.method[1]) = LoginRequest
  /\ GetRequestPrototype(UserServiceRpc.method[2]) = RegisterRequest
  /\ GetRequestPrototype(FriendServiceRpc.method[1]) = GetFriendListRequest
  /\ GetResponsePrototype(UserServiceRpc.method[1]) = LoginResponse
  /\ GetResponsePrototype(UserServiceRpc.method[2]) = RegisterResponse
  /\ GetResponsePrototype(FriendServiceRpc.method[1]) = GetFriendListResponse
<1>1. /\ IsUser(UserServiceRpc.method[1]) /\ IsUser(UserServiceRpc.method[2])
      /\ ~IsUser(FriendServiceRpc.method[1])
  BY DEF IsUser, UserServiceRpc, FriendServiceRpc
<1>2. /\ UserServiceRpc.method[1].index = 0 /\ UserServiceRpc.method[2].index = 1
      /\ FriendServiceRpc.method[1].index = 0
  BY DEF UserServiceRpc, FriendServiceRpc
<1> QED
  BY <1>1, <1>2 DEF GetRequestPrototype, GetResponsePrototype, UserServiceRpc_GetRequestPrototype,
     UserServiceRpc_GetResponsePrototype, FriendServiceRpc_GetRequestPrototype,
     FriendServiceRpc_GetResponsePrototype

(* The default instances are of their classes.                             *)
LEMMA DefaultsAre ==
  /\ LoginRequest \in LoginRequests /\ LoginRequest.type = "LoginRequest"
  /\ RegisterRequest \in RegisterRequests /\ RegisterRequest.type = "RegisterRequest"
  /\ GetFriendListRequest \in GetFriendListRequests
  /\ GetFriendListRequest.type = "GetFriendListRequest"
  /\ LoginResponse \in LoginResponses /\ LoginResponse.type = "LoginResponse"
  /\ RegisterResponse \in RegisterResponses /\ RegisterResponse.type = "RegisterResponse"
  /\ GetFriendListResponse \in GetFriendListResponses
  /\ GetFriendListResponse.type = "GetFriendListResponse"
  /\ RpcHeader \in RpcHeaders /\ RpcHeader.type = "RpcHeader"
<1> DEFINE e == <<>>
<1>1. e \in Strings /\ 0 \in Int32 /\ \A cases : e \in Strange(cases)
  BY NothingFits, NothingStrange
<1>2. e \in Results /\ e \in FriendResults /\ e \in Seq(Strings)
  BY DEF Results, FriendResults
<1>3. /\ LoginRequest = LoginRequestOf(e, e, e)
      /\ RegisterRequest = RegisterRequestOf(0, e, e, e)
      /\ GetFriendListRequest = GetFriendListRequestOf(0, e)
      /\ LoginResponse = LoginResponseOf(e, FALSE, e)
      /\ RegisterResponse = RegisterResponseOf(e, FALSE, e)
      /\ GetFriendListResponse = GetFriendListResponseOf(e, e, e)
      /\ RpcHeader = RpcHeaderOf(e, e, 0, e)
  BY DEF LoginRequestOf, RegisterRequestOf, GetFriendListRequestOf, LoginResponseOf, RegisterResponseOf,
     GetFriendListResponseOf, RpcHeaderOf, LoginRequest, RegisterRequest, GetFriendListRequest,
     LoginResponse, RegisterResponse, GetFriendListResponse, RpcHeader
<1> HIDE DEF e
<1>4. /\ LoginRequestOf(e, e, e) \in LoginRequests
      /\ LoginRequestOf(e, e, e).type = "LoginRequest"
  BY <1>1 DEF LoginRequestOf, LoginRequests
<1>5. /\ RegisterRequestOf(0, e, e, e) \in RegisterRequests
      /\ RegisterRequestOf(0, e, e, e).type = "RegisterRequest"
  BY <1>1 DEF RegisterRequestOf, RegisterRequests
<1>6. /\ GetFriendListRequestOf(0, e) \in GetFriendListRequests
      /\ GetFriendListRequestOf(0, e).type = "GetFriendListRequest"
  BY <1>1 DEF GetFriendListRequestOf, GetFriendListRequests
<1>7. /\ LoginResponseOf(e, FALSE, e) \in LoginResponses
      /\ LoginResponseOf(e, FALSE, e).type = "LoginResponse"
  BY <1>1, <1>2 DEF LoginResponseOf, LoginResponses
<1>8. /\ RegisterResponseOf(e, FALSE, e) \in RegisterResponses
      /\ RegisterResponseOf(e, FALSE, e).type = "RegisterResponse"
  BY <1>1, <1>2 DEF RegisterResponseOf, RegisterResponses
<1>9. /\ GetFriendListResponseOf(e, e, e) \in GetFriendListResponses
      /\ GetFriendListResponseOf(e, e, e).type = "GetFriendListResponse"
  BY <1>1, <1>2 DEF GetFriendListResponseOf, GetFriendListResponses
<1>10. /\ RpcHeaderOf(e, e, 0, e) \in RpcHeaders
       /\ RpcHeaderOf(e, e, 0, e).type = "RpcHeader"
  BY <1>1 DEF RpcHeaderOf, RpcHeaders
<1> QED
  BY <1>3, <1>4, <1>5, <1>6, <1>7, <1>8, <1>9, <1>10, Zenon

(* A call: its method, and a request of the class that its method takes.   *)
IsCall(c) ==
    /\ c = [method |-> c.method, request |-> c.request]
    /\ c.method \in Methods
    /\ GetRequestPrototype(c.method) \in AnyMessage /\ c.request \in AnyMessage
    /\ c.request.type = GetRequestPrototype(c.method).type
    /\ ArgsStr(c) \in Visible(9)

(* The calls that the programs make.                                       *)
LEMMA CallsAre == \A c \in MadeCalls : IsCall(c)
<1> DEFINE C(m, r) == [method |-> m, request |-> r]
<1>1. ASSUME NEW m \in Methods, NEW r, NEW p,
             GetRequestPrototype(m) = p, p \in AnyMessage, r \in AnyMessage, r.type = p.type,
             SerializeToString(r) \in Visible(9)
      PROVE  IsCall(C(m, r))
  <2>1. C(m, r).method = m /\ C(m, r).request = r
    OBVIOUS
  <2> HIDE DEF C
  <2>2. C(m, r) = [method |-> C(m, r).method, request |-> C(m, r).request]
    BY <2>1, Zenon DEF C
  <2> QED
    BY <1>1, <2>1, <2>2 DEF IsCall, ArgsStr
<1> DEFINE Fits(c, p) == p \in AnyMessage /\ c \in AnyMessage /\ c.type = p.type
<1>2. /\ \A r \in LoginRequests : Fits(r, LoginRequest)
      /\ \A r \in RegisterRequests : Fits(r, RegisterRequest)
      /\ \A r \in GetFriendListRequests : Fits(r, GetFriendListRequest)
  <2>1. /\ \A r \in LoginRequests : r.type = "LoginRequest"
        /\ \A r \in RegisterRequests : r.type = "RegisterRequest"
        /\ \A r \in GetFriendListRequests : r.type = "GetFriendListRequest"
    BY DEF LoginRequests, RegisterRequests, GetFriendListRequests
  <2> QED
    BY <2>1, DefaultsAre DEF AnyMessage
<1>3. /\ UserServiceRpc.method[1] \in Methods /\ UserServiceRpc.method[2] \in Methods
      /\ FriendServiceRpc.method[1] \in Methods
  BY Zenon DEF Methods
<1> DEFINE x == <<122>>
           y == <<49>>
           u == <<75>>
           v == <<56>>
           e == <<>>
<1>4. x \in Visible(1) /\ y \in Visible(1) /\ u \in Visible(1) /\ v \in Visible(1)
  <2>1. 122 \in 1..254 /\ 49 \in 1..254 /\ 75 \in 1..254 /\ 56 \in 1..254
    BY SMT
  <2> QED
    BY <2>1, VisibleByte, SMT
<1> DEFINE a == LoginRequestOf(x, y, e)
           i == 2000
           j == 1000
           b == RegisterRequestOf(i, u, v, e)
           c == GetFriendListRequestOf(j, e)
           d == GetFriendListRequestOf(i, e)
<1>5. UserCalls[1] = C(UserServiceRpc.method[1], a)
  <2>1. ASSUME NEW n, NEW o
        PROVE  LoginRequestOf(n, o, e) = [LoginRequest EXCEPT !.name = n, !.pwd = o]
    <3> DEFINE q == LoginRequestOf(n, e, e)
               p == LoginRequestOf(n, o, e)
    <3>1. [LoginRequest EXCEPT !.name = n] = q
      BY DEF LoginRequest, LoginRequestOf
    <3>2. [q EXCEPT !.pwd = o] = p
      BY DEF LoginRequestOf
    <3> HIDE DEF e, q, p
    <3>3. [LoginRequest EXCEPT !.name = n, !.pwd = o] = [[LoginRequest EXCEPT !.name = n] EXCEPT !.pwd = o]
      OBVIOUS
    <3>4. [LoginRequest EXCEPT !.name = n, !.pwd = o] = p
      BY <3>1, <3>2, <3>3
    <3> QED
      BY <3>4 DEF p
  <2>2. UserCalls[1] = [method |-> UserServiceRpc_Stub_Login,
                        request |-> [LoginRequest EXCEPT !.name = <<122>>, !.pwd = <<49>>]]
    BY DEF UserCalls
  <2> DEFINE made == [LoginRequest EXCEPT !.name = x, !.pwd = y]
  <2>3. a = made
    <3> HIDE DEF x, y, e
    <3> QED
      BY <2>1
  <2> HIDE DEF a, made
  <2> QED
    BY <2>2, <2>3, Zenon DEF UserServiceRpc_Stub_Login, made
<1>6. UserCalls[2] = C(UserServiceRpc.method[2], b)
  <2> HIDE DEF i, u, v
  <2> DEFINE made == [RegisterRequest EXCEPT !.id = i, !.name = u, !.pwd = v]
  <2>1. b = made
    <3> DEFINE r == RegisterRequestOf(i, e, e, e)
               q == RegisterRequestOf(i, u, e, e)
    <3>1. [RegisterRequest EXCEPT !.id = i] = r
      BY DEF RegisterRequest, RegisterRequestOf
    <3>2. [r EXCEPT !.name = u] = q
      BY DEF RegisterRequestOf
    <3>3. [q EXCEPT !.pwd = v] = b
      BY DEF RegisterRequestOf
    <3> HIDE DEF e, r, q, b, u, v
    <3>4. made = [[[RegisterRequest EXCEPT !.id = i] EXCEPT !.name = u] EXCEPT !.pwd = v]
      OBVIOUS
    <3> HIDE DEF made
    <3> QED
      BY <3>1, <3>2, <3>3, <3>4
  <2>2. UserCalls[2] = [method |-> UserServiceRpc_Stub_Register,
                        request |-> [RegisterRequest EXCEPT !.id = 2000, !.name = <<75>>, !.pwd = <<56>>]]
    BY SMT DEF UserCalls
  <2>3. UserCalls[2] = [method |-> UserServiceRpc_Stub_Register,
                        request |-> [RegisterRequest EXCEPT !.id = i, !.name = u, !.pwd = v]]
    BY <2>2, SMT DEF i, u, v
  <2> HIDE DEF u, v, e, b, made
  <2> QED
    BY <2>1, <2>3, Zenon DEF UserServiceRpc_Stub_Register, made
<1>7. FriendCalls[1] = C(FriendServiceRpc.method[1], c)
  <2> HIDE DEF j
  <2>1. c = [GetFriendListRequest EXCEPT !.userid = j]
    BY DEF GetFriendListRequest, GetFriendListRequestOf
  <2>2. FriendCalls[1] = [method |-> FriendServiceRpc_Stub_GetFriendList,
                          request |-> [GetFriendListRequest EXCEPT !.userid = j]]
    BY SMT DEF FriendCalls, j
  <2> HIDE DEF c
  <2> QED
    BY <2>1, <2>2, Zenon DEF FriendServiceRpc_Stub_GetFriendList
<1>8. BenchCall = C(FriendServiceRpc.method[1], d)
  <2> HIDE DEF i
  <2>1. d = [GetFriendListRequest EXCEPT !.userid = i]
    BY DEF GetFriendListRequest, GetFriendListRequestOf
  <2>2. BenchCall = [method |-> FriendServiceRpc_Stub_GetFriendList,
                     request |-> [GetFriendListRequest EXCEPT !.userid = i]]
    BY SMT DEF BenchCall, i
  <2> HIDE DEF d
  <2> QED
    BY <2>1, <2>2, Zenon DEF FriendServiceRpc_Stub_GetFriendList
<1> HIDE DEF x, y, u, v
<1>9. a \in LoginRequests /\ SerializeToString(a) \in Visible(9)
  BY <1>4, LoginCall
<1>10. b \in RegisterRequests /\ SerializeToString(b) \in Visible(9)
  BY <1>4, RegisterCall, SMT
<1>11. c \in GetFriendListRequests /\ SerializeToString(c) \in Visible(9)
  BY FriendCall, SMT
<1>12. d \in GetFriendListRequests /\ SerializeToString(d) \in Visible(9)
  BY FriendCall, SMT
<1> HIDE DEF a, b, c, d, C
<1>13. IsCall(UserCalls[1])
  BY <1>1, <1>2, <1>3, <1>5, <1>9, PrototypesAre
<1>14. IsCall(UserCalls[2])
  BY <1>1, <1>2, <1>3, <1>6, <1>10, PrototypesAre
<1>15. IsCall(FriendCalls[1])
  BY <1>1, <1>2, <1>3, <1>7, <1>11, PrototypesAre
<1>16. IsCall(BenchCall)
  BY <1>1, <1>2, <1>3, <1>8, <1>12, PrototypesAre
<1> QED
  BY <1>13, <1>14, <1>15, <1>16, Zenon DEF MadeCalls

(* The four bytes of a small number.                                       *)
LEMMA SmallNumber ==
  ASSUME NEW n \in 0..255
  PROVE  /\ UInt32(n) = <<n, 0, 0, 0>>
         /\ UInt32(n) \in Bytes /\ Len(UInt32(n)) = 4
         /\ UInt32(n)[1] = n /\ UInt32(n)[2] = 0 /\ UInt32(n)[3] = 0 /\ UInt32(n)[4] = 0
<1>1. n % 256 = n /\ (n \div 256) % 256 = 0 /\ (n \div 65536) % 256 = 0 /\ n \div 16777216 = 0
  <2>1. n % 256 = n /\ n \div 256 = 0 /\ 0 % 256 = 0
    BY SMT
  <2>2. n \div 65536 = 0 /\ n \div 16777216 = 0
    BY SMT
  <2> QED
    BY <2>1, <2>2, SMT
<1>2. UInt32(n) = <<n, 0, 0, 0>>
  BY <1>1, SMT DEF UInt32
<1>3. <<n, 0, 0, 0>> \in Bytes
  BY DEF Bytes
<1> QED
  BY <1>2, <1>3

(* The header of a call's frame.                                           *)
LEMMA HeaderIs ==
  ASSUME NEW c, IsCall(c)
  PROVE  /\ RpcHeaderFor(c) = RpcHeaderOf(c.method.service, c.method.name, Len(ArgsStr(c)), <<>>)
         /\ RpcHeaderFor(c) \in RpcHeaders
         /\ HeaderStr(c) \in Visible(9) /\ Len(HeaderStr(c)) > 0
<1> DEFINE s == c.method.service
           t == c.method.name
           n == Len(ArgsStr(c))
           e == <<>>
           m == RpcHeaderOf(s, t, n, e)
<1>1. s \in Visible(1) /\ Len(s) = 1 /\ t \in Visible(1) /\ Len(t) = 1
  BY MethodsAre DEF IsCall
<1>2. n \in 0..9
  <2>1. ArgsStr(c) \in Bytes /\ n \in Nat /\ n <= 9
    BY BytesAre DEF IsCall, Visible
  <2> HIDE DEF n
  <2> QED
    BY <2>1
<1>3. n \in Counts \union {0} /\ n \in Int32
  <2> HIDE DEF n
  <2>1. n \in Int32
    BY <1>2, SMT DEF Int32
  <2>2. n = 0 \/ n \in 1..127
    BY <1>2
  <2> QED
    BY <2>1, <2>2 DEF Counts
<1>4. RpcHeaderFor(c) = m
  <2> DEFINE r == RpcHeaderOf(s, e, 0, e)
             q == RpcHeaderOf(s, t, 0, e)
  <2>5. RpcHeaderFor(c) = [RpcHeader EXCEPT !.servicename = s, !.methodname = t, !.argssize = n]
    BY Zenon DEF RpcHeaderFor, ArgsStr
  <2> HIDE DEF s, t, n
  <2>1. [RpcHeader EXCEPT !.servicename = s] = r
    BY DEF RpcHeader, RpcHeaderOf
  <2>2. [r EXCEPT !.methodname = t] = q
    BY DEF RpcHeaderOf
  <2>3. [q EXCEPT !.argssize = n] = m
    BY DEF RpcHeaderOf
  <2> HIDE DEF e, r, q, m
  <2> DEFINE made == [RpcHeader EXCEPT !.servicename = s, !.methodname = t, !.argssize = n]
  <2>4. made = [[[RpcHeader EXCEPT !.servicename = s] EXCEPT !.methodname = t] EXCEPT !.argssize = n]
    OBVIOUS
  <2>6. RpcHeaderFor(c) = made
    BY <2>5
  <2> HIDE DEF made
  <2> QED
    BY <2>1, <2>2, <2>3, <2>4, <2>6
<1>5. s \in Strings /\ t \in Strings /\ e \in Strange(RpcHeader_InternalParse)
  <2> HIDE DEF s, t
  <2>1. 1 \in 0..100
    OBVIOUS
  <2> QED
    BY <1>1, <2>1, VisibleFits, NothingStrange
<1> HIDE DEF s, t, n
<1>6. m \in RpcHeaders
  BY <1>3, <1>5 DEF RpcHeaderOf, RpcHeaders
<1>7. m.type = "RpcHeader" /\ m.servicename = s /\ m.methodname = t /\ m.argssize = n /\ m.unknown = e
  BY DEF RpcHeaderOf
<1> DEFINE a == When(Len(s) > 0, WriteBytes(1, s))
           b == When(Len(t) > 0, WriteBytes(2, t))
           d == When(n # 0, WriteUInt32(3, n))
<1>8. a \in Visible(3) /\ Len(a) > 0 /\ b \in Visible(3) /\ d \in Visible(3)
  <2>1. 1 \in 0..100 /\ 1 + 2 = 3 /\ 1 \in 1..3 /\ 2 \in 1..3 /\ 3 \in 1..3 /\ Len(s) > 0 /\ Len(t) > 0
    BY <1>1
  <2>2. a \in Visible(3) /\ Len(a) > 0
    <3>1. a \in Visible(1 + 2) /\ Len(a) > 0
      BY <1>1, <2>1, VisibleText
    <3> QED
      BY <2>1, <3>1
  <2>3. b \in Visible(3)
    <3>1. b \in Visible(1 + 2)
      BY <1>1, <2>1, VisibleText
    <3> QED
      BY <2>1, <3>1
  <2>4. d \in Visible(3)
    BY <1>3, <2>1, VisibleNumber
  <2> QED
    BY <2>2, <2>3, <2>4
<1>9. SerializeToString(m) = ((a \o b) \o d) \o e
  <2> HIDE DEF m, e
  <2>1. SerializeToString(m) = RpcHeader_InternalSerialize(m)
    BY <1>7 DEF SerializeToString
  <2> QED
    BY <1>7, <2>1, Zenon DEF RpcHeader_InternalSerialize
<1> HIDE DEF a, b, d, m
<1>10. /\ (a \o b) \o d \in Visible(9)
       /\ Len((a \o b) \o d) = Len(a) + Len(b) + Len(d)
  BY <1>8, VisibleFields
<1>11. ((a \o b) \o d) \o e = (a \o b) \o d
  <2>1. 9 \in Nat
    OBVIOUS
  <2> QED
    BY <1>10, <2>1, NothingBehind
<1>12. Len((a \o b) \o d) > 0
  <2>1. Len(b) \in Nat /\ Len(d) \in Nat /\ Len(a) \in Nat
    BY <1>8, BytesAre DEF Visible
  <2> QED
    BY <1>8, <1>10, <2>1
<1>13. HeaderStr(c) = SerializeToString(m)
  BY <1>4, Zenon DEF HeaderStr
<1> QED
  BY <1>4, <1>6, <1>9, <1>10, <1>11, <1>12, <1>13 DEF m, s, t, n, e

(* A frame: the size of its header, the header and the request.            *)
LEMMA FrameIs ==
  ASSUME NEW c, IsCall(c)
  PROVE  LET h == HeaderStr(c)
             a == ArgsStr(c)
         IN /\ h \in Bytes /\ a \in Bytes /\ Len(h) \in 1..9 /\ Len(a) \in 0..9
            /\ Frame(c) = (UInt32(Len(h)) \o h) \o a
            /\ Frame(c) \in Bytes /\ Len(Frame(c)) = 4 + Len(h) + Len(a)
            /\ Frame(c) \in Frames /\ UInt32(Len(h)) \in Bytes /\ Len(UInt32(Len(h))) = 4
            /\ Frame(c)[1] = Len(h)
<1> DEFINE h == HeaderStr(c)
           a == ArgsStr(c)
           k == Len(h)
           l == Len(a)
           f == (UInt32(k) \o h) \o a
<1>1. /\ h \in Bytes /\ a \in Bytes /\ k \in 1..9 /\ l \in 0..9
      /\ \A i \in 1..k : h[i] \in 1..254
      /\ \A i \in 1..l : a[i] \in 1..254
  <2>1. h \in Visible(9) /\ a \in Visible(9) /\ Len(h) > 0
    BY HeaderIs DEF IsCall
  <2>2. h \in Bytes /\ a \in Bytes /\ k \in Nat /\ l \in Nat /\ k <= 9 /\ l <= 9 /\ k > 0
        /\ (\A i \in 1..k : h[i] \in 1..254) /\ \A i \in 1..l : a[i] \in 1..254
    BY <2>1, BytesAre DEF Visible
  <2> HIDE DEF h, a, k, l
  <2> QED
    BY <2>2
<1>2. Frame(c) = f
  BY ZenonT(40) DEF Frame, HeaderStr, RpcHeaderFor, ArgsStr
<1> DEFINE u == UInt32(k)
<1> HIDE DEF h, a
<1>3. u \in Bytes /\ Len(u) = 4 /\ u[1] = k /\ u[2] = 0 /\ u[3] = 0 /\ u[4] = 0
  <2>1. k \in 0..255
    <3> HIDE DEF k
    <3> QED
      BY <1>1
  <2> QED
    BY <2>1, SmallNumber, Zenon
<1> HIDE DEF u
<1> DEFINE uh == u \o h
<1>4. /\ uh \in Bytes /\ Len(uh) = 4 + k
      /\ \A i \in 1..4 : uh[i] = u[i]
      /\ \A i \in 1..k : uh[4 + i] = h[i]
  <2>1. /\ uh \in Bytes /\ Len(uh) = Len(u) + k
        /\ \A i \in 1..Len(u) : uh[i] = u[i]
        /\ \A i \in 1..k : uh[Len(u) + i] = h[i]
    BY <1>1, <1>3, BytesJoined
  <2> HIDE DEF uh
  <2> QED
    BY <1>3, <2>1
<1> HIDE DEF uh
<1> DEFINE g == uh \o a
<1>5. /\ g \in Bytes /\ Len(g) = 4 + k + l
      /\ \A i \in 1..(4 + k) : g[i] = uh[i]
      /\ \A i \in 1..l : g[(4 + k) + i] = a[i]
  <2>1. /\ g \in Bytes /\ Len(g) = Len(uh) + l
        /\ \A i \in 1..Len(uh) : g[i] = uh[i]
        /\ \A i \in 1..l : g[Len(uh) + i] = a[i]
    BY <1>1, <1>4, BytesJoined
  <2> HIDE DEF g
  <2> QED
    BY <1>4, <2>1
<1>6. f = g
  BY Zenon DEF u, uh
<1> HIDE DEF g, f, k, l
<1>7. g[1] = k /\ g[2] = 0 /\ g[3] = 0 /\ g[4] = 0
  <2>1. 1 \in 1..4 /\ 2 \in 1..4 /\ 3 \in 1..4 /\ 4 \in 1..4
        /\ 1 \in 1..(4 + k) /\ 2 \in 1..(4 + k) /\ 3 \in 1..(4 + k) /\ 4 \in 1..(4 + k)
    BY <1>1
  <2> QED
    BY <1>3, <1>4, <1>5, <2>1
<1>8. ASSUME NEW i \in 5..(4 + k + l) PROVE g[i] \in 1..254
  <2>1. CASE i <= 4 + k
    <3>1. i - 4 \in 1..k /\ i \in 1..(4 + k) /\ 4 + (i - 4) = i
      BY <1>1, <2>1
    <3>2. uh[4 + (i - 4)] = h[i - 4] /\ g[i] = uh[i] /\ h[i - 4] \in 1..254
      BY <1>1, <1>4, <1>5, <3>1
    <3> QED
      BY <3>1, <3>2
  <2>2. CASE i > 4 + k
    <3>1. i - (4 + k) \in 1..l /\ (4 + k) + (i - (4 + k)) = i
      BY <1>1, <2>2
    <3>2. g[(4 + k) + (i - (4 + k))] = a[i - (4 + k)] /\ a[i - (4 + k)] \in 1..254
      BY <1>1, <1>5, <3>1
    <3> QED
      BY <3>1, <3>2
  <2> QED
    BY <1>1, <2>1, <2>2
<1>9. g \in Frames
  <2>1. 5 <= 4 + k + l /\ 4 + k + l < 100 /\ k \in 1..254
    BY <1>1
  <2> QED
    BY <1>5, <1>7, <1>8, <2>1 DEF Frames
<1>10. Frame(c) = g
  BY <1>2, <1>6
<1>11. g = (UInt32(k) \o h) \o a
  BY Zenon DEF g, uh, u
<1>12. /\ h \in Bytes /\ a \in Bytes /\ k \in 1..9 /\ l \in 0..9
       /\ Frame(c) = (UInt32(k) \o h) \o a
       /\ Frame(c) \in Bytes /\ Len(Frame(c)) = 4 + k + l
       /\ Frame(c) \in Frames /\ UInt32(k) \in Bytes /\ Len(UInt32(k)) = 4
       /\ Frame(c)[1] = k
  BY <1>1, <1>3, <1>5, <1>7, <1>9, <1>10, <1>11 DEF u
<1> QED
  BY <1>12 DEF h, a, k, l

-----------------------------------------------------------------------------
(* What a segment leaves                                                   *)

(* How a leftover is recognised.                                           *)
LEMMA LeftoverIs ==
  ASSUME NEW t \in Bytes, NEW l, Len(t) = l, l < 100, NEW z \in 0..3,
         \A i \in 1..z : i <= l => t[i] = 0,
         \A i \in (z + 1)..l : t[i] \in 1..254
  PROVE  t \in Leftovers
  BY ZenonT(40) DEF Leftovers

(* What is left of a leftover is one.                                      *)
LEMMA RestOfLeftover ==
  ASSUME NEW t \in Leftovers, NEW n \in 0..Len(t)
  PROVE  SubSeq(t, n + 1, Len(t)) \in Leftovers
<1> DEFINE r == SubSeq(t, n + 1, Len(t))
           l == Len(t)
<1>1. PICK z \in 0..3 :
         /\ \A i \in 1..z : i <= l => t[i] = 0
         /\ \A i \in (z + 1)..l : t[i] \in 1..254
  BY DEF Leftovers
<1>2. t \in Bytes /\ l \in Nat /\ l < 100
  BY BytesAre DEF Leftovers
<1>3. r \in Bytes /\ Len(r) = l - n /\ \A i \in 1..(l - n) : r[i] = t[n + i]
  <2> HIDE DEF l
  <2>1. n + 1 \in Nat /\ l \in Nat /\ 1 <= n + 1 /\ l <= l /\ n + 1 <= l + 1 /\ l - (n + 1) + 1 = l - n
    BY <1>2, SMTT(30) DEF l
  <2>2. /\ r \in Bytes /\ Len(r) = l - (n + 1) + 1
        /\ \A i \in 1..(l - (n + 1) + 1) : r[i] = t[(n + 1) + i - 1]
    BY <1>2, <2>1, Part DEF l
  <2>3. \A i \in 1..(l - n) : (n + 1) + i - 1 = n + i
    BY <1>2
  <2> QED
    BY <2>1, <2>2, <2>3
<1> HIDE DEF r, l
<1> DEFINE y == IF n < z THEN z - n ELSE 0
<1>4. n \in 0..l /\ y \in 0..3
  BY <1>2 DEF l
<1>5. \A i \in 1..y : i <= l - n => r[i] = 0
  <2> SUFFICES ASSUME NEW i \in 1..y, i <= l - n PROVE r[i] = 0
    OBVIOUS
  <2>1. n + i \in 1..z /\ n + i <= l /\ i \in 1..(l - n)
    BY <1>2, <1>4
  <2> QED
    BY <1>1, <1>3, <2>1
<1>6. \A i \in (y + 1)..(l - n) : r[i] \in 1..254
  <2> SUFFICES ASSUME NEW i \in (y + 1)..(l - n) PROVE r[i] \in 1..254
    OBVIOUS
  <2>1. n + i \in (z + 1)..l /\ i \in 1..(l - n)
    BY <1>2, <1>4
  <2> QED
    BY <1>1, <1>3, <2>1
<1>7. l - n < 100
  BY <1>2, <1>4
<1> HIDE DEF y
<1>8. r \in Leftovers
  BY <1>3, <1>4, <1>5, <1>6, <1>7, LeftoverIs, Zenon
<1> QED
  BY <1>8 DEF r

(* What is left of a frame of which something has been read.               *)
LEMMA RestOfFrame ==
  ASSUME NEW t \in Frames, NEW n \in 1..Len(t)
  PROVE  SubSeq(t, n + 1, Len(t)) \in Leftovers
<1> DEFINE r == SubSeq(t, n + 1, Len(t))
           l == Len(t)
<1>1. t[2] = 0 /\ t[3] = 0 /\ t[4] = 0 /\ \A i \in 5..l : t[i] \in 1..254
  BY DEF Frames
<1>2. t \in Bytes /\ l \in Nat /\ l < 100
  BY BytesAre DEF Frames
<1>3. r \in Bytes /\ Len(r) = l - n /\ \A i \in 1..(l - n) : r[i] = t[n + i]
  <2> HIDE DEF l
  <2>1. n + 1 \in Nat /\ l \in Nat /\ 1 <= n + 1 /\ l <= l /\ n + 1 <= l + 1 /\ l - (n + 1) + 1 = l - n
    BY <1>2, SMTT(30) DEF l
  <2>2. /\ r \in Bytes /\ Len(r) = l - (n + 1) + 1
        /\ \A i \in 1..(l - (n + 1) + 1) : r[i] = t[(n + 1) + i - 1]
    BY <1>2, <2>1, Part DEF l
  <2>3. \A i \in 1..(l - n) : (n + 1) + i - 1 = n + i
    BY <1>2
  <2> QED
    BY <2>1, <2>2, <2>3
<1> HIDE DEF r, l
<1> DEFINE y == IF n < 4 THEN 4 - n ELSE 0
<1>4. n \in 1..l /\ y \in 0..3
  BY <1>2 DEF l
<1>5. \A i \in 1..y : i <= l - n => r[i] = 0
  <2> SUFFICES ASSUME NEW i \in 1..y, i <= l - n PROVE r[i] = 0
    OBVIOUS
  <2>1. (n + i = 2 \/ n + i = 3 \/ n + i = 4) /\ i \in 1..(l - n)
    BY <1>2, <1>4
  <2> QED
    BY <1>1, <1>3, <2>1
<1>6. \A i \in (y + 1)..(l - n) : r[i] \in 1..254
  <2> SUFFICES ASSUME NEW i \in (y + 1)..(l - n) PROVE r[i] \in 1..254
    OBVIOUS
  <2>1. n + i \in 5..l /\ i \in 1..(l - n)
    BY <1>2, <1>4
  <2> QED
    BY <1>1, <1>3, <2>1
<1>7. l - n < 100
  BY <1>2, <1>4
<1> HIDE DEF y
<1>8. r \in Leftovers
  BY <1>3, <1>4, <1>5, <1>6, <1>7, LeftoverIs, Zenon
<1> QED
  BY <1>8 DEF r

(* What is left of two strings: all of the second, or a part of it.        *)
LEMMA RestOfBoth ==
  ASSUME NEW t \in Bytes, NEW f \in Bytes
  PROVE  /\ \A n \in 0..Len(t) :
               SubSeq(t \o f, n + 1, Len(t \o f)) = SubSeq(t, n + 1, Len(t)) \o f
         /\ \A n \in 0..Len(f) :
               SubSeq(t \o f, Len(t) + n + 1, Len(t \o f)) = SubSeq(f, n + 1, Len(f))
<1>1. ASSUME NEW n \in 0..Len(t)
      PROVE  SubSeq(t \o f, n + 1, Len(t \o f)) = SubSeq(t, n + 1, Len(t)) \o f
  <2> DEFINE p == SubSeq(t, 1, n)
             q == SubSeq(t, n + 1, Len(t))
  <2>1. p \in Bytes /\ Len(p) = n /\ q \in Bytes /\ t = p \o q
    BY Cut
  <2> HIDE DEF p, q
  <2>2. t \o f = p \o (q \o f)
    BY <2>1, Joins
  <2>3. q \o f \in Bytes
    BY <2>1, BytesJoined
  <2> DEFINE r == q \o f
  <2> HIDE DEF r
  <2>4. SubSeq(p \o r, Len(p) + 1, Len(p \o r)) = r
    BY <2>1, <2>3, CutBehind DEF r
  <2> QED
    BY <2>1, <2>2, <2>4 DEF r, q
<1>2. ASSUME NEW n \in 0..Len(f)
      PROVE  SubSeq(t \o f, Len(t) + n + 1, Len(t \o f)) = SubSeq(f, n + 1, Len(f))
  <2> DEFINE p == SubSeq(f, 1, n)
             q == SubSeq(f, n + 1, Len(f))
  <2>1. p \in Bytes /\ Len(p) = n /\ q \in Bytes /\ f = p \o q
    BY Cut
  <2> HIDE DEF p, q
  <2>2. t \o f = (t \o p) \o q
    BY <2>1, Joins
  <2>3. t \o p \in Bytes /\ Len(t \o p) = Len(t) + n
    BY <2>1, BytesJoined
  <2> DEFINE r == t \o p
  <2> HIDE DEF r
  <2>4. SubSeq(r \o q, Len(r) + 1, Len(r \o q)) = q
    BY <2>1, <2>3, CutBehind DEF r
  <2> QED
    BY <2>1, <2>2, <2>3, <2>4 DEF r, q
<1> QED
  BY <1>1, <1>2

(* The ways that lead to no service.                                       *)
IsLost(way) == way \in {Way("throws"), Way("returns")}

(* Read from within a frame, the size of a header is one that nothing fits *)
(* into: the bytes at places where the size of a frame has zeros are none. *)
LEMMA Misaligned ==
  ASSUME NEW t \in Leftovers, t # <<>>, NEW f \in Frames \union {<<>>}, NEW n \in 1..Len(t \o f)
  PROVE  IsLost(WayOf(SubSeq(t \o f, 1, n)))
<1> DEFINE s == t \o f
           p == SubSeq(s, 1, n)
           l == Len(t)
           k == Len(f)
<1>1. t \in Bytes /\ f \in Bytes /\ l \in Nat /\ l < 100 /\ k \in Nat /\ k < 100
  <2>1. f \in Bytes /\ k < 100
    <3>1. CASE f \in Frames
      BY <3>1 DEF Frames
    <3>2. CASE f = <<>>
      BY <3>2, Joins
    <3> QED
      BY <3>1, <3>2
  <2>2. t \in Bytes /\ l < 100
    BY DEF Leftovers
  <2> HIDE DEF l, k
  <2> QED
    BY <2>1, <2>2, BytesAre DEF l, k
<1>2. l >= 1
  <2>1. t \in Seq(0..255)
    BY <1>1 DEF Bytes
  <2>2. l # 0
    BY <2>1, EmptySeq
  <2> HIDE DEF l
  <2> QED
    BY <1>1, <2>2
<1>3. /\ s \in Bytes /\ Len(s) = l + k
      /\ \A i \in 1..l : s[i] = t[i]
      /\ \A i \in 1..k : s[l + i] = f[i]
  BY <1>1, BytesJoined
<1>4. p \in Bytes /\ Len(p) = n /\ n <= 198 /\ \A i \in 1..n : p[i] = s[i]
  <2> HIDE DEF l, k
  <2>1. n \in Nat /\ n <= l + k
    BY <1>1, <1>3
  <2> HIDE DEF s
  <2>2. 1 \in Nat /\ 1 <= 1 /\ n <= Len(s) /\ 1 <= n + 1 /\ n - 1 + 1 = n
    BY <1>3, <2>1
  <2>3. /\ p \in Bytes /\ Len(p) = n - 1 + 1
        /\ \A i \in 1..(n - 1 + 1) : p[i] = s[1 + i - 1]
    BY <1>3, <2>1, <2>2, Part
  <2>4. \A i \in 1..n : 1 + i - 1 = i
    BY <2>1
  <2>5. n <= 198
    BY <1>1, <2>1
  <2> QED
    BY <2>2, <2>3, <2>4, <2>5
<1>5. PICK z \in 0..3 :
         /\ \A i \in 1..z : i <= l => t[i] = 0
         /\ \A i \in (z + 1)..l : t[i] \in 1..254
  BY DEF Leftovers
<1>6. f # <<>> => f[1] \in 1..254 /\ f[2] = 0 /\ f[3] = 0 /\ f[4] = 0 /\ 4 <= k
  <2>1. f # <<>> => f \in Frames
    OBVIOUS
  <2>2. f \in Frames => 5 <= k
    BY DEF Frames
  <2> HIDE DEF k
  <2> QED
    BY <1>1, <2>1, <2>2 DEF Frames
<1>7. f = <<>> => k = 0
  BY DEF k
<1>8. n <= l + k
  <2> HIDE DEF s, l, k
  <2>1. n \in 1..Len(s)
    BY DEF s
  <2> QED
    BY <1>1, <1>3, <2>1
<1> HIDE DEF s, p, l, k
<1>9. ASSUME n >= 4 PROVE ~ArgsInside(p)
  <2>1. \A i \in 1..4 : p[i] \in 0..255 /\ p[i] = s[i]
    <3>1. \A i \in 1..4 : i \in 1..n
      BY <1>9
    <3> QED
      BY <1>4, <3>1, BytesAre
  <2>2. \/ p[4] \in 1..254
        \/ p[4] = 0 /\ p[3] \in 1..254
        \/ p[4] = 0 /\ p[3] = 0 /\ p[2] \in 1..254
    <3>1. CASE l >= 4
      <4>1. 4 \in (z + 1)..l /\ 4 \in 1..l /\ 4 \in 1..4
        BY <1>1, <3>1
      <4>2. t[4] \in 1..254 /\ s[4] = t[4] /\ p[4] = s[4]
        BY <1>3, <1>5, <2>1, <4>1
      <4> QED
        BY <4>2
    <3>2. CASE l < 4
      <4>1. f # <<>>
        BY <1>1, <1>7, <1>8, <1>9, <3>2
      <4>2. l = 1 \/ l = 2 \/ l = 3
        BY <1>1, <1>2, <3>2
      <4>3. s[l + 1] \in 1..254 /\ s[l + 2] = 0 /\ s[l + 3] = 0
        <5>1. 1 \in 1..k /\ 2 \in 1..k /\ 3 \in 1..k
          BY <1>1, <1>6, <4>1
        <5> QED
          BY <1>3, <1>6, <4>1, <5>1
      <4>4. p[2] = s[2] /\ p[3] = s[3] /\ p[4] = s[4]
        BY <2>1
      <4>5. CASE l = 3
        <5>1. s[4] \in 1..254
          BY <4>3, <4>5
        <5> QED
          BY <4>4, <5>1
      <4>6. CASE l = 2
        <5>1. s[3] \in 1..254 /\ s[4] = 0
          BY <4>3, <4>6
        <5> QED
          BY <4>4, <5>1
      <4>7. CASE l = 1
        <5>1. s[2] \in 1..254 /\ s[3] = 0 /\ s[4] = 0
          BY <4>3, <4>7
        <5> QED
          BY <4>4, <5>1
      <4> QED
        BY <4>2, <4>5, <4>6, <4>7
    <3> QED
      BY <1>1, <3>1, <3>2
  <2> DEFINE a == p[1]
             b == p[2]
             c == p[3]
             d == p[4]
  <2>3. a \in 0..255 /\ b \in 0..255 /\ c \in 0..255 /\ d \in 0..255
    BY <2>1
  <2>4. d \in 1..254 \/ (d = 0 /\ c \in 1..254) \/ (d = 0 /\ c = 0 /\ b \in 1..254)
    BY <2>2
  <2>5. UInt32At(p) = a + 256 * b + 65536 * c + 16777216 * (IF d < 128 THEN d ELSE d - 256)
    BY SMT DEF UInt32At
  <2> HIDE DEF a, b, c, d
  <2>6. ~(UInt32At(p) \in -4..(n - 4))
    <3>1. n \in 4..198
      BY <1>4, <1>9
    <3> QED
      BY <2>3, <2>4, <2>5, <3>1, SMT
  <2> QED
    BY <1>4, <2>6 DEF ArgsInside
<1>10. ASSUME n < 4 PROVE IsLost(WayOf(p))
  BY <1>4, <1>10 DEF WayOf, IsLost
<1>11. ASSUME n >= 4 PROVE IsLost(WayOf(p))
  <2> DEFINE parsed == ParseFromString(RpcHeader, Substr(p, 4, UInt32At(p)))
  <2>1. WayOf(p) = HeaderParsed(p, parsed)
    <3>1. ~(Len(p) < 4)
      BY <1>4, <1>11
    <3> QED
      BY <3>1, Zenon DEF WayOf
  <2> HIDE DEF parsed
  <2>2. IsLost(HeaderParsed(p, parsed))
    BY <1>9, <1>11 DEF HeaderParsed, IsLost
  <2> QED
    BY <2>1, <2>2
<1>12. IsLost(WayOf(p))
  <2>1. n \in Nat
    BY <1>4, BytesAre
  <2> QED
    BY <1>10, <1>11, <2>1
<1> QED
  BY <1>12 DEF p, s

-----------------------------------------------------------------------------
(* A frame read from its beginning                                         *)

MethodsOf(service) == {service.method[i] : i \in DOMAIN service.method}

(* The methods of a service are methods, and carry its name.               *)
LEMMA ServicesAre ==
  ASSUME NEW s \in {UserServiceRpc, FriendServiceRpc}
  PROVE  /\ MethodsOf(s) \subseteq Methods /\ \A m \in MethodsOf(s) : m.service = s.name
         /\ \A m \in Methods : m.service = s.name => m \in MethodsOf(s)
<1>1. /\ DOMAIN UserServiceRpc.method = {1, 2} /\ DOMAIN FriendServiceRpc.method = {1}
      /\ UserServiceRpc.method[1].service = UserServiceRpc.name
      /\ UserServiceRpc.method[2].service = UserServiceRpc.name
      /\ FriendServiceRpc.method[1].service = FriendServiceRpc.name
      /\ UserServiceRpc.name # FriendServiceRpc.name
  BY DEF UserServiceRpc, FriendServiceRpc
<1>2. /\ MethodsOf(UserServiceRpc) = {UserServiceRpc.method[1], UserServiceRpc.method[2]}
      /\ MethodsOf(FriendServiceRpc) = {FriendServiceRpc.method[1]}
  BY <1>1 DEF MethodsOf
<1>3. CASE s = UserServiceRpc
  BY <1>1, <1>2, <1>3 DEF Methods
<1>4. CASE s = FriendServiceRpc
  BY <1>1, <1>2, <1>4 DEF Methods
<1> QED
  BY <1>3, <1>4

(* The provider's table finds the methods of its service, and no others.   *)
LEMMA TableFinds ==
  ASSUME NEW s \in {UserServiceRpc, FriendServiceRpc}, serviceMap = MapOf(s), NEW m \in Methods,
         NEW h, h.servicename = m.service, h.methodname = m.name
  PROVE  /\ IsKnown(h) <=> m \in MethodsOf(s)
         /\ m \in MethodsOf(s) => serviceMap[m.service][m.name] = m
<1> DEFINE M == MethodsOf(s)
           T == MethodMap(s)
<1>1. DOMAIN serviceMap = {s.name} /\ serviceMap[s.name] = T
  BY DEF MapOf
<1>2. /\ DOMAIN T = {x.name : x \in M}
      /\ \A n \in {x.name : x \in M} : T[n] = CHOOSE x \in M : x.name = n
  <2>1. {s.method[i].name : i \in DOMAIN s.method} = {x.name : x \in M}
    BY DEF MethodsOf
  <2>2. T = [n \in {x.name : x \in M} |-> CHOOSE x \in M : x.name = n]
    BY <2>1, Zenon DEF MethodMap, MethodsOf
  <2> HIDE DEF T, M
  <2> QED
    BY <2>2
<1>3. M \subseteq Methods /\ \A x \in M : x.service = s.name
  BY ServicesAre
<1>4. m.service = s.name => m \in M
  BY ServicesAre
<1> HIDE DEF M, T
<1>5. \A x, y \in Methods : x.service = y.service /\ x.name = y.name => x = y
  BY MethodsAre
<1>6. ASSUME m \in M PROVE serviceMap[m.service][m.name] = m /\ m.service \in DOMAIN serviceMap
                           /\ m.name \in DOMAIN serviceMap[m.service]
  <2>1. m.service = s.name /\ m.name \in {x.name : x \in M}
    BY <1>3, <1>6
  <2>2. T[m.name] = CHOOSE x \in M : x.name = m.name
    BY <1>2, <2>1
  <2> DEFINE x == CHOOSE x \in M : x.name = m.name
  <2>3. x \in M /\ x.name = m.name
    BY <1>6
  <2> HIDE DEF x
  <2>4. x = m
    BY <1>3, <1>5, <1>6, <2>3
  <2> QED
    BY <1>1, <1>2, <2>1, <2>2, <2>4 DEF x
<1>7. IsKnown(h) <=> m.service \in DOMAIN serviceMap /\ m.name \in DOMAIN serviceMap[m.service]
  BY Zenon DEF IsKnown
<1>8. m.service \in DOMAIN serviceMap => m \in M
  BY <1>1, <1>4
<1> QED
  BY <1>6, <1>7, <1>8 DEF M

(* What stands between two strings.                                        *)
LEMMA Middle ==
  ASSUME NEW u \in Bytes, NEW h \in Bytes, NEW x \in Bytes
  PROVE  SubSeq((u \o h) \o x, Len(u) + 1, Len(u) + Len(h)) = h
<1> DEFINE hx == h \o x
           s == u \o hx
           a == Len(u)
           b == Len(h)
           r == SubSeq(s, a + 1, a + b)
<1>1. hx \in Bytes /\ Len(hx) = b + Len(x) /\ \A i \in 1..b : hx[i] = h[i]
  BY BytesJoined
<1>2. a \in Nat /\ b \in Nat /\ Len(x) \in Nat
  BY BytesAre
<1>3. (u \o h) \o x = s
  BY Joins
<1> HIDE DEF hx
<1>4. s \in Bytes /\ Len(s) = a + Len(hx) /\ \A i \in 1..Len(hx) : s[a + i] = hx[i]
  BY <1>1, BytesJoined
<1> HIDE DEF s, a, b
<1>5. r \in Bytes /\ Len(r) = b /\ \A i \in 1..b : r[i] = s[a + i]
  <2>1. a + 1 \in Nat /\ a + b \in Nat /\ 1 <= a + 1 /\ a + b <= Len(s) /\ a + 1 <= (a + b) + 1
        /\ (a + b) - (a + 1) + 1 = b
    BY <1>1, <1>2, <1>4
  <2>2. /\ r \in Bytes /\ Len(r) = (a + b) - (a + 1) + 1
        /\ \A i \in 1..((a + b) - (a + 1) + 1) : r[i] = s[(a + 1) + i - 1]
    BY <1>4, <2>1, Part
  <2>3. \A i \in 1..b : (a + 1) + i - 1 = a + i
    BY <1>2
  <2> QED
    BY <2>1, <2>2, <2>3
<1> HIDE DEF r
<1>6. \A i \in 1..Len(r) : r[i] = h[i]
  <2>1. \A i \in 1..b : i \in 1..Len(hx)
    BY <1>1, <1>2
  <2> QED
    BY <1>1, <1>4, <1>5, <2>1
<1>7. r \in Seq(0..255) /\ h \in Seq(0..255) /\ Len(r) = Len(h)
  BY <1>5 DEF Bytes, b
<1>8. r = h
  BY <1>6, <1>7, SeqEqual
<1> QED
  BY <1>3, <1>8 DEF r, a, b

(* Read from its beginning, a frame is lost when its header is not all     *)
(* there, and passed over when it names no method of the provider;         *)
(* otherwise its method is found, and what there is of the request is      *)
(* parsed.                                                                 *)
LEMMA Aligned ==
  ASSUME NEW c, IsCall(c), NEW n \in 1..Len(Frame(c)),
         deployment.service \in {UserServiceRpc, FriendServiceRpc},
         serviceMap = MapOf(deployment.service)
  PROVE  LET p == SubSeq(Frame(c), 1, n)
             k == Len(HeaderStr(c))
         IN IF n < 4 + k THEN IsLost(WayOf(p))
            ELSE IF c.method \notin Known THEN WayOf(p) = Way("returns")
            ELSE WayOf(p) = RequestFor(c.method, SubSeq(ArgsStr(c), 1, n - (4 + k)))
<1> DEFINE f == Frame(c)
           h == HeaderStr(c)
           a == ArgsStr(c)
           k == Len(h)
           l == Len(a)
           u == UInt32(k)
           p == SubSeq(f, 1, n)
           parsed == ParseFromString(RpcHeader, Substr(p, 4, UInt32At(p)))
           H == RpcHeaderFor(c)
<1>1. /\ h \in Bytes /\ a \in Bytes /\ k \in 1..9 /\ l \in 0..9
      /\ f = (u \o h) \o a /\ f \in Bytes /\ Len(f) = 4 + k + l
      /\ u \in Bytes /\ Len(u) = 4 /\ f \in Frames /\ f[1] = k
  BY FrameIs
<1>2. /\ ParseFromString(RpcHeader, h) = Begin(H)
      /\ H.servicename = c.method.service /\ H.methodname = c.method.name /\ H.argssize = l
  <2>1. /\ H = RpcHeaderOf(c.method.service, c.method.name, l, <<>>) /\ H \in RpcHeaders
    BY HeaderIs
  <2>2. H.type = "RpcHeader" /\ RpcHeader \in AnyMessage /\ H \in AnyMessage /\ RpcHeader.type = "RpcHeader"
    BY <2>1, DefaultsAre DEF RpcHeaders, AnyMessage
  <2>3. ParseFromString(RpcHeader, SerializeToString(H)) = Begin(H)
    BY <2>2, MessagesAgree
  <2>4. h = SerializeToString(H)
    BY Zenon DEF HeaderStr
  <2> HIDE DEF H, h
  <2> QED
    BY <2>1, <2>3, <2>4 DEF RpcHeaderOf
<1>3. n \in Nat /\ n <= 4 + k + l
  <2> HIDE DEF f, k, l
  <2>1. n \in 1..Len(f)
    BY DEF f
  <2> QED
    BY <1>1, <2>1
<1> HIDE DEF f, h, a, k, l, u, H
<1>4. p \in Bytes /\ Len(p) = n /\ \A i \in 1..n : p[i] = f[i]
  <2>1. 1 \in Nat /\ 1 <= 1 /\ n <= Len(f) /\ 1 <= n + 1 /\ n - 1 + 1 = n
    BY <1>1, <1>3
  <2>2. /\ p \in Bytes /\ Len(p) = n - 1 + 1
        /\ \A i \in 1..(n - 1 + 1) : p[i] = f[1 + i - 1]
    BY <1>1, <1>3, <2>1, Part
  <2>4. \A i \in 1..n : 1 + i - 1 = i
    BY <1>3
  <2> QED
    BY <2>1, <2>2, <2>4
<1> HIDE DEF p
<1>5. n >= 4 => UInt32At(p) = k /\ WayOf(p) = HeaderParsed(p, parsed)
  <2> SUFFICES ASSUME n >= 4 PROVE UInt32At(p) = k /\ WayOf(p) = HeaderParsed(p, parsed)
    OBVIOUS
  <2>1. 1 \in 1..n /\ 2 \in 1..n /\ 3 \in 1..n /\ 4 \in 1..n /\ ~(Len(p) < 4)
    BY <1>3, <1>4
  <2>2. p[1] = k /\ p[2] = 0 /\ p[3] = 0 /\ p[4] = 0
    BY <1>1, <1>4, <2>1 DEF Frames
  <2>3. UInt32At(p) = k
    BY <1>1, <2>2, SMT DEF UInt32At
  <2>4. WayOf(p) = HeaderParsed(p, parsed)
    BY <2>1, Zenon DEF WayOf
  <2> QED
    BY <2>3, <2>4
<1>6. ASSUME n < 4 PROVE IsLost(WayOf(p))
  BY <1>4, <1>6 DEF WayOf, IsLost
<1>7. ASSUME n >= 4, n < 4 + k PROVE IsLost(WayOf(p))
  <2>1. ~ArgsInside(p)
    BY <1>1, <1>3, <1>4, <1>5, <1>7 DEF ArgsInside
  <2> HIDE DEF parsed
  <2>2. IsLost(HeaderParsed(p, parsed))
    BY <2>1 DEF HeaderParsed, IsLost
  <2> QED
    BY <1>5, <1>7, <2>2
<1> DEFINE x == SubSeq(a, 1, n - (4 + k))
<1>8. ASSUME n >= 4 + k
      PROVE  WayOf(p) = IF IsKnown(H) THEN RequestFor(serviceMap[H.servicename][H.methodname], x)
                        ELSE Way("returns")
  <2> DEFINE y == SubSeq(a, n - (4 + k) + 1, l)
             uh == u \o h
             uhx == uh \o x
  <2>1. n - (4 + k) \in 0..l
    BY <1>1, <1>3, <1>8
  <2>2. x \in Bytes /\ Len(x) = n - (4 + k) /\ y \in Bytes /\ a = x \o y
    BY <1>1, <2>1, Cut DEF l
  <2> HIDE DEF x, y
  <2>3. uh \in Bytes /\ Len(uh) = 4 + k
    <3>1. uh \in Bytes /\ Len(uh) = Len(u) + Len(h)
      BY <1>1, BytesJoined
    <3> HIDE DEF uh
    <3> QED
      BY <1>1, <3>1 DEF k
  <2> HIDE DEF uh
  <2>4. uhx \in Bytes /\ Len(uhx) = n
    <3>1. uhx \in Bytes /\ Len(uhx) = Len(uh) + Len(x)
      BY <2>2, <2>3, BytesJoined
    <3> HIDE DEF uhx
    <3> QED
      BY <1>1, <1>3, <2>2, <2>3, <3>1
  <2>5. f = uhx \o y
    <3>1. f = uh \o a
      BY <1>1 DEF uh
    <3>2. uhx \o y = uh \o (x \o y)
      BY <2>2, <2>3, Joins
    <3> QED
      BY <2>2, <3>1, <3>2
  <2>6. p = uhx
    <3>1. SubSeq(uhx \o y, 1, Len(uhx)) = uhx
      BY <2>2, <2>4, CutBehind
    <3> QED
      BY <2>4, <2>5, <3>1 DEF p
  <2>7. SubSeq(p, 5, 4 + k) = h
    <3>1. SubSeq((u \o h) \o x, Len(u) + 1, Len(u) + Len(h)) = h
      BY <1>1, <2>2, Middle
    <3>2. 4 + 1 = 5
      OBVIOUS
    <3> QED
      BY <1>1, <2>6, <3>1, <3>2 DEF uh, k
  <2>8. SubSeq(p, 4 + k + 1, n) = x
    <3>1. SubSeq(uh \o x, Len(uh) + 1, Len(uh \o x)) = x
      BY <2>2, <2>3, CutBehind
    <3> QED
      BY <2>3, <2>4, <2>6, <3>1
  <2>9. Substr(p, 4, k) = h
    <3>1. ~(k < 0 \/ k > Len(p) - 4) /\ 4 + 1 = 5
      BY <1>1, <1>3, <1>4, <1>8
    <3> QED
      BY <2>7, <3>1 DEF Substr
  <2>10. ArgsOf(p, l) = x
    <3>1. UInt32At(p) = k
      BY <1>1, <1>3, <1>5, <1>8
    <3>2. (IF l < 0 \/ l > Len(p) - (k + 4) THEN Len(p) ELSE (k + 4) + l) = n
      BY <1>1, <1>3, <1>4, <1>8
    <3>3. (k + 4) + 1 = 4 + k + 1
      BY <1>1
    <3>4. ArgsOf(p, l) = SubSeq(p, (k + 4) + 1, n)
      BY <3>1, <3>2, Zenon DEF ArgsOf, Substr
    <3> QED
      BY <2>8, <3>3, <3>4
  <2>11. UInt32At(p) = k /\ WayOf(p) = HeaderParsed(p, parsed)
    BY <1>1, <1>3, <1>5, <1>8
  <2>12. parsed = Begin(H)
    BY <1>2, <2>9, <2>11
  <2>13. ArgsInside(p)
    BY <1>1, <1>3, <1>4, <1>8, <2>11 DEF ArgsInside
  <2>14. Begin(H).ok /\ Begin(H).msg = H
    BY DEF Begin
  <2> DEFINE b == Begin(H)
  <2>15. b.ok /\ b.msg = H /\ WayOf(p) = HeaderParsed(p, b)
    BY <2>11, <2>12, <2>14
  <2> HIDE DEF b
  <2>16. HeaderParsed(p, b)
         = IF ~IsKnown(H) THEN Way("returns")
           ELSE RequestFor(serviceMap[H.servicename][H.methodname], ArgsOf(p, H.argssize))
    BY <2>13, <2>15, Zenon DEF HeaderParsed
  <2>17. ArgsOf(p, H.argssize) = x
    BY <1>2, <2>10
  <2> QED
    BY <2>15, <2>16, <2>17
<1>9. /\ IsKnown(H) <=> c.method \in Known
      /\ c.method \in Known => serviceMap[H.servicename][H.methodname] = c.method
  <2>1. c.method \in Methods
    BY DEF IsCall
  <2>2. Known = MethodsOf(deployment.service)
    BY DEF Known, MethodsOf
  <2>3. /\ IsKnown(H) <=> c.method \in MethodsOf(deployment.service)
        /\ c.method \in MethodsOf(deployment.service)
           => serviceMap[c.method.service][c.method.name] = c.method
    BY <1>2, <2>1, TableFinds
  <2> QED
    BY <1>2, <2>2, <2>3
<1>10. IF n < 4 + k THEN IsLost(WayOf(p))
       ELSE IF c.method \notin Known THEN WayOf(p) = Way("returns")
       ELSE WayOf(p) = RequestFor(c.method, x)
  <2> HIDE DEF x
  <2>1. n < 4 \/ (n >= 4 /\ n < 4 + k) \/ n >= 4 + k
    BY <1>1, <1>3
  <2>2. CASE n < 4 \/ (n >= 4 /\ n < 4 + k)
    BY <1>1, <1>3, <1>6, <1>7, <2>2
  <2>3. CASE n >= 4 + k
    <3>1. ~(n < 4 + k)
      BY <1>1, <1>3, <2>3
    <3> QED
      BY <1>8, <1>9, <2>3, <3>1, Zenon
  <2> QED
    BY <2>1, <2>2, <2>3
<1> QED
  BY <1>10 DEF x, p, f, k, h, a

-----------------------------------------------------------------------------
(* What a request is parsed to                                             *)

(* A turn reads a field of a case, or one that is not known.               *)
LEMMA TurnHow ==
  ASSUME NEW cases, NEW s
  PROVE  \/ TurnOf(cases, s).how = AddUnknown
         \/ \E tag \in DOMAIN cases : TurnOf(cases, s).how = cases[tag]
<1> DEFINE tag == ReadVarint(s, 5)
<1>0. \A how, read, value : Turn(how, read, value).how = how
  BY DEF Turn
<1>1. CASE tag.ok /\ tag.value \in DOMAIN cases
  <2> DEFINE how == cases[tag.value]
  <2>1. TurnOf(cases, s) = ReadField(how, tag.rest)
    BY <1>1, Zenon DEF TurnOf, AtTag
  <2> HIDE DEF how, tag
  <2>2. ReadField(how, tag.rest).how = how
    BY <1>0 DEF ReadField, ReadValue, ReadString
  <2> QED
    BY <1>1, <2>1, <2>2 DEF how, tag
<1>2. CASE ~(tag.ok /\ tag.value \in DOMAIN cases)
  <2> DEFINE skipped == IF tag.ok THEN SkipField(tag.value, tag.rest) ELSE Unread
  <2>1. TurnOf(cases, s) = KeepUnknown(s, skipped)
    BY <1>2, Zenon DEF TurnOf, AtTag
  <2> HIDE DEF skipped
  <2>2. KeepUnknown(s, skipped).how = AddUnknown
    BY <1>0 DEF KeepUnknown
  <2> QED
    BY <2>1, <2>2
<1> QED
  BY <1>1, <1>2

(* A parser's answer with a message of the type.                           *)
OfType(parsed, type) ==
    \E ok, m : /\ ok \in BOOLEAN /\ parsed = [ok |-> ok, msg |-> m]
               /\ "type" \in DOMAIN m /\ m.type = type

(* A switch with fields of bytes and numbers.                              *)
IsPlain(cases) ==
    \A tag \in DOMAIN cases : cases[tag].kind \in {"number", "bytes"} /\ cases[tag].field # "type"

(* No turn changes the type of a message.                                  *)
LEMMA StoreKeeps ==
  ASSUME NEW cases, IsPlain(cases), NEW how, NEW value, NEW inner, NEW m, NEW type,
         how = AddUnknown \/ \E tag \in DOMAIN cases : how = cases[tag],
         "type" \in DOMAIN m, m.type = type
  PROVE  OfType(Store(m, how, value, inner), type)
<1>1. ASSUME NEW f, NEW v, f # "type" PROVE OfType([ok |-> TRUE, msg |-> [m EXCEPT ![f] = v]], type)
  <2> DEFINE x == [m EXCEPT ![f] = v]
  <2>1. "type" \in DOMAIN x /\ x.type = type
    BY <1>1
  <2> HIDE DEF x
  <2>2. TRUE \in BOOLEAN /\ [ok |-> TRUE, msg |-> x] = [ok |-> TRUE, msg |-> x]
    OBVIOUS
  <2>3. OfType([ok |-> TRUE, msg |-> x], type)
    BY <2>1, <2>2, Zenon DEF OfType
  <2> QED
    BY <2>3 DEF x
<1>2. CASE how = AddUnknown
  <2> DEFINE v == m.unknown \o value
             f == "unknown"
  <2>1. how.kind = "unknown"
    BY <1>2 DEF AddUnknown
  <2>2. Store(m, how, value, inner) = [ok |-> TRUE, msg |-> [m EXCEPT ![f] = v]]
    BY <2>1 DEF Store
  <2>3. f # "type"
    OBVIOUS
  <2> HIDE DEF v, f
  <2> QED
    BY <1>1, <2>2, <2>3
<1>3. ASSUME NEW tag \in DOMAIN cases, how = cases[tag] PROVE OfType(Store(m, how, value, inner), type)
  <2> DEFINE f == how.field
  <2>1. how.kind \in {"number", "bytes"} /\ f # "type"
    BY <1>3 DEF IsPlain
  <2>2. Store(m, how, value, inner) = [ok |-> TRUE, msg |-> [m EXCEPT ![f] = value]]
    BY <2>1 DEF Store
  <2> HIDE DEF f
  <2> QED
    BY <1>1, <2>1, <2>2
<1> QED
  BY <1>2, <1>3

(* An answer that is taken back keeps its message.                         *)
LEMMA Refused ==
  ASSUME NEW x, NEW p, NEW b, x = [ok |-> p, msg |-> b]
  PROVE  [x EXCEPT !.ok = FALSE] = [ok |-> FALSE, msg |-> b]
<1>1. ASSUME NEW q PROVE [[ok |-> p, msg |-> b] EXCEPT !.ok = q] = [ok |-> q, msg |-> b]
  OBVIOUS
<1>2. [[ok |-> p, msg |-> b] EXCEPT !.ok = FALSE] = [ok |-> FALSE, msg |-> b]
  BY <1>1
<1> QED
  BY <1>2, Zenon

(* Whatever it reads, and whether it succeeds or not, the parser answers   *)
(* with a message of the type it began with.                               *)
LEMMA ParseKeeps ==
  ASSUME NEW cases, IsPlain(cases), NEW m, NEW s \in Bytes, "type" \in DOMAIN m
  PROVE  OfType(ParseLoop(cases, m, s), m.type)
<1> DEFINE turns == Turns(cases, s)
           n == Len(turns)
           type == m.type
           yes == TRUE
<1>1. n \in Nat /\ \A i \in 1..n : \E r \in Bytes : turns[i] = TurnOf(cases, r)
  <2>1. turns \in Seq(AllTurns(cases))
    BY TurnsSeq
  <2> QED
    BY <2>1 DEF AllTurns
<1>2. PICK f : Folds(f, yes, Begin(m), turns) /\ Parse(yes, cases, m, s) = f[n]
  BY ParseIs
<1>3. Parse(yes, cases, m, s) = ParseLoop(cases, m, s)
  BY DEF Parse
<1> HIDE DEF turns, yes
<1> DEFINE Kept == {i \in 0..n : OfType(f[i], type)}
<1>4. 0 \in Kept
  <2>1. f[0] = [ok |-> TRUE, msg |-> m]
    BY <1>2 DEF Folds, Begin
  <2>2. OfType(f[0], type)
    BY <2>1 DEF OfType
  <2> HIDE DEF n, type
  <2> QED
    BY <1>1, <2>2
<1>5. ASSUME NEW i \in 1..n, i - 1 \in Kept PROVE i \in Kept
  <2> DEFINE before == f[i - 1]
             turn == turns[i]
             inner == IF yes THEN Inner(before.msg, turn) ELSE NoMessage
  <2>1. f[i] = Continue(before, turn, inner)
    BY <1>2 DEF Folds, After
  <2>2. OfType(before, type)
    BY <1>5
  <2>3. PICK r \in Bytes : turn = TurnOf(cases, r)
    BY <1>1
  <2>4. turn.how = AddUnknown \/ \E tag \in DOMAIN cases : turn.how = cases[tag]
    BY <2>3, TurnHow
  <2> HIDE DEF before, turn, inner, type
  <2>5. PICK ok, b : /\ ok \in BOOLEAN /\ before = [ok |-> ok, msg |-> b]
                     /\ "type" \in DOMAIN b /\ b.type = type
    BY <2>2 DEF OfType
  <2>6. OfType(Store(b, turn.how, turn.value, inner), type)
    BY <2>4, <2>5, StoreKeeps
  <2>7. OfType([before EXCEPT !.ok = FALSE], type)
    <3>4. [before EXCEPT !.ok = FALSE] = [ok |-> FALSE, msg |-> b]
      BY <2>5, Refused
    <3> DEFINE z == [before EXCEPT !.ok = FALSE]
    <3>1. z = [ok |-> FALSE, msg |-> b]
      BY <3>4
    <3>2. FALSE \in BOOLEAN
      OBVIOUS
    <3> HIDE DEF z
    <3>3. OfType(z, type)
      BY <2>5, <3>1, <3>2, Zenon DEF OfType
    <3> QED
      BY <3>3 DEF z
  <2>8. before.msg = b
    BY <2>5
  <2>9. f[i] = Store(b, turn.how, turn.value, inner) \/ f[i] = [before EXCEPT !.ok = FALSE]
    BY <2>1, <2>8, Zenon DEF Continue
  <2>10. OfType(f[i], type)
    BY <2>6, <2>7, <2>9
  <2>11. i \in 0..n
    BY <1>1
  <2> QED
    BY <2>10, <2>11
<1>6. \A i \in 0..n : i \in Kept
  <2> HIDE DEF Kept, n
  <2> QED
    BY <1>1, <1>4, <1>5, Induction
<1>7. OfType(f[n], type)
  <2> HIDE DEF n, type
  <2>1. n \in 0..n
    BY <1>1
  <2> QED
    BY <1>6, <2>1
<1> QED
  BY <1>2, <1>3, <1>7

(* A request is of the class of its method, whatever it is parsed from.    *)
LEMMA RequestType ==
  ASSUME NEW m \in Methods, NEW s \in Bytes
  PROVE  OfType(ParseFromString(GetRequestPrototype(m), s), GetRequestPrototype(m).type)
<1> DEFINE e == <<>>
<1>1. ASSUME NEW p, NEW cases, NEW c, InternalParse(p) = cases, Clear(p) = c, IsPlain(cases),
             "type" \in DOMAIN c, c.type = p.type
      PROVE  OfType(ParseFromString(p, s), p.type)
  <2>1. OfType(ParseLoop(cases, c, s), c.type)
    BY <1>1, ParseKeeps
  <2> QED
    BY <1>1, <2>1 DEF ParseFromString
<1>2. CASE m = UserServiceRpc.method[1]
  <2>1. InternalParse(LoginRequest) = LoginRequest_InternalParse /\ Clear(LoginRequest) = LoginRequest_Clear(LoginRequest)
    BY DefaultsAre DEF InternalParse, Clear
  <2>2. IsPlain(LoginRequest_InternalParse)
    BY DEF IsPlain, LoginRequest_InternalParse, AsBytes
  <2>3. LoginRequest_Clear(LoginRequest) = LoginRequestOf(e, e, e)
    BY DefaultsAre, LoginRequestCopies
  <2>4. "type" \in DOMAIN LoginRequestOf(e, e, e) /\ LoginRequestOf(e, e, e).type = "LoginRequest"
    BY DEF LoginRequestOf
  <2>5. OfType(ParseFromString(LoginRequest, s), LoginRequest.type)
    BY <1>1, <2>1, <2>2, <2>3, <2>4, DefaultsAre
  <2> QED
    BY <1>2, <2>5, PrototypesAre
<1>3. CASE m = UserServiceRpc.method[2]
  <2>1. /\ InternalParse(RegisterRequest) = RegisterRequest_InternalParse
        /\ Clear(RegisterRequest) = RegisterRequest_Clear(RegisterRequest)
    BY DefaultsAre DEF InternalParse, Clear
  <2>2. IsPlain(RegisterRequest_InternalParse)
    BY DEF IsPlain, RegisterRequest_InternalParse, AsBytes, AsNumber
  <2>3. RegisterRequest_Clear(RegisterRequest) = RegisterRequestOf(0, e, e, e)
    BY DefaultsAre, RegisterRequestCopies
  <2>4. /\ "type" \in DOMAIN RegisterRequestOf(0, e, e, e)
        /\ RegisterRequestOf(0, e, e, e).type = "RegisterRequest"
    BY DEF RegisterRequestOf
  <2>5. OfType(ParseFromString(RegisterRequest, s), RegisterRequest.type)
    BY <1>1, <2>1, <2>2, <2>3, <2>4, DefaultsAre
  <2> QED
    BY <1>3, <2>5, PrototypesAre
<1>4. CASE m = FriendServiceRpc.method[1]
  <2>1. /\ InternalParse(GetFriendListRequest) = GetFriendListRequest_InternalParse
        /\ Clear(GetFriendListRequest) = GetFriendListRequest_Clear(GetFriendListRequest)
    BY DefaultsAre DEF InternalParse, Clear
  <2>2. IsPlain(GetFriendListRequest_InternalParse)
    BY DEF IsPlain, GetFriendListRequest_InternalParse, AsNumber
  <2>3. GetFriendListRequest_Clear(GetFriendListRequest) = GetFriendListRequestOf(0, e)
    BY DefaultsAre, GetFriendListRequestCopies
  <2>4. /\ "type" \in DOMAIN GetFriendListRequestOf(0, e)
        /\ GetFriendListRequestOf(0, e).type = "GetFriendListRequest"
    BY DEF GetFriendListRequestOf
  <2>5. OfType(ParseFromString(GetFriendListRequest, s), GetFriendListRequest.type)
    BY <1>1, <2>1, <2>2, <2>3, <2>4, DefaultsAre
  <2> QED
    BY <1>4, <2>5, PrototypesAre
<1> QED
  BY <1>2, <1>3, <1>4 DEF Methods

(* What the request of a call is read as, when n of its bytes are there.   *)
ReadOf(c, n) == ParseFromString(GetRequestPrototype(c.method), SubSeq(ArgsStr(c), 1, n))

(* The calls that a service can be handed.                                 *)
ServedCalls ==
    {[method |-> m, request |-> ParseFromString(GetRequestPrototype(m), s).msg] : m \in Methods, s \in Bytes}

(* The first bytes of a frame are served, when they are, as the call whose *)
(* frame it is with what they hold of its request; a whole frame is served *)
(* with the request itself, unless the provider does not have the method.  *)
LEMMA WayOfCall ==
  ASSUME NEW c, IsCall(c), NEW n \in 1..Len(Frame(c)),
         deployment.service \in {UserServiceRpc, FriendServiceRpc},
         serviceMap = MapOf(deployment.service)
  PROVE  LET w == WayOf(SubSeq(Frame(c), 1, n))
         IN /\ w.way \in {"throws", "returns", "rejects", "serves"}
            /\ w.way = "serves" =>
                  /\ w.method = c.method
                  /\ [method |-> w.method, request |-> w.request] \in ServedCalls
                  /\ \E j \in 0..Len(ArgsStr(c)) : ReadOf(c, j) = [ok |-> TRUE, msg |-> w.request]
            /\ n = Len(Frame(c)) =>
                  /\ w.way # "throws"
                  /\ c.method \in Known => w.way = "serves" /\ w.request = c.request
            /\ w.way = "serves" => c.method \in Known
<1> DEFINE w == WayOf(SubSeq(Frame(c), 1, n))
           k == Len(HeaderStr(c))
           l == Len(ArgsStr(c))
           q == n - (4 + k)
           m == c.method
<1>1. /\ Len(Frame(c)) = 4 + k + l /\ k \in 1..9 /\ l \in 0..9 /\ ArgsStr(c) \in Bytes
  BY FrameIs
<1>2. IF n < 4 + k THEN IsLost(w)
      ELSE IF m \notin Known THEN w = Way("returns")
      ELSE w = RequestFor(m, SubSeq(ArgsStr(c), 1, q))
  BY Aligned
<1>3. m \in Methods /\ c.request.type = GetRequestPrototype(m).type
      /\ c.request \in AnyMessage /\ GetRequestPrototype(m) \in AnyMessage
  BY DEF IsCall
<1> HIDE DEF w, k, l
<1>4. CASE n < 4 + k \/ m \notin Known
  <2>1. Way("throws").way = "throws" /\ Way("returns").way = "returns"
    BY DEF Way
  <2>2. CASE n < 4 + k
    <3>1. w.way \in {"throws", "returns"}
      BY <1>2, <2>1, <2>2, Zenon DEF IsLost
    <3>2. n # Len(Frame(c))
      BY <1>1, <2>2
    <3> QED
      BY <3>1, <3>2 DEF w
  <2>3. CASE ~(n < 4 + k)
    <3>1. w.way = "returns" /\ m \notin Known
      BY <1>2, <1>4, <2>1, <2>3, Zenon
    <3> QED
      BY <3>1 DEF w
  <2> QED
    BY <2>2, <2>3
<1>5. CASE ~(n < 4 + k \/ m \notin Known)
  <2> DEFINE b == SubSeq(ArgsStr(c), 1, q)
             P == GetRequestPrototype(m)
             parsed == ParseFromString(P, b)
  <2>1. q \in 0..l
    BY <1>1, <1>5
  <2>2. b \in Bytes
    BY <1>1, <2>1, Cut DEF l
  <2>3. w = RequestParsed(m, parsed) /\ m \in Known
    BY <1>2, <1>5, Zenon DEF RequestFor
  <2> HIDE DEF q, b
  <2>4. OfType(parsed, P.type)
    BY <1>3, <2>2, RequestType
  <2> HIDE DEF parsed, P
  <2>5. PICK ok, r : /\ ok \in BOOLEAN /\ parsed = [ok |-> ok, msg |-> r]
                     /\ "type" \in DOMAIN r /\ r.type = P.type
    BY <2>4 DEF OfType
  <2>6. CASE ok
    <3>1. parsed.ok /\ parsed.msg = r /\ parsed = [ok |-> TRUE, msg |-> r]
      BY <2>5, <2>6
    <3>2. w = [way |-> "serves", method |-> m, request |-> r]
      BY <2>3, <3>1, Zenon DEF RequestParsed
    <3>3. w.way = "serves" /\ w.method = m /\ w.request = r
      BY <3>2
    <3>4. ReadOf(c, q) = [ok |-> TRUE, msg |-> r]
      BY <3>1 DEF parsed, P, b, ReadOf
    <3>5. [method |-> m, request |-> r] \in ServedCalls
      <4>1. r = ParseFromString(GetRequestPrototype(m), b).msg
        BY <3>1 DEF parsed, P
      <4>2. \E x \in Methods, s \in Bytes :
               [method |-> m, request |-> r] = [method |-> x, request |-> ParseFromString(GetRequestPrototype(x), s).msg]
        BY <1>3, <2>2, <4>1, Zenon
      <4> HIDE DEF m
      <4> QED
        BY <4>2 DEF ServedCalls
    <3>6. ASSUME n = Len(Frame(c)) PROVE r = c.request
      <4>1. q = l
        BY <1>1, <3>6 DEF q
      <4>2. b = ArgsStr(c)
        <5>1. SubSeq(ArgsStr(c), 1, l) = ArgsStr(c)
          BY <1>1 DEF l, Bytes
        <5> QED
          BY <4>1, <5>1 DEF b
      <4>3. parsed = Begin(c.request)
        BY <1>3, <4>2, MessagesAgree DEF parsed, P, ArgsStr
      <4> QED
        BY <3>1, <4>3 DEF Begin
    <3> QED
      BY <2>1, <2>3, <3>3, <3>4, <3>5, <3>6 DEF w, l
  <2>7. CASE ~ok
    <3>1. ~parsed.ok
      BY <2>5, <2>7
    <3>2. w = Way("rejects")
      BY <2>3, <3>1, Zenon DEF RequestParsed
    <3>3. w.way = "rejects"
      BY <3>2 DEF Way
    <3>4. n # Len(Frame(c))
      <4> SUFFICES ASSUME n = Len(Frame(c)) PROVE FALSE
        OBVIOUS
      <4>1. q = l
        BY <1>1 DEF q
      <4>2. b = ArgsStr(c)
        <5>1. SubSeq(ArgsStr(c), 1, l) = ArgsStr(c)
          BY <1>1 DEF l, Bytes
        <5> QED
          BY <4>1, <5>1 DEF b
      <4>3. parsed = Begin(c.request)
        BY <1>3, <4>2, MessagesAgree DEF parsed, P, ArgsStr
      <4> QED
        BY <3>1, <4>3 DEF Begin
    <3> QED
      BY <3>3, <3>4 DEF w
  <2> QED
    BY <2>5, <2>6, <2>7
<1> QED
  BY <1>4, <1>5
(* A call that a service is handed is of a method, with a request of its   *)
(* class.                                                                  *)
LEMMA ServedCallsAre ==
  \A call \in ServedCalls :
     /\ call = [method |-> call.method, request |-> call.request]
     /\ call.method \in Methods
     /\ call.request.type = GetRequestPrototype(call.method).type
<1> SUFFICES ASSUME NEW call \in ServedCalls
             PROVE  /\ call = [method |-> call.method, request |-> call.request]
                    /\ call.method \in Methods
                    /\ call.request.type = GetRequestPrototype(call.method).type
  OBVIOUS
<1>1. PICK m \in Methods, s \in Bytes :
         call = [method |-> m, request |-> ParseFromString(GetRequestPrototype(m), s).msg]
  BY DEF ServedCalls
<1> DEFINE P == GetRequestPrototype(m)
           parsed == ParseFromString(P, s)
<1>2. call.method = m /\ call.request = parsed.msg
  BY <1>1
<1>3. OfType(parsed, P.type)
  BY RequestType
<1> HIDE DEF parsed, P
<1>4. PICK ok, r : /\ ok \in BOOLEAN /\ parsed = [ok |-> ok, msg |-> r]
                   /\ "type" \in DOMAIN r /\ r.type = P.type
  BY <1>3 DEF OfType
<1>5. parsed.msg.type = P.type
  BY <1>4
<1>6. call = [method |-> call.method, request |-> call.request]
  BY <1>1, <1>2 DEF parsed, P
<1> QED
  BY <1>2, <1>5, <1>6 DEF P

-----------------------------------------------------------------------------
(* Answers                                                                 *)

(* Success sets a result that is there to what a new one holds.            *)
LEMMA SuccessIs ==
  /\ Success(LoginResponse_mutable_result(LoginResponse)) = LoginResponseOf(<<ResultCode>>, FALSE, <<>>)
  /\ Success(RegisterResponse_mutable_result(RegisterResponse))
     = RegisterResponseOf(<<ResultCode>>, FALSE, <<>>)
  /\ Success(GetFriendListResponse_mutable_result(GetFriendListResponse))
     = GetFriendListResponseOf(<<ResultCode>>, <<>>, <<>>)
<1> DEFINE e == <<>>
           one == <<ResultCode>>
<1>0. ASSUME NEW b
      PROVE  /\ [LoginResponseOf(e, b, e) EXCEPT !.result = one] = LoginResponseOf(one, b, e)
             /\ [LoginResponseOf(one, b, e) EXCEPT !.result = one] = LoginResponseOf(one, b, e)
             /\ [RegisterResponseOf(e, b, e) EXCEPT !.result = one] = RegisterResponseOf(one, b, e)
             /\ [RegisterResponseOf(one, b, e) EXCEPT !.result = one] = RegisterResponseOf(one, b, e)
  <2> HIDE DEF one, e
  <2> QED
    BY DEF LoginResponseOf, RegisterResponseOf
<1>1. /\ LoginResponse_mutable_result(LoginResponse) = LoginResponseOf(one, FALSE, e)
      /\ RegisterResponse_mutable_result(RegisterResponse) = RegisterResponseOf(one, FALSE, e)
      /\ GetFriendListResponse_mutable_result(GetFriendListResponse) = GetFriendListResponseOf(one, e, e)
  <2>1. FriendResultCode = ResultCode
    BY FriendResultCodeIs
  <2>2. LoginResponse.result = e /\ RegisterResponse.result = e /\ GetFriendListResponse.result = e
    BY DEF LoginResponse, RegisterResponse, GetFriendListResponse
  <2>3. LoginResponse = LoginResponseOf(e, FALSE, e) /\ RegisterResponse = RegisterResponseOf(e, FALSE, e)
    BY Zenon DEF LoginResponse, LoginResponseOf, RegisterResponse, RegisterResponseOf
  <2>4. /\ [LoginResponse EXCEPT !.result = one] = LoginResponseOf(one, FALSE, e)
        /\ [RegisterResponse EXCEPT !.result = one] = RegisterResponseOf(one, FALSE, e)
    <3> HIDE DEF one, e
    <3> QED
      BY <1>0, <2>3, Zenon
  <2>5. [GetFriendListResponse EXCEPT !.result = one] = GetFriendListResponseOf(one, e, e)
    <3> HIDE DEF one
    <3> QED
      BY DEF GetFriendListResponse, GetFriendListResponseOf
  <2> QED
    BY <2>1, <2>2, <2>3, <2>4, <2>5, Zenon DEF LoginResponse_mutable_result,
       RegisterResponse_mutable_result, GetFriendListResponse_mutable_result
<1>2. [one EXCEPT ![1] = [@ EXCEPT !.errcode = 0]] = one /\ [one EXCEPT ![1] = [@ EXCEPT !.errmsg = e]] = one
  <2>1. [ResultCode EXCEPT !.errcode = 0] = ResultCode /\ [ResultCode EXCEPT !.errmsg = e] = ResultCode
    BY DEF ResultCode
  <2> DEFINE r == ResultCode
             a == [r EXCEPT !.errcode = 0]
             b == [r EXCEPT !.errmsg = e]
  <2>2. one[1] = r
    OBVIOUS
  <2>3. [one EXCEPT ![1] = r] = one
    OBVIOUS
  <2> HIDE DEF r
  <2> QED
    BY <2>1, <2>2, <2>3 DEF r
<1>3. ASSUME NEW m, m.result = one, [m EXCEPT !.result = one] = m
      PROVE  Success(m) = m
  <2> DEFINE a == [m EXCEPT !.result[1].errcode = 0]
             b == [a EXCEPT !.result[1].errmsg = e]
  <2>1. a = [m EXCEPT !.result = [one EXCEPT ![1] = [@ EXCEPT !.errcode = 0]]]
    <3> HIDE DEF one
    <3> QED
      BY <1>3
  <2>2. a = m
    BY <1>2, <1>3, <2>1
  <2>3. [m EXCEPT !.result[1].errmsg = e] = [m EXCEPT !.result = [one EXCEPT ![1] = [@ EXCEPT !.errmsg = e]]]
    <3> HIDE DEF one, e
    <3> QED
      BY <1>3
  <2>4. Success(m) = b
    <3> HIDE DEF one, e
    <3> QED
      BY DEF Success, e
  <2> HIDE DEF a
  <2> QED
    BY <1>2, <1>3, <2>2, <2>3, <2>4
<1> HIDE DEF one
<1>4. /\ LoginResponseOf(one, FALSE, e).result = one
      /\ [LoginResponseOf(one, FALSE, e) EXCEPT !.result = one] = LoginResponseOf(one, FALSE, e)
  <2>1. LoginResponseOf(one, FALSE, e).result = one
    BY DEF LoginResponseOf
  <2> QED
    BY <1>0, <2>1, Zenon
<1>5. /\ RegisterResponseOf(one, FALSE, e).result = one
      /\ [RegisterResponseOf(one, FALSE, e) EXCEPT !.result = one] = RegisterResponseOf(one, FALSE, e)
  <2>1. RegisterResponseOf(one, FALSE, e).result = one
    BY DEF RegisterResponseOf
  <2> QED
    BY <1>0, <2>1, Zenon
<1>6. /\ GetFriendListResponseOf(one, e, e).result = one
      /\ [GetFriendListResponseOf(one, e, e) EXCEPT !.result = one] = GetFriendListResponseOf(one, e, e)
  BY DEF GetFriendListResponseOf
<1> QED
  BY <1>1, <1>3, <1>4, <1>5, <1>6, Zenon DEF one

Names == << <<113>>, <<104>>, <<97>> >>

(* The loop that adds the friends, run from any response.                  *)
LEMMA FriendsAdded ==
  ASSUME NEW x0, Success(GetFriendListResponse_mutable_result(GetFriendListResponse)) = x0, NEW request
  PROVE  FriendService_GetFriendList(request, GetFriendListResponse)
         = GetFriendListResponse_add_friends(GetFriendListResponse_add_friends(
              GetFriendListResponse_add_friends(x0, Names[1]), Names[2]), Names[3])
<1> DEFINE v == FriendList(request.userid)
           n == Len(v)
           Add(y, name) == GetFriendListResponse_add_friends(y, name)
           x1 == Add(x0, v[1])
           x2 == Add(x1, v[2])
           x3 == Add(x2, v[3])
           Entry(f, i) == IF i = 0 THEN x0 ELSE Add(f[i - 1], v[i])
           Table(f) == f = [i \in 0..n |->
              IF i = 0 THEN Success(GetFriendListResponse_mutable_result(GetFriendListResponse))
              ELSE GetFriendListResponse_add_friends(f[i - 1], v[i])]
           f == CHOOSE f : Table(f)
           g == [i \in 0..3 |-> IF i = 0 THEN x0 ELSE IF i = 1 THEN x1 ELSE IF i = 2 THEN x2 ELSE x3]
<1>1. v = Names /\ n = 3
  BY DEF FriendList, Names
<1>2. FriendService_GetFriendList(request, GetFriendListResponse) = f[n]
  BY Zenon DEF FriendService_GetFriendList
<1> HIDE DEF v, n
<1>3. ASSUME NEW h PROVE Table(h) <=> h = [i \in 0..n |-> Entry(h, i)]
  OBVIOUS
<1> HIDE DEF Table, Add
<1>4. Table(g)
  <2> HIDE DEF x1, x2, x3
  <2>1. g[0] = x0 /\ g[1] = x1 /\ g[2] = x2 /\ g[3] = x3
    OBVIOUS
  <2>2. x1 = Add(x0, v[1]) /\ x2 = Add(x1, v[2]) /\ x3 = Add(x2, v[3])
    BY DEF x1, x2, x3
  <2>3. \A i \in 0..3 : i = 0 \/ i = 1 \/ i = 2 \/ i = 3
    OBVIOUS
  <2>4. g = [i \in 0..3 |-> g[i]]
    OBVIOUS
  <2> HIDE DEF g
  <2>5. \A i \in 0..3 : g[i] = Entry(g, i)
    <3>1. Entry(g, 0) = x0 /\ Entry(g, 1) = Add(g[0], v[1]) /\ Entry(g, 2) = Add(g[1], v[2])
          /\ Entry(g, 3) = Add(g[2], v[3])
      OBVIOUS
    <3> HIDE DEF Entry
    <3> QED
      BY <2>1, <2>2, <2>3, <3>1
  <2>6. g = [i \in 0..n |-> Entry(g, i)]
    BY <1>1, <2>4, <2>5
  <2> QED
    BY <1>3, <2>6
<1>5. Table(f)
  BY <1>4
<1>6. f = [i \in 0..n |-> Entry(f, i)]
  <2> HIDE DEF f
  <2> QED
    BY <1>3, <1>5
<1> HIDE DEF f
<1>7. f[0] = x0 /\ f[1] = Add(f[0], v[1]) /\ f[2] = Add(f[1], v[2]) /\ f[3] = Add(f[2], v[3])
  BY <1>1, <1>6
<1> QED
  BY <1>1, <1>2, <1>7 DEF Add

(* Three elements appended one by one.                                     *)
LEMMA ThreeAppended ==
  ASSUME NEW a, NEW b, NEW c
  PROVE  Append(Append(Append(<<>>, a), b), c) = <<a, b, c>>
<1> DEFINE S == {a, b, c}
           u == <<>>
           v == Append(u, a)
           w == Append(v, b)
           x == Append(w, c)
           y == <<a, b, c>>
<1>1. u \in Seq(S) /\ Len(u) = 0
  OBVIOUS
<1>2. y \in Seq(S) /\ Len(y) = 3 /\ y[1] = a /\ y[2] = b /\ y[3] = c
  OBVIOUS
<1>3. a \in S /\ b \in S /\ c \in S
  OBVIOUS
<1> HIDE DEF S, u, y
<1>4. v \in Seq(S) /\ Len(v) = 1 /\ v[1] = a
  BY <1>1, <1>3, AppendProperties
<1> HIDE DEF v
<1>5. w \in Seq(S) /\ Len(w) = 2 /\ w[1] = a /\ w[2] = b
  BY <1>3, <1>4, AppendProperties
<1> HIDE DEF w
<1>6. x \in Seq(S) /\ Len(x) = 3 /\ x[1] = a /\ x[2] = b /\ x[3] = c
  <2>1. x \in Seq(S) /\ Len(x) = Len(w) + 1 /\ x[Len(w) + 1] = c /\ \A i \in 1..Len(w) : x[i] = w[i]
    <3>1. \A q \in Seq(S), d \in S :
             /\ Append(q, d) \in Seq(S) /\ Len(Append(q, d)) = Len(q) + 1
             /\ Append(q, d)[Len(q) + 1] = d /\ \A i \in 1..Len(q) : Append(q, d)[i] = q[i]
      BY AppendProperties
    <3> QED
      BY <1>3, <1>5, <3>1, Zenon
  <2>2. 1 \in 1..2 /\ 2 \in 1..2 /\ 2 + 1 = 3
    OBVIOUS
  <2> HIDE DEF x
  <2> QED
    BY <1>5, <2>1, <2>2
<1> HIDE DEF x
<1>7. \A i \in 1..Len(x) : x[i] = y[i]
  <2>1. \A i \in 1..3 : i = 1 \/ i = 2 \/ i = 3
    OBVIOUS
  <2> QED
    BY <1>2, <1>6, <2>1
<1>8. x = y
  BY <1>2, <1>6, <1>7, SeqEqual
<1> QED
  BY <1>8, Zenon DEF u, v, w, x, y

(* What the handlers answer, whatever they are asked.                      *)
LEMMA AnswersAre ==
  /\ \A m \in Methods : \A request :
        Service_CallMethod(m, request, GetResponsePrototype(m)) = AnswerTo(m)
  /\ AnswerTo(UserServiceRpc.method[1]) = LoginResponseOf(<<ResultCode>>, TRUE, <<>>)
  /\ AnswerTo(UserServiceRpc.method[2]) = RegisterResponseOf(<<ResultCode>>, TRUE, <<>>)
  /\ AnswerTo(FriendServiceRpc.method[1]) = GetFriendListResponseOf(<<ResultCode>>, Names, <<>>)
<1> DEFINE e == <<>>
           one == <<ResultCode>>
<1>1. /\ IsUser(UserServiceRpc.method[1]) /\ IsUser(UserServiceRpc.method[2])
      /\ ~IsUser(FriendServiceRpc.method[1])
  BY DEF IsUser, UserServiceRpc, FriendServiceRpc
<1>2. /\ UserServiceRpc.method[1].index = 0 /\ UserServiceRpc.method[2].index = 1
      /\ FriendServiceRpc.method[1].index = 0
  BY DEF UserServiceRpc, FriendServiceRpc
<1>3. ASSUME NEW request
      PROVE  Service_CallMethod(UserServiceRpc.method[1], request, LoginResponse) = LoginResponseOf(one, TRUE, e)
  <2> DEFINE x == UserService_Login(request, LoginResponse)
             y == UserService_Register(request, LoginResponse)
  <2>1. x = LoginResponseOf(one, TRUE, e)
    <3>1. ASSUME NEW b, NEW d PROVE [LoginResponseOf(one, b, e) EXCEPT !.success = d] = LoginResponseOf(one, d, e)
      <4> HIDE DEF one, e
      <4> QED
        BY DEF LoginResponseOf
    <3>2. x = [LoginResponseOf(one, FALSE, e) EXCEPT !.success = TRUE]
      BY SuccessIs, Zenon DEF UserService_Login
    <3> QED
      BY <3>1, <3>2, Zenon
  <2> HIDE DEF x, y
  <2>2. UserServiceRpc_CallMethod(UserServiceRpc.method[1], x, y) = x
    BY <1>2 DEF UserServiceRpc_CallMethod
  <2> QED
    BY <1>1, <2>1, <2>2, Zenon DEF Service_CallMethod, x, y
<1>4. ASSUME NEW request
      PROVE  Service_CallMethod(UserServiceRpc.method[2], request, RegisterResponse)
             = RegisterResponseOf(one, TRUE, e)
  <2> DEFINE x == UserService_Login(request, RegisterResponse)
             y == UserService_Register(request, RegisterResponse)
  <2>1. y = RegisterResponseOf(one, TRUE, e)
    <3>1. ASSUME NEW b, NEW d
          PROVE  [RegisterResponseOf(one, b, e) EXCEPT !.success = d] = RegisterResponseOf(one, d, e)
      <4> HIDE DEF one, e
      <4> QED
        BY DEF RegisterResponseOf
    <3>2. y = [RegisterResponseOf(one, FALSE, e) EXCEPT !.success = TRUE]
      BY SuccessIs, Zenon DEF UserService_Register
    <3> QED
      BY <3>1, <3>2, Zenon
  <2> HIDE DEF x, y
  <2>2. UserServiceRpc_CallMethod(UserServiceRpc.method[2], x, y) = y
    BY <1>2 DEF UserServiceRpc_CallMethod
  <2> QED
    BY <1>1, <2>1, <2>2, Zenon DEF Service_CallMethod, x, y
<1>5. ASSUME NEW request
      PROVE  Service_CallMethod(FriendServiceRpc.method[1], request, GetFriendListResponse)
             = GetFriendListResponseOf(one, Names, e)
  <2> DEFINE x == FriendService_GetFriendList(request, GetFriendListResponse)
             Of(v) == GetFriendListResponseOf(one, v, e)
             Add(y, name) == GetFriendListResponse_add_friends(y, name)
  <2>1. x = Add(Add(Add(Of(e), Names[1]), Names[2]), Names[3])
    <3>1. Success(GetFriendListResponse_mutable_result(GetFriendListResponse)) = Of(e)
      BY SuccessIs
    <3> HIDE DEF Of
    <3> QED
      BY <3>1, FriendsAdded
  <2>2. ASSUME NEW v, NEW name PROVE Add(Of(v), name) = Of(Append(v, name))
    <3> HIDE DEF one, e
    <3> QED
      BY DEF GetFriendListResponse_add_friends, GetFriendListResponseOf
  <2> DEFINE v1 == Append(e, Names[1])
             v2 == Append(v1, Names[2])
             v3 == Append(v2, Names[3])
  <2>3. v3 = Names
    <3>1. \A a, b, c : Append(Append(Append(<<>>, a), b), c) = <<a, b, c>>
      BY ThreeAppended
    <3>2. ASSUME NEW a, NEW b, NEW c, Names = <<a, b, c>>
          PROVE  Names[1] = a /\ Names[2] = b /\ Names[3] = c
      BY <3>2
    <3> DEFINE a == <<113>>
               b == <<104>>
               c == <<97>>
    <3>3. Names = <<a, b, c>>
      BY Zenon DEF Names
    <3> HIDE DEF a, b, c
    <3>4. Names[1] = a /\ Names[2] = b /\ Names[3] = c
      BY <3>2, <3>3
    <3> QED
      BY <3>1, <3>3, <3>4, Zenon
  <2>4. Add(Of(e), Names[1]) = Of(v1) /\ Add(Of(v1), Names[2]) = Of(v2) /\ Add(Of(v2), Names[3]) = Of(v3)
    <3> HIDE DEF Add, Of
    <3> QED
      BY <2>2
  <2> HIDE DEF x, v1, v2, v3, Add, Of
  <2>5. x = Of(Names)
    BY <2>1, <2>3, <2>4
  <2>6. FriendServiceRpc_CallMethod(FriendServiceRpc.method[1], x) = x
    BY <1>2 DEF FriendServiceRpc_CallMethod
  <2>7. x = FriendService_GetFriendList(request, GetFriendListResponse)
    BY DEF x
  <2>8. Service_CallMethod(FriendServiceRpc.method[1], request, GetFriendListResponse) = x
    BY <1>1, <2>6, <2>7, Zenon DEF Service_CallMethod
  <2> QED
    BY <2>5, <2>8 DEF Of
<1> HIDE DEF one, e
<1>6. /\ AnswerTo(UserServiceRpc.method[1]) = LoginResponseOf(one, TRUE, e)
      /\ AnswerTo(UserServiceRpc.method[2]) = RegisterResponseOf(one, TRUE, e)
      /\ AnswerTo(FriendServiceRpc.method[1]) = GetFriendListResponseOf(one, Names, e)
  BY <1>3, <1>4, <1>5, PrototypesAre, Zenon DEF AnswerTo
<1>7. ASSUME NEW m \in Methods, NEW request
      PROVE  Service_CallMethod(m, request, GetResponsePrototype(m)) = AnswerTo(m)
  <2>1. m = UserServiceRpc.method[1] \/ m = UserServiceRpc.method[2] \/ m = FriendServiceRpc.method[1]
    BY Zenon DEF Methods
  <2> QED
    BY <1>3, <1>4, <1>5, <1>6, <2>1, PrototypesAre, Zenon
<1> QED
  BY <1>6, <1>7, Zenon DEF one, e

(* A new ResultCode is written as nothing.                                 *)
LEMMA NewResultCode ==
  /\ ResultCode \in ResultCodes /\ ResultCode.errcode = 0
  /\ ResultCode_ByteSizeLong(ResultCode) = 0
  /\ <<ResultCode>> \in Results /\ <<ResultCode>> # <<>> /\ There(<<ResultCode>>) = ResultCode
<1> DEFINE e == <<>>
           r == ResultCode
<1>1. r.errcode = 0 /\ r.errmsg = e /\ r.unknown = e /\ r.type = "ResultCode" /\ Len(e) = 0
  BY DEF ResultCode
<1>2. r = [type |-> "ResultCode", errcode |-> 0, errmsg |-> e, unknown |-> e]
  BY DEF ResultCode
<1>3. ResultCode_ByteSizeLong(r) = 0
  <2> HIDE DEF r, e
  <2> QED
    BY <1>1 DEF ResultCode_ByteSizeLong, SizeWhen
<1>4. r \in ResultCodes
  <2>1. When(r.errcode # 0, WriteInt32(1, r.errcode)) = e /\ When(Len(r.errmsg) > 0, WriteBytes(2, r.errmsg)) = e
    BY <1>1 DEF When
  <2>2. ResultCode_InternalSerialize(r) = e \o e \o e
    BY <1>1, <2>1, Zenon DEF ResultCode_InternalSerialize
  <2>3. Len(e \o e \o e) = 0
    OBVIOUS
  <2>4. Len(ResultCode_InternalSerialize(r)) \in Int31
    BY <2>2, <2>3, NothingFits
  <2>5. e \in Strings /\ 0 \in Int32 /\ e \in Strange(ResultCode_InternalParse)
    BY NothingFits, NothingStrange
  <2> HIDE DEF e
  <2>6. r \in [type : {"ResultCode"}, errcode : Int32, errmsg : Strings,
               unknown : Strange(ResultCode_InternalParse)]
    BY <1>2, <2>5
  <2> HIDE DEF r
  <2> QED
    BY <2>4, <2>6 DEF ResultCodes
<1> HIDE DEF r
<1>5. <<r>> \in Results /\ <<r>> # <<>> /\ There(<<r>>) = r
  <2>1. <<r>> \in Seq(ResultCodes) /\ Len(<<r>>) <= 1 /\ <<r>> # <<>> /\ <<r>>[1] = r
    BY <1>4
  <2> QED
    BY <2>1 DEF Results, There
<1> QED
  BY <1>1, <1>3, <1>4, <1>5 DEF r

(* The sizes of the friends of the list.                                   *)
LEMMA NamesAre ==
  Names \in Seq(Strings) /\ Len(Names) = 3 /\ Names # <<>> /\ SizesOfFriends(Names) \in 0..100
<1> DEFINE a == <<113>>
           b == <<104>>
           c == <<97>>
<1>1. 113 \in 0..255 /\ 104 \in 0..255 /\ 97 \in 0..255
  BY SMT
<1>2. /\ a \in Bytes /\ Len(a) = 1
      /\ b \in Bytes /\ Len(b) = 1
      /\ c \in Bytes /\ Len(c) = 1
  BY <1>1, Byte, SMT
<1>3. 1 \in Int31 /\ 0 \in Int31
  BY SMT DEF Int31
<1>4. Names = <<a, b, c>>
  BY Zenon DEF Names
<1> HIDE DEF a, b, c
<1>5. a \in Strings /\ b \in Strings /\ c \in Strings
  BY <1>2, <1>3 DEF Strings
<1>6. Names \in Seq(Strings) /\ Len(Names) = 3 /\ Names # <<>>
  BY <1>4, <1>5
<1>7. Names[1] = a /\ Names[2] = b /\ Names[3] = c
  BY <1>4
<1>8. BytesSize(a) \in 0..6 /\ BytesSize(b) \in 0..6 /\ BytesSize(c) \in 0..6
  <2>1. VarintSize(1) \in 1..5
    BY <1>3, SizeIs
  <2>2. BytesSize(a) = VarintSize(1) + 1 /\ BytesSize(b) = VarintSize(1) + 1 /\ BytesSize(c) = VarintSize(1) + 1
    BY <1>2 DEF BytesSize
  <2> QED
    BY <2>1, <2>2
<1>9. PICK g : SizesAre(g, Names)
  BY <1>6, FriendsSized
<1>10. /\ g[0] = 0 /\ SizesOfFriends(Names) = g[3]
       /\ \A i \in 1..3 : g[i] = g[i - 1] + BytesSize(Names[i])
  BY <1>6, <1>9 DEF SizesAre
<1>11. g[1] = g[0] + BytesSize(a) /\ g[2] = g[1] + BytesSize(b) /\ g[3] = g[2] + BytesSize(c)
  <2>1. 1 \in 1..3 /\ 2 \in 1..3 /\ 3 \in 1..3 /\ 1 - 1 = 0 /\ 2 - 1 = 1 /\ 3 - 1 = 2
    OBVIOUS
  <2> QED
    BY <1>7, <1>10, <2>1
<1>12. g[3] \in 0..100
  BY <1>8, <1>10, <1>11
<1> QED
  BY <1>6, <1>10, <1>12

(* Every answer is good, of the class of its method, and short.            *)
LEMMA AnswerFits ==
  ASSUME NEW m \in Methods
  PROVE  LET a == AnswerTo(m)
         IN /\ a \in AnyMessage /\ GetResponsePrototype(m) \in AnyMessage
            /\ a.type = GetResponsePrototype(m).type
            /\ SerializeToString(a) \in Bytes /\ Len(SerializeToString(a)) \in 0..255
            /\ Result(a).errcode = 0
            /\ m = FriendServiceRpc.method[1] => a.friends # <<>>
<1> DEFINE e == <<>>
           one == <<ResultCode>>
           yes == TRUE
           Good(a, p) ==
              /\ a \in AnyMessage /\ p \in AnyMessage
              /\ a.type = p.type
              /\ SerializeToString(a) \in Bytes /\ Len(SerializeToString(a)) \in 0..255
              /\ Result(a).errcode = 0
<1>1. /\ one \in Results /\ one # e /\ There(one) = ResultCode
      /\ e \in Strings /\ \A cases : e \in Strange(cases)
      /\ Len(e) = 0
  BY NewResultCode, NothingFits, NothingStrange
<1>2. VarintSize(0) \in 1..5
  BY SizeIs, NothingFits
<1>3. ResultCode_ByteSizeLong(ResultCode) = 0 /\ ResultCode.errcode = 0
  BY NewResultCode
<1>4. one[1] = ResultCode
  OBVIOUS
<1>5. yes \in BOOLEAN /\ yes
  OBVIOUS
<1> HIDE DEF e, one, yes
<1>6. Good(LoginResponseOf(one, yes, e), LoginResponse)
  <2> DEFINE a == LoginResponseOf(one, yes, e)
  <2>1. a.type = "LoginResponse" /\ a.result = one /\ a.success = yes /\ a.unknown = e
    BY DEF LoginResponseOf
  <2>2. a \in LoginResponses
    BY <1>1, <1>5 DEF LoginResponseOf, LoginResponses
  <2> HIDE DEF a
  <2>3. SerializeToString(a) = LoginResponse_InternalSerialize(a)
    BY <2>1 DEF SerializeToString
  <2>4. Result(a) = LoginResponse_result(a)
    BY <2>1 DEF Result
  <2>5. LoginResponse_result(a) = ResultCode
    BY <1>1, <1>4, <2>1 DEF LoginResponse_result
  <2>6. LoginResponse_ByteSizeLong(a) = (1 + VarintSize(0) + 0) + (1 + 1) + 0
    BY <1>1, <1>3, <1>5, <2>1, <2>5 DEF LoginResponse_ByteSizeLong, SizeWhen
  <2>7. Len(LoginResponse_InternalSerialize(a)) \in 0..255 /\ LoginResponse_InternalSerialize(a) \in Bytes
    <3> DEFINE s == LoginResponse_InternalSerialize(a)
               l == Len(s)
    <3>1. LoginResponse_ByteSizeLong(a) = l /\ s \in Bytes
      BY <2>2, LoginResponseSize
    <3> HIDE DEF s, l
    <3>2. l \in 0..255
      BY <1>2, <2>6, <3>1
    <3> QED
      BY <3>1, <3>2 DEF s, l
  <2>8. a \in AnyMessage /\ LoginResponse \in AnyMessage
    BY <2>2, DefaultsAre DEF AnyMessage
  <2>9. SerializeToString(a) \in Bytes /\ Len(SerializeToString(a)) \in 0..255
    BY <2>3, <2>7, Zenon
  <2>10. a.type = LoginResponse.type /\ Result(a).errcode = 0
    BY <1>3, <2>1, <2>4, <2>5, DefaultsAre
  <2> QED
    BY <2>8, <2>9, <2>10, Zenon DEF a
<1>7. Good(RegisterResponseOf(one, yes, e), RegisterResponse)
  <2> DEFINE a == RegisterResponseOf(one, yes, e)
  <2>1. a.type = "RegisterResponse" /\ a.result = one /\ a.success = yes /\ a.unknown = e
    BY DEF RegisterResponseOf
  <2>2. a \in RegisterResponses
    BY <1>1, <1>5 DEF RegisterResponseOf, RegisterResponses
  <2> HIDE DEF a
  <2>3. SerializeToString(a) = RegisterResponse_InternalSerialize(a)
    BY <2>1 DEF SerializeToString
  <2>4. Result(a) = RegisterResponse_result(a)
    BY <2>1 DEF Result
  <2>5. RegisterResponse_result(a) = ResultCode
    BY <1>1, <1>4, <2>1 DEF RegisterResponse_result
  <2>6. RegisterResponse_ByteSizeLong(a) = (1 + VarintSize(0) + 0) + (1 + 1) + 0
    BY <1>1, <1>3, <1>5, <2>1, <2>5 DEF RegisterResponse_ByteSizeLong, SizeWhen
  <2>7. Len(RegisterResponse_InternalSerialize(a)) \in 0..255 /\ RegisterResponse_InternalSerialize(a) \in Bytes
    <3> DEFINE s == RegisterResponse_InternalSerialize(a)
               l == Len(s)
    <3>1. RegisterResponse_ByteSizeLong(a) = l /\ s \in Bytes
      BY <2>2, RegisterResponseSize
    <3> HIDE DEF s, l
    <3>2. l \in 0..255
      BY <1>2, <2>6, <3>1
    <3> QED
      BY <3>1, <3>2 DEF s, l
  <2>8. a \in AnyMessage /\ RegisterResponse \in AnyMessage
    BY <2>2, DefaultsAre DEF AnyMessage
  <2>9. SerializeToString(a) \in Bytes /\ Len(SerializeToString(a)) \in 0..255
    BY <2>3, <2>7, Zenon
  <2>10. a.type = RegisterResponse.type /\ Result(a).errcode = 0
    BY <1>3, <2>1, <2>4, <2>5, DefaultsAre
  <2> QED
    BY <2>8, <2>9, <2>10, Zenon DEF a
<1>8. /\ Good(GetFriendListResponseOf(one, Names, e), GetFriendListResponse)
      /\ GetFriendListResponseOf(one, Names, e).friends # <<>>
  <2> DEFINE a == GetFriendListResponseOf(one, Names, e)
  <2>1. a.type = "GetFriendListResponse" /\ a.result = one /\ a.friends = Names /\ a.unknown = e
    BY DEF GetFriendListResponseOf
  <2>2. a \in GetFriendListResponses
    <3>1. FriendResults = Results
      BY FriendResultCodeIs, Zenon DEF FriendResults, Results
    <3> QED
      BY <1>1, <3>1, NamesAre DEF GetFriendListResponseOf, GetFriendListResponses
  <2> HIDE DEF a
  <2>3. SerializeToString(a) = GetFriendListResponse_InternalSerialize(a)
    BY <2>1 DEF SerializeToString
  <2>4. Result(a) = GetFriendListResponse_result(a)
    BY <2>1 DEF Result
  <2>5. GetFriendListResponse_result(a) = ResultCode
    BY <1>1, <1>4, <2>1 DEF GetFriendListResponse_result
  <2>6. GetFriendListResponse_ByteSizeLong(a) = 3 + SizesOfFriends(Names) + (1 + VarintSize(0) + 0) + 0
    <3> DEFINE size == ResultCode_ByteSizeLong(There(a.result))
    <3>1. GetFriendListResponse_ByteSizeLong(a)
          = Len(a.friends) + SizesOfFriends(a.friends)
            + SizeWhen(a.result # <<>>, 1 + VarintSize(size) + size) + Len(a.unknown)
      BY <2>2, GetFriendListResponseWritten
    <3>2. size = 0
      BY <1>1, <1>3, <2>1
    <3> HIDE DEF size
    <3> QED
      BY <1>1, <2>1, <3>1, <3>2, NamesAre DEF SizeWhen, e
  <2>7. /\ Len(GetFriendListResponse_InternalSerialize(a)) \in 0..255
        /\ GetFriendListResponse_InternalSerialize(a) \in Bytes
    <3> DEFINE s == GetFriendListResponse_InternalSerialize(a)
               l == Len(s)
    <3>1. GetFriendListResponse_ByteSizeLong(a) = l /\ s \in Bytes
      BY <2>2, GetFriendListResponseSize
    <3> HIDE DEF s, l
    <3> DEFINE t == SizesOfFriends(Names)
               v == VarintSize(0)
    <3>2. t \in 0..100 /\ v \in 1..5 /\ l = 3 + t + (1 + v + 0) + 0
      BY <1>2, <2>6, <3>1, NamesAre
    <3> HIDE DEF t, v
    <3>3. l \in 0..255
      BY <3>2
    <3> QED
      BY <3>1, <3>3 DEF s, l
  <2>8. a \in AnyMessage /\ GetFriendListResponse \in AnyMessage
    BY <2>2, DefaultsAre DEF AnyMessage
  <2>9. SerializeToString(a) \in Bytes /\ Len(SerializeToString(a)) \in 0..255
    BY <2>3, <2>7, Zenon
  <2>10. a.type = GetFriendListResponse.type /\ Result(a).errcode = 0
    BY <1>3, <2>1, <2>4, <2>5, DefaultsAre
  <2>11. Good(a, GetFriendListResponse)
    BY <2>8, <2>9, <2>10, Zenon
  <2> QED
    BY <2>1, <2>11, NamesAre DEF a
<1> HIDE DEF Good
<1>9. /\ AnswerTo(UserServiceRpc.method[1]) = LoginResponseOf(one, yes, e)
      /\ AnswerTo(UserServiceRpc.method[2]) = RegisterResponseOf(one, yes, e)
      /\ AnswerTo(FriendServiceRpc.method[1]) = GetFriendListResponseOf(one, Names, e)
  BY AnswersAre, Zenon DEF one, yes, e
<1>10. m = UserServiceRpc.method[1] \/ m = UserServiceRpc.method[2] \/ m = FriendServiceRpc.method[1]
  BY Zenon DEF Methods
<1>11. Good(AnswerTo(m), GetResponsePrototype(m))
  BY <1>6, <1>7, <1>8, <1>9, <1>10, PrototypesAre, Zenon
<1>12. m = FriendServiceRpc.method[1] => AnswerTo(m).friends # <<>>
  BY <1>8, <1>9
<1> QED
  BY <1>11, <1>12 DEF Good

(* Nothing is behind the end.                                              *)
LEMMA BehindEnd ==
  ASSUME NEW s \in Bytes
  PROVE  SubSeq(s, Len(s) + 1, Len(s)) = <<>> /\ SubSeq(s, 1, Len(s)) = s
<1> DEFINE l == Len(s)
           p == SubSeq(s, 1, l)
           q == SubSeq(s, l + 1, l)
<1>1. s \in Seq(0..255) /\ l \in Nat
  BY DEF Bytes
<1>2. p = s
  BY <1>1
<1>3. q \in Seq(0..255) /\ Len(q) = 0
  BY <1>1
<1> HIDE DEF q
<1>4. q = <<>>
  BY <1>3, EmptySeq, Zenon
<1> QED
  BY <1>2, <1>4 DEF q

(* The frame of a short answer is read to its end, and gives the answer.   *)
LEMMA ResponseFrameIs ==
  ASSUME NEW s \in Bytes, Len(s) \in 0..255
  PROVE  LET f == ResponseFrame(s)
         IN /\ f \in Bytes /\ f # <<>>
            /\ FrameEnd(f) > 0 /\ SubSeq(f, 5, FrameEnd(f)) = s /\ Behind(f) = <<>>
<1> DEFINE k == Len(s)
           u == UInt32(k)
           f == u \o s
<1>1. /\ u \in Bytes /\ Len(u) = 4 /\ k \in 0..255
      /\ u[1] = k /\ u[2] = 0 /\ u[3] = 0 /\ u[4] = 0
  BY SmallNumber, Zenon
<1>2. ResponseFrame(s) = f
  BY Zenon DEF ResponseFrame
<1> HIDE DEF u, k
<1>3. f \in Bytes /\ Len(f) = 4 + k /\ \A i \in 1..4 : f[i] = u[i]
  <2>1. f \in Bytes /\ Len(f) = Len(u) + Len(s) /\ \A i \in 1..Len(u) : f[i] = u[i]
    BY <1>1, BytesJoined
  <2> HIDE DEF f
  <2> QED
    BY <1>1, <2>1 DEF k
<1>4. SubSeq(f, 5, Len(f)) = s
  <2>1. 0 \in 0..Len(s) /\ Len(u) + 0 + 1 = 5 /\ 0 + 1 = 1
    BY <1>1, SMTT(30) DEF k
  <2>2. SubSeq(f, Len(u) + 0 + 1, Len(f)) = SubSeq(s, 0 + 1, Len(s))
    BY <1>1, <2>1, RestOfBoth
  <2> HIDE DEF f
  <2> QED
    BY <2>1, <2>2, BehindEnd
<1> HIDE DEF f
<1>5. f[1] = k /\ f[2] = 0 /\ f[3] = 0 /\ f[4] = 0
  BY <1>1, <1>3
<1>6. UInt32At(f) = k
  BY <1>1, <1>5, SMT DEF UInt32At
<1>7. FrameEnd(f) = Len(f) /\ Len(f) > 0
  BY <1>1, <1>3, <1>6 DEF FrameEnd
<1>8. f # <<>>
  BY <1>7
<1>9. Behind(f) = <<>>
  BY <1>3, <1>7, BehindEnd DEF Behind
<1> QED
  BY <1>2, <1>3, <1>4, <1>7, <1>8, <1>9, Zenon

(* Where nothing has come, there is no frame.                              *)
LEMMA NoFrame == FrameEnd(<<>>) = 0
BY DEF FrameEnd

(* The frame of an answer, received: what a caller finds in it.            *)
LEMMA AnswerFrameIs ==
  ASSUME NEW m \in Methods
  PROVE  LET f == AnswerFrame(m)
         IN /\ f \in Bytes /\ f # <<>> /\ FrameEnd(f) > 0 /\ Behind(f) = <<>>
            /\ ParseFromString(GetResponsePrototype(m), SubSeq(f, 5, FrameEnd(f)))
               = [ok |-> TRUE, msg |-> AnswerTo(m)]
<1> DEFINE a == AnswerTo(m)
           P == GetResponsePrototype(m)
           s == SerializeToString(a)
<1>1. a \in AnyMessage /\ P \in AnyMessage /\ P.type = a.type /\ s \in Bytes /\ Len(s) \in 0..255
  BY AnswerFits
<1>2. AnswerFrame(m) = ResponseFrame(s)
  BY DEF AnswerFrame
<1> HIDE DEF a, P
<1>3. ParseFromString(P, s) = Begin(a)
  BY <1>1, MessagesAgree
<1> HIDE DEF s
<1> DEFINE f == ResponseFrame(s)
<1>4. f \in Bytes /\ f # <<>> /\ FrameEnd(f) > 0 /\ SubSeq(f, 5, FrameEnd(f)) = s /\ Behind(f) = <<>>
  BY <1>1, ResponseFrameIs
<1> HIDE DEF f
<1> QED
  BY <1>2, <1>3, <1>4 DEF f, a, P, Begin

-----------------------------------------------------------------------------
(* The programs                                                            *)

(* What atoi makes of bytes is a number.                                   *)
LEMMA AtoiNat == \A s \in Bytes : Atoi(s) \in Nat
<1> SUFFICES ASSUME NEW s \in Bytes PROVE Atoi(s) \in Nat
  OBVIOUS
<1>1. PICK v : IsScan(v, s) /\ Atoi(s) = v[Len(s)].n
  BY AtoiStep
<1>2. Len(s) \in 0..Len(s)
  BY BytesAre
<1> QED
  BY <1>1, <1>2 DEF IsScan, Scanned

(* An argument of the benchmark is a number.                               *)
LEMMA ArgumentNat ==
  ASSUME NEW argv \in Seq(Bytes), NEW i \in Nat \ {0}, NEW default \in Nat
  PROVE  Argument(argv, i, default) \in Nat
<1>1. CASE Len(argv) >= i /\ Atoi(argv[i]) > 0
  <2>1. argv[i] \in Bytes
    BY <1>1
  <2> QED
    BY <1>1, <2>1, AtoiNat, Zenon DEF Argument
<1>2. CASE ~(Len(argv) >= i /\ Atoi(argv[i]) > 0)
  BY <1>2, Zenon DEF Argument
<1> QED
  BY <1>1, <1>2

(* The calls of a program, and its threads.                                *)
LEMMA ProgramIs ==
  ASSUME deployment \in Deployments
  PROVE  /\ Made \subseteq MadeCalls /\ Calls \in Seq(Made)
         /\ deployment.service \in {UserServiceRpc, FriendServiceRpc}
         /\ Threads \subseteq Connections
         /\ \A c \in Made : IsCall(c)
<1>0. /\ DefaultCalls \in Nat
      /\ deployment.program \in {"user", "friend", "bench"}
      /\ deployment.service \in {UserServiceRpc, FriendServiceRpc}
      /\ deployment.callerArgv \in Seq(Bytes)
      /\ 1 \in Connections
      /\ deployment.program = "bench" => 1..Argument(deployment.callerArgv, 4, 1) \subseteq Connections
  BY ExampleAssumption
<1>1. Threads \subseteq Connections
  <2>1. CASE IsBench
    BY <1>0, <2>1 DEF Threads, IsBench, BenchThreads
  <2>2. CASE ~IsBench
    BY <1>0, <2>2 DEF Threads
  <2> QED
    BY <2>1, <2>2
<1>2. CASE deployment.program = "user"
  <2>1. Calls = UserCalls
    BY <1>2 DEF Calls
  <2>2. DOMAIN UserCalls = {1, 2} /\ UserCalls = <<UserCalls[1], UserCalls[2]>>
    <3> DEFINE a == UserCalls[1]
               b == UserCalls[2]
    <3>1. ASSUME NEW x, NEW y PROVE DOMAIN <<x, y>> = {1, 2} /\ <<x, y>>[1] = x /\ <<x, y>>[2] = y
      <4>1. DOMAIN <<x, y>> = 1..2
        OBVIOUS
      <4>2. 1..2 = {1, 2}
        OBVIOUS
      <4> QED
        BY <4>1, <4>2
    <3>2. \E x, y : UserCalls = <<x, y>>
      <4> DEFINE x == [method |-> UserServiceRpc_Stub_Login,
                       request |-> [LoginRequest EXCEPT !.name = <<122>>, !.pwd = <<49>>]]
                 y == [method |-> UserServiceRpc_Stub_Register,
                       request |-> [RegisterRequest EXCEPT !.id = 2000, !.name = <<75>>, !.pwd = <<56>>]]
      <4>1. UserCalls = <<x, y>>
        BY SMT DEF UserCalls
      <4> HIDE DEF x, y
      <4> QED
        BY <4>1, Zenon
    <3>3. PICK x, y : UserCalls = <<x, y>>
      BY <3>2
    <3> HIDE DEF a, b
    <3> QED
      BY <3>1, <3>3, Zenon
  <2>3. Made = {UserCalls[1], UserCalls[2]}
    BY <2>1, <2>2 DEF Made
  <2>4. Made \subseteq MadeCalls
    BY <2>3 DEF MadeCalls
  <2>5. Calls \in Seq(Made)
    <3> DEFINE a == UserCalls[1]
               b == UserCalls[2]
    <3>1. Calls = <<a, b>> /\ a \in Made /\ b \in Made
      BY <2>1, <2>2, <2>3
    <3> HIDE DEF a, b
    <3> QED
      BY <3>1
  <2> QED
    BY <1>0, <1>1, <2>4, <2>5, CallsAre
<1>3. CASE deployment.program = "friend"
  <2>1. Calls = FriendCalls
    BY <1>3 DEF Calls
  <2>2. DOMAIN FriendCalls = {1} /\ FriendCalls = <<FriendCalls[1]>>
    <3>1. ASSUME NEW x PROVE DOMAIN <<x>> = {1} /\ <<x>>[1] = x
      <4>1. DOMAIN <<x>> = 1..1
        OBVIOUS
      <4>2. 1..1 = {1}
        OBVIOUS
      <4> QED
        BY <4>1, <4>2
    <3>2. PICK x : FriendCalls = <<x>>
      BY ZenonT(40) DEF FriendCalls
    <3> QED
      BY <3>1, <3>2, Zenon
  <2>3. Made = {FriendCalls[1]}
    BY <2>1, <2>2 DEF Made
  <2>4. Made \subseteq MadeCalls
    BY <2>3 DEF MadeCalls
  <2>5. Calls \in Seq(Made)
    <3> DEFINE a == FriendCalls[1]
    <3>1. Calls = <<a>> /\ a \in Made
      BY <2>1, <2>2, <2>3
    <3> HIDE DEF a
    <3> QED
      BY <3>1
  <2> QED
    BY <1>0, <1>1, <2>4, <2>5, CallsAre
<1>4. CASE deployment.program = "bench"
  <2>1. Calls = [i \in 1..PerThread |-> BenchCall]
    <3>1. Calls = BenchCalls
      BY <1>4 DEF Calls
    <3> QED
      BY <3>1, Zenon DEF BenchCalls, BenchCall
  <2>2. PerThread \in Nat
    BY <1>0, ArgumentNat DEF PerThread
  <2>3. Made \subseteq {BenchCall} /\ \A i \in 1..PerThread : BenchCall \in Made
    <3> DEFINE b == BenchCall
    <3> HIDE DEF b
    <3>1. Calls = [i \in 1..PerThread |-> b]
      BY <2>1 DEF b
    <3>2. Made \subseteq {b} /\ \A i \in 1..PerThread : b \in Made
      BY <3>1 DEF Made
    <3> QED
      BY <3>2 DEF b
  <2>4. Made \subseteq MadeCalls
    BY <2>3 DEF MadeCalls
  <2>5. Calls \in Seq(Made)
    <3> DEFINE b == BenchCall
               k == PerThread
    <3>1. Calls = [i \in 1..k |-> b] /\ k \in Nat /\ \A i \in 1..k : b \in Made
      BY <2>1, <2>2, <2>3
    <3> HIDE DEF b, k
    <3>2. Calls \in [1..k -> Made]
      BY <3>1
    <3> QED
      BY <3>1, <3>2
  <2> QED
    BY <1>0, <1>1, <2>4, <2>5, CallsAre
<1> QED
  BY <1>0, <1>2, <1>3, <1>4

(* What the programs are, as long as the deployment is the same.           *)
LEMMA DeploymentStays ==
  ASSUME deployment' = deployment
  PROVE  /\ Calls' = Calls /\ Made' = Made /\ Replies' = Replies /\ Known' = Known
         /\ Threads' = Threads /\ IsBench' = IsBench /\ PerThread' = PerThread
         /\ BenchThreads' = BenchThreads /\ Controller' = Controller
<1>1. /\ IsBench' = IsBench /\ PerThread' = PerThread /\ BenchThreads' = BenchThreads
      /\ Controller' = Controller /\ Known' = Known
  BY DEF IsBench, PerThread, BenchThreads, Controller, Known
<1>2. Calls' = Calls /\ Threads' = Threads
  BY <1>1 DEF Calls, Threads, BenchCalls
<1>3. Made' = Made
  BY <1>2 DEF Made
<1>4. \A m, r : GoodReply(m)' = GoodReply(m) /\ FailedReply(m, r)' = FailedReply(m, r)
  BY <1>1 DEF GoodReply, FailedReply
<1>5. Replies' = Replies
  BY <1>3, <1>4 DEF Replies
<1> QED
  BY <1>1, <1>2, <1>3, <1>5

-----------------------------------------------------------------------------
(* The invariant of the exchanges                                          *)

Exchange(w) ==
    /\ todo[w] \in Seq(Made) /\ sent[w] \in Seq(Made)
    /\ served[w] \in Seq(ServedCalls) /\ replies[w] \in Seq(Replies)
    /\ Under(w) /\ Matched(w)

Tables ==
    /\ inbox = [w \in Connections |-> inbox[w]] /\ outbox = [w \in Connections |-> outbox[w]]
    /\ executing = [w \in Connections |-> executing[w]] /\ served = [w \in Connections |-> served[w]]
    /\ todo = [w \in Connections |-> todo[w]] /\ stage = [w \in Connections |-> stage[w]]
    /\ sent = [w \in Connections |-> sent[w]] /\ replies = [w \in Connections |-> replies[w]]

ExchangeInv ==
    /\ deployment \in Deployments /\ DOMAIN cuts = Connections
    /\ Tables
    /\ MapInv
    /\ provider = "aborted" => \E c \in Connections : cuts[c] # {}
    /\ provider # "serving" => \A w \in Connections : executing[w] = Nothing
    /\ caller = "off" => \A w \in Connections : todo[w] = <<>>
    /\ \A w \in Connections : Exchange(w)

(* A cut that has been is not undone.                                      *)
CutsGrow == DOMAIN cuts' = Connections /\ \A v \in Connections : cuts[v] \subseteq cuts'[v]

(* All that the invariant says of a connection.                            *)
Of(w) ==
    <<inbox[w], outbox[w], executing[w], served[w], todo[w], stage[w], sent[w], replies[w]>>

(* Nothing is left of a frame at first.                                    *)
LEMMA NothingLeft == <<>> \in Leftovers
<1> DEFINE e == <<>>
<1>1. e \in Bytes /\ Len(e) = 0
  BY DEF Bytes
<1> HIDE DEF e
<1>2. /\ Len(e) < 100 /\ 0 \in 0..3
      /\ \A i \in 1..0 : i <= Len(e) => e[i] = 0
      /\ \A i \in (0 + 1)..Len(e) : e[i] \in 1..254
  BY <1>1, SMT
<1>3. e \in Leftovers
  BY <1>1, <1>2, LeftoverIs, Zenon
<1> QED
  BY <1>3 DEF e

(* At first nothing is under way on any connection.                        *)
LEMMA InitExchange == Init => ExchangeInv
<1> SUFFICES ASSUME Init PROVE ExchangeInv
  OBVIOUS
<1>1. /\ deployment \in Deployments /\ provider = "off" /\ cuts = [c \in Connections |-> {}]
      /\ serviceMap = [n \in {} |-> Nothing]
      /\ inbox = [c \in Connections |-> <<>>] /\ outbox = [c \in Connections |-> <<>>]
      /\ executing = [c \in Connections |-> Nothing] /\ served = [c \in Connections |-> <<>>]
      /\ todo = [w \in Connections |-> <<>>] /\ stage = [w \in Connections |-> "idle"]
      /\ sent = [w \in Connections |-> <<>>] /\ replies = [w \in Connections |-> <<>>]
  BY DEF Init, ProviderInit
<1> DEFINE e == <<>>
<1>2. Len(e) = 0 /\ Answered(e) = e /\ e \in Leftovers /\ \A S : e \in Seq(S)
  BY NoneAnswered, NothingLeft
<1>3. Tables
  BY <1>1 DEF Tables
<1>4. ASSUME NEW w \in Connections PROVE Exchange(w) /\ todo[w] = <<>> /\ executing[w] = Nothing
  <2>1. /\ inbox[w] = e /\ outbox[w] = e /\ executing[w] = Nothing /\ served[w] = e
        /\ todo[w] = e /\ stage[w] = "idle" /\ sent[w] = e /\ replies[w] = e
    BY <1>1
  <2> HIDE DEF e
  <2>2. Resting(w)
    BY <1>2, <2>1 DEF Resting, Left, e
  <2>3. Matched(w)
    BY <1>2, <2>1 DEF Matched
  <2> QED
    BY <1>2, <2>1, <2>2, <2>3 DEF Exchange, Under, e
<1>5. MapInv
  BY <1>1 DEF MapInv
<1> QED
  BY <1>1, <1>3, <1>4, <1>5 DEF ExchangeInv

(* What is left keeps its shape.                                           *)
LEMMA LeftStays ==
  ASSUME NEW w, cuts[w] \subseteq cuts'[w], served'[w] = served[w]
  PROVE  (CutBefore(w) => CutBefore(w)') /\ \A t : Left(w, t) => Left(w, t)'
<1>1. CutBefore(w) => CutBefore(w)'
  BY DEF CutBefore
<1> QED
  BY <1>1, Zenon DEF Left

(* What has been matched stays so.                                         *)
LEMMA MatchesStays ==
  ASSUME NEW s, NEW call, NEW cut, NEW more, cut \subseteq more, NEW i, Matches(s, call, cut, i)
  PROVE  Matches(s, call, more, i)
BY DEF Matches

(* Also when more is cut.                                                  *)
LEMMA MatchedStays ==
  ASSUME NEW w, served'[w] = served[w], sent'[w] = sent[w], replies'[w] = replies[w],
         cuts[w] \subseteq cuts'[w], Matched(w)
  PROVE  Matched(w)'
<1>1. \A s, c, i : Matches(s, c, cuts[w], i) => Matches(s, c, cuts'[w], i)
  BY MatchesStays
<1> QED
  BY <1>1, Zenon DEF Matched

(* The exchange of a connection that a step leaves alone is where it was.  *)
LEMMA ExchangeStays ==
  ASSUME deployment' = deployment, NEW w, UNCHANGED Of(w),
         cuts[w] \subseteq cuts'[w], provider = "aborted" => provider' = "aborted",
         Exchange(w)
  PROVE  Exchange(w)'
<1>1. /\ inbox'[w] = inbox[w] /\ outbox'[w] = outbox[w] /\ executing'[w] = executing[w]
      /\ served'[w] = served[w] /\ todo'[w] = todo[w] /\ stage'[w] = stage[w]
      /\ sent'[w] = sent[w] /\ replies'[w] = replies[w]
  BY DEF Of
<1>2. Made' = Made /\ Replies' = Replies /\ Known' = Known
  BY DeploymentStays
<1>3. CutBefore(w) => CutBefore(w)'
  BY <1>1, LeftStays
<1>4. Call(w)' = Call(w)
  BY <1>1, Zenon DEF Call
<1>5. \A t : Left(w, t) => Left(w, t)'
  BY <1>1, LeftStays
<1>6. /\ Left(w, inbox[w]) => Left(w, inbox[w])'
      /\ Asking(w) => Asking(w)'
      /\ Unserved(w) => Unserved(w)'
      /\ LastServed(w)' = LastServed(w)
  <2>1. Left(w, inbox[w]) => Left(w, inbox[w])'
    BY <1>1, <1>3, Zenon DEF Left
  <2>2. Asking(w) => Asking(w)'
    BY <1>1, <1>4, Zenon DEF Asking
  <2>3. Unserved(w) => Unserved(w)'
    BY <1>1, Zenon DEF Unserved
  <2>4. LastServed(w)' = LastServed(w)
    BY <1>1, Zenon DEF LastServed
  <2> QED
    BY <2>1, <2>2, <2>3, <2>4
<1>7. Resting(w) => Resting(w)'
  BY <1>1, <1>6, Zenon DEF Resting
<1>8. Asked(w) => Asked(w)'
  BY <1>1, <1>4, <1>5, <1>6, Zenon DEF Asked
<1>9. Ignored(w) => Ignored(w)'
  BY <1>2, <1>3, <1>4, <1>6, Zenon DEF Ignored
<1>10. Unanswered(w) => Unanswered(w)'
  BY <1>1, <1>6, Zenon DEF Unanswered
<1>11. Handled(w) => Handled(w)'
  BY <1>1, <1>6, <1>10, Zenon DEF Handled
<1>12. Replied(w) => Replied(w)'
  BY <1>1, <1>6, <1>10, Zenon DEF Replied
<1>13. Gone(w) => Gone(w)'
  BY <1>1, Zenon DEF Gone, IsBytes
<1>14. Under(w)'
  BY <1>7, <1>8, <1>9, <1>11, <1>12, <1>13, Zenon DEF Under, Exchange
<1>15. Matched(w)'
  BY <1>1, MatchedStays DEF Exchange
<1> QED
  BY <1>1, <1>2, <1>14, <1>15, Zenon DEF Exchange

(* A step that changes some connections, and leaves the others.            *)
LEMMA ExchangeStep ==
  ASSUME ExchangeInv, deployment' = deployment, CutsGrow, Tables', MapInv',
         provider = "aborted" => provider' = "aborted",
         provider' = "aborted" => provider = "aborted" \/ \E v \in Connections : cuts'[v] # {},
         provider' # "serving" => \A w \in Connections : executing'[w] = Nothing,
         caller' = "off" => \A w \in Connections : todo'[w] = <<>>,
         \A w \in Connections : UNCHANGED Of(w) \/ Exchange(w)'
  PROVE  ExchangeInv'
<1>1. deployment' \in Deployments /\ DOMAIN cuts' = Connections
  BY DEF ExchangeInv, CutsGrow
<1>2. ASSUME NEW w \in Connections PROVE Exchange(w)'
  <2>1. Exchange(w) /\ cuts[w] \subseteq cuts'[w]
    BY DEF ExchangeInv, CutsGrow
  <2> QED
    BY <1>1, <2>1, ExchangeStays
<1>3. provider' = "aborted" => \E v \in Connections : cuts'[v] # {}
  BY DEF ExchangeInv, CutsGrow
<1> QED
  BY <1>1, <1>2, <1>3, Zenon DEF ExchangeInv

(* Between two calls, the exchange rests, or the provider is gone.         *)
LEMMA NotReceiving ==
  ASSUME NEW w, Under(w), stage[w] # "receive" PROVE Resting(w) \/ Gone(w)
BY DEF Under, Asked, Ignored, Handled, Replied, Asking

(* A step of a caller changes nothing of the provider.                     *)
LEMMA CallerStep ==
  ASSUME ExchangeInv, UNCHANGED <<deployment, provider, serviceMap, executing, served, cuts>>, Tables',
         caller' # "off", \A w \in Connections : UNCHANGED Of(w) \/ Exchange(w)'
  PROVE  ExchangeInv'
<1>1. MapInv /\ (provider # "serving" => \A w \in Connections : executing[w] = Nothing)
  BY DEF ExchangeInv
<1>2. MapInv'
  BY <1>1 DEF MapInv
<1>3. CutsGrow
  BY DEF CutsGrow, ExchangeInv
<1> QED
  BY <1>1, <1>2, <1>3, ExchangeStep

(* A call that fails: what has been answered stays as it was.              *)
LEMMA FailedStep ==
  ASSUME ExchangeInv, NEW w \in Connections, NEW reason \in Reasons, ReturnsFailed(w, reason),
         todo[w] # <<>>,
         \/ stage[w] # "receive" /\ inbox'[w] = inbox[w] /\ outbox'[w] = outbox[w]
         \/ provider = "aborted" /\ inbox'[w] = <<>> /\ outbox'[w] = <<>>
  PROVE  /\ Exchange(w)'
         /\ todo' = [v \in Connections |-> todo'[v]] /\ stage' = [v \in Connections |-> stage'[v]]
         /\ replies' = [v \in Connections |-> replies'[v]]
         /\ replies'[w] = Append(replies[w], FailedReply(Call(w).method, reason))
         /\ todo'[w] = Tail(todo[w])
         /\ \A v \in Connections : v # w =>
               todo'[v] = todo[v] /\ stage'[v] = stage[v] /\ replies'[v] = replies[v]
<1> DEFINE r == FailedReply(Call(w).method, reason)
<1>1. Exchange(w) /\ Tables /\ deployment \in Deployments
  BY DEF ExchangeInv
<1>2. /\ replies' = [replies EXCEPT ![w] = Append(replies[w], r)]
      /\ todo' = [todo EXCEPT ![w] = Tail(todo[w])]
      /\ stage' = [stage EXCEPT ![w] = "idle"]
      /\ UNCHANGED <<deployment, provider, executing, served, cuts, sent>>
  BY DEF ReturnsFailed, Returns, FailedReply, providerVars
<1>3. ~r.answered
  BY DEF FailedReply
<1>4. /\ replies' = [v \in Connections |-> replies'[v]] /\ replies'[w] = Append(replies[w], r)
      /\ \A v \in Connections : v # w => replies'[v] = replies[v]
  <2> HIDE DEF r
  <2> QED
    BY <1>1, <1>2, Changed DEF Tables
<1>5. /\ todo' = [v \in Connections |-> todo'[v]] /\ todo'[w] = Tail(todo[w])
      /\ \A v \in Connections : v # w => todo'[v] = todo[v]
  BY <1>1, <1>2, Changed DEF Tables
<1>6. /\ stage' = [v \in Connections |-> stage'[v]] /\ stage'[w] = "idle"
      /\ \A v \in Connections : v # w => stage'[v] = stage[v]
  BY <1>1, <1>2, Changed DEF Tables
<1>7. Call(w) \in Made
  BY <1>1 DEF Exchange, Call
<1>8. r \in Replies
  <2>1. r \in {FailedReply(c.method, x) : c \in Made, x \in Reasons}
    BY <1>7
  <2> HIDE DEF r
  <2> QED
    BY <2>1 DEF Replies
<1>9. /\ replies[w] \in Seq(Replies) /\ todo[w] \in Seq(Made) /\ sent[w] \in Seq(Made)
      /\ served[w] \in Seq(ServedCalls) /\ Under(w) /\ Matched(w)
  BY <1>1 DEF Exchange
<1>10. Made' = Made /\ Replies' = Replies
  BY <1>2, DeploymentStays
<1> HIDE DEF r
<1>11. Answered(replies'[w]) = Answered(replies[w])
  <2>1. Answered(Append(replies[w], r)) = CountsIf(r, Answered(replies[w]))
    BY <1>8, <1>9, AnsweredGrows
  <2> QED
    BY <1>3, <1>4, <2>1 DEF CountsIf
<1>12. replies'[w] \in Seq(Replies) /\ todo'[w] \in Seq(Made)
  BY <1>4, <1>5, <1>8, <1>9
<1>13. Matched(w)'
  BY <1>2, <1>9, <1>11, Zenon DEF Matched
<1>14. Under(w)'
  <2>1. CASE stage[w] # "receive" /\ inbox'[w] = inbox[w] /\ outbox'[w] = outbox[w]
    <3>1. Resting(w) => Resting(w)'
      BY <1>2, <1>6, <1>11, <2>1 DEF Resting, Left, CutBefore
    <3>2. Gone(w) => Gone(w)'
      BY <1>2, <2>1, Zenon DEF Gone, IsBytes
    <3> QED
      BY <1>9, <2>1, <3>1, <3>2, NotReceiving DEF Under
  <2>2. CASE provider = "aborted" /\ inbox'[w] = <<>> /\ outbox'[w] = <<>>
    <3>1. executing[w] = Nothing
      BY <2>2 DEF ExchangeInv
    <3>2. DOMAIN <<>> = {}
      OBVIOUS
    <3>3. Gone(w)'
      BY <1>2, <2>2, <3>1, <3>2 DEF Gone, IsBytes
    <3> QED
      BY <3>3 DEF Under
  <2> QED
    BY <2>1, <2>2
<1>15. Exchange(w)'
  BY <1>2, <1>9, <1>10, <1>12, <1>13, <1>14 DEF Exchange
<1> QED
  BY <1>4, <1>5, <1>6, <1>15 DEF r

-----------------------------------------------------------------------------
(* The steps                                                               *)

(* A step that changes nothing of any connection.                          *)
LEMMA QuietStep ==
  ASSUME ExchangeInv, UNCHANGED <<deployment, cuts>>, MapInv',
         UNCHANGED <<inbox, outbox, executing, served, todo, stage, sent, replies>>,
         provider = "aborted" <=> provider' = "aborted",
         provider' = "serving" \/ provider # "serving",
         caller' = "off" => caller = "off"
  PROVE  ExchangeInv'
<1>1. /\ Tables
      /\ provider # "serving" => \A w \in Connections : executing[w] = Nothing
      /\ caller = "off" => \A w \in Connections : todo[w] = <<>>
  BY DEF ExchangeInv
<1>2. Tables'
  BY <1>1, Zenon DEF Tables
<1>3. \A w \in Connections : UNCHANGED Of(w)
  BY DEF Of
<1>4. CutsGrow
  BY DEF CutsGrow, ExchangeInv
<1>5. provider' # "serving" => \A w \in Connections : executing'[w] = Nothing
  BY <1>1
<1>6. caller' = "off" => \A w \in Connections : todo'[w] = <<>>
  BY <1>1
<1> QED
  BY <1>2, <1>3, <1>4, <1>5, <1>6, ExchangeStep

(* The provider until it serves.                                           *)
LEMMA StartSteps ==
  ASSUME ExchangeInv, ProviderMain \/ NotifyService \/ RunBinds \/ RunCreates \/ RunStarts,
         UNCHANGED callerVars
  PROVE  ExchangeInv'
<1>1. MapInv
  BY DEF ExchangeInv
<1>2. CASE ProviderMain
  <2>1. MapInv'
    BY <1>1, <1>2 DEF ProviderMain, MapInv
  <2> QED
    BY <1>2, <2>1, QuietStep DEF ProviderMain, callerVars
<1>3. CASE NotifyService
  <2>1. /\ provider = "notify" /\ provider' = "run" /\ deployment' = deployment
        /\ serviceMap' = WithService(deployment.service)
    BY <1>3 DEF NotifyService
  <2>2. serviceMap = [n \in {} |-> Nothing]
    BY <1>1, <2>1 DEF MapInv
  <2>3. WithService(deployment.service) = MapOf(deployment.service)
    BY <2>2 DEF WithService, MapOf
  <2>4. MapOf(deployment.service)' = MapOf(deployment.service)
    BY <2>1 DEF MapOf, MethodMap
  <2>5. MapInv'
    BY <2>1, <2>3, <2>4 DEF MapInv
  <2> QED
    BY <1>3, <2>5, QuietStep DEF NotifyService, callerVars
<1>4. CASE RunBinds
  <2>1. MapInv'
    BY <1>1, <1>4 DEF RunBinds, MapInv, MapOf, MethodMap
  <2> QED
    BY <1>4, <2>1, QuietStep DEF RunBinds, callerVars
<1>5. CASE RunCreates
  <2>1. UNCHANGED <<deployment, provider, serviceMap, executing, served, cuts, inbox, outbox>>
    BY <1>5 DEF RunCreates, providerVars
  <2>2. MapInv'
    BY <1>1, <2>1 DEF MapInv, MapOf, MethodMap
  <2> QED
    BY <2>1, <2>2, QuietStep DEF callerVars
<1>6. CASE RunStarts
  <2>1. MapInv'
    BY <1>1, <1>6 DEF RunStarts, MapInv, MapOf, MethodMap
  <2> QED
    BY <1>6, <2>1, QuietStep DEF RunStarts, callerVars
<1> QED
  BY <1>2, <1>3, <1>4, <1>5, <1>6

(* Steps that change nothing but the stage of a program or its report, and *)
(* no step.                                                                *)
LEMMA OtherSteps ==
  ASSUME ExchangeInv, Report \/ (\E w \in Connections : NotExistedNull(w)) \/ Over \/ UNCHANGED vars
  PROVE  ExchangeInv'
<1>1. /\ UNCHANGED <<deployment, provider, serviceMap, executing, served, cuts>>
      /\ UNCHANGED <<inbox, outbox, todo, stage, sent, replies>>
      /\ caller' = "off" => caller = "off"
  <2>1. CASE Report
    BY <2>1 DEF Report, providerVars
  <2>2. CASE \E w \in Connections : NotExistedNull(w)
    BY <2>2 DEF NotExistedNull, providerVars
  <2>3. CASE Over \/ UNCHANGED vars
    BY <2>3, Zenon DEF Over, vars, providerVars, callerVars
  <2> QED
    BY <2>1, <2>2, <2>3
<1>2. MapInv /\ MapInv'
  BY <1>1 DEF MapInv, MapOf, MethodMap, ExchangeInv
<1> QED
  BY <1>1, <1>2, QuietStep

(* A program begins to call.                                               *)
LEMMA MainStep ==
  ASSUME ExchangeInv, CallerMain
  PROVE  ExchangeInv'
<1>1. /\ deployment \in Deployments /\ Tables /\ caller = "off"
      /\ \A w \in Connections : todo[w] = <<>> /\ Exchange(w)
  BY DEF ExchangeInv, CallerMain
<1>2. /\ UNCHANGED <<deployment, provider, serviceMap, executing, served, cuts>>
      /\ UNCHANGED <<inbox, outbox, stage, sent, replies>>
      /\ caller' # "off"
  BY DEF CallerMain, providerVars
<1>3. /\ todo' = [w \in Connections |-> todo'[w]]
      /\ \A w \in Connections : todo'[w] \in {Calls, <<>>}
  <2>1. CASE todo' = todo
    BY <1>1, <2>1 DEF Tables
  <2>2. CASE todo' = [w \in Connections |-> IF w \in Threads THEN Calls ELSE <<>>]
    BY <2>2
  <2> QED
    BY <2>1, <2>2 DEF CallerMain
<1>4. Tables'
  BY <1>1, <1>2, <1>3, Zenon DEF Tables
<1>5. Calls \in Seq(Made) /\ <<>> \in Seq(Made)
  BY <1>1, ProgramIs
<1>6. ASSUME NEW w \in Connections PROVE Exchange(w)'
  <2>1. Made' = Made /\ Replies' = Replies /\ Known' = Known
    BY <1>2, DeploymentStays
  <2>2. /\ inbox'[w] = inbox[w] /\ outbox'[w] = outbox[w] /\ executing'[w] = executing[w]
        /\ served'[w] = served[w] /\ stage'[w] = stage[w] /\ sent'[w] = sent[w]
        /\ replies'[w] = replies[w]
    BY <1>2
  <2>3. Resting(w) \/ Gone(w)
    <3>1. ~Asking(w)
      BY <1>1, Zenon DEF Asking
    <3> QED
      BY <1>1, <3>1, Zenon DEF Exchange, Under, Asked, Ignored, Handled, Replied
  <2>4. Left(w, inbox[w]) => Left(w, inbox[w])'
    BY <1>2, <2>2, Zenon DEF Left, CutBefore
  <2>5. Resting(w) => Resting(w)'
    BY <2>2, <2>4, Zenon DEF Resting
  <2>6. Gone(w) => Gone(w)'
    BY <1>2, <2>2, Zenon DEF Gone, IsBytes
  <2>7. Under(w)'
    BY <2>3, <2>5, <2>6, Zenon DEF Under
  <2>8. Matched(w)'
    BY <1>1, <1>2, <2>2, MatchedStays DEF Exchange
  <2>9. todo'[w] \in Seq(Made)
    BY <1>3, <1>5, Zenon
  <2>10. Exchange(w)
    BY <1>1
  <2> QED
    BY <2>1, <2>2, <2>7, <2>8, <2>9, <2>10, Zenon DEF Exchange
<1> QED
  BY <1>2, <1>4, <1>6, CallerStep
(* Tables of which two are the same but for one entry.                     *)
LEMMA ManyTables ==
  ASSUME Tables, NEW w \in Connections,
         inbox' = inbox \/ \E e : inbox' = [inbox EXCEPT ![w] = e],
         outbox' = outbox \/ \E e : outbox' = [outbox EXCEPT ![w] = e]
  PROVE  /\ inbox' = [v \in Connections |-> inbox'[v]] /\ outbox' = [v \in Connections |-> outbox'[v]]
         /\ \A v \in Connections : v # w => inbox'[v] = inbox[v] /\ outbox'[v] = outbox[v]
<1>1. inbox = [v \in Connections |-> inbox[v]] /\ outbox = [v \in Connections |-> outbox[v]]
  BY DEF Tables
<1>2. inbox' = [v \in Connections |-> inbox'[v]] /\ \A v \in Connections : v # w => inbox'[v] = inbox[v]
  <2>1. CASE inbox' = inbox
    BY <1>1, <2>1
  <2>2. CASE \E e : inbox' = [inbox EXCEPT ![w] = e]
    <3>1. PICK e : inbox' = [inbox EXCEPT ![w] = e]
      BY <2>2
    <3> QED
      BY <1>1, <3>1, Changed
  <2> QED
    BY <2>1, <2>2
<1>3. outbox' = [v \in Connections |-> outbox'[v]] /\ \A v \in Connections : v # w => outbox'[v] = outbox[v]
  <2>1. CASE outbox' = outbox
    BY <1>1, <2>1
  <2>2. CASE \E e : outbox' = [outbox EXCEPT ![w] = e]
    <3>1. PICK e : outbox' = [outbox EXCEPT ![w] = e]
      BY <2>2
    <3> QED
      BY <1>1, <3>1, Changed
  <2> QED
    BY <2>1, <2>2
<1> QED
  BY <1>2, <1>3

(* Every way for a call to fail, with its reason.                          *)
LEMMA FailedHow ==
  ASSUME NEW w \in Connections, Tables, NotExisted(w) \/ BorrowFails(w) \/ SendOrReceiveFails(w)
  PROVE  /\ \E reason \in Reasons : ReturnsFailed(w, reason)
         /\ caller = "calling" /\ todo[w] # <<>>
         /\ \/ stage[w] # "receive" /\ inbox'[w] = inbox[w] /\ outbox'[w] = outbox[w]
            \/ provider = "aborted" /\ inbox'[w] = <<>> /\ outbox'[w] = <<>>
         /\ inbox' = [v \in Connections |-> inbox'[v]] /\ outbox' = [v \in Connections |-> outbox'[v]]
         /\ \A v \in Connections : v # w => inbox'[v] = inbox[v] /\ outbox'[v] = outbox[v]
<1>1. CASE NotExisted(w)
  <2>1. ReturnsFailed(w, "address") /\ Calling(w, "idle") /\ inbox' = inbox /\ outbox' = outbox
    BY <1>1 DEF NotExisted
  <2>2. "address" \in Reasons /\ stage[w] # "receive" /\ caller = "calling" /\ todo[w] # <<>>
    BY <2>1 DEF Reasons, Calling
  <2> QED
    BY <2>1, <2>2, ManyTables
<1>2. CASE BorrowFails(w)
  <2>1. ReturnsFailed(w, "borrow") /\ Calling(w, "borrow") /\ inbox' = inbox /\ outbox' = outbox
    BY <1>2 DEF BorrowFails
  <2>2. "borrow" \in Reasons /\ stage[w] # "receive" /\ caller = "calling" /\ todo[w] # <<>>
    BY <2>1 DEF Reasons, Calling
  <2> QED
    BY <2>1, <2>2, ManyTables
<1>3. CASE SendOrReceiveFails(w)
  <2>1. /\ ReturnsFailed(w, stage[w])
        /\ Calling(w, "send") \/ Calling(w, "receive")
        /\ provider = "aborted"
        /\ inbox' = [inbox EXCEPT ![w] = <<>>] /\ outbox' = [outbox EXCEPT ![w] = <<>>]
    BY <1>3 DEF SendOrReceiveFails
  <2>2. stage[w] \in Reasons /\ caller = "calling" /\ todo[w] # <<>>
    BY <2>1 DEF Reasons, Calling
  <2>3. inbox'[w] = <<>> /\ outbox'[w] = <<>>
    BY <2>1 DEF Tables
  <2> QED
    BY <2>1, <2>2, <2>3, ManyTables
<1> QED
  BY <1>1, <1>2, <1>3

(* Where CallMethod returns early: the call has failed, and the connection *)
(* rests, or what has been sent is still on its way.                       *)
LEMMA FailSteps ==
  ASSUME ExchangeInv, NEW w \in Connections,
         NotExisted(w) \/ BorrowFails(w) \/ SendOrReceiveFails(w)
  PROVE  ExchangeInv'
<1>1. Tables
  BY DEF ExchangeInv
<1>2. /\ caller = "calling" /\ todo[w] # <<>>
      /\ \/ stage[w] # "receive" /\ inbox'[w] = inbox[w] /\ outbox'[w] = outbox[w]
         \/ provider = "aborted" /\ inbox'[w] = <<>> /\ outbox'[w] = <<>>
      /\ inbox' = [v \in Connections |-> inbox'[v]] /\ outbox' = [v \in Connections |-> outbox'[v]]
      /\ \A v \in Connections : v # w => inbox'[v] = inbox[v] /\ outbox'[v] = outbox[v]
  BY <1>1, FailedHow
<1>3. PICK reason \in Reasons : ReturnsFailed(w, reason)
  BY <1>1, FailedHow
<1>4. /\ Exchange(w)'
      /\ todo' = [v \in Connections |-> todo'[v]] /\ stage' = [v \in Connections |-> stage'[v]]
      /\ replies' = [v \in Connections |-> replies'[v]]
      /\ \A v \in Connections : v # w =>
            todo'[v] = todo[v] /\ stage'[v] = stage[v] /\ replies'[v] = replies[v]
  BY <1>2, <1>3, FailedStep
<1>5. UNCHANGED <<deployment, provider, serviceMap, executing, served, cuts, sent, caller>>
  BY <1>3, Zenon DEF ReturnsFailed, Returns, providerVars
<1>6. Tables'
  BY <1>1, <1>2, <1>4, <1>5, Zenon DEF Tables
<1>7. \A v \in Connections : UNCHANGED Of(v) \/ Exchange(v)'
  <2>1. ASSUME NEW v \in Connections, v # w PROVE UNCHANGED Of(v)
    BY <1>2, <1>4, <1>5, <2>1 DEF Of
  <2> QED
    BY <1>4, <2>1
<1> QED
  BY <1>2, <1>5, <1>6, <1>7, CallerStep

(* A connection of which a call has only looked something up.              *)
LEMMA AskedForAddress ==
  ASSUME ExchangeInv, NEW w \in Connections, NEW s, s # "receive", stage[w] # "receive",
         UNCHANGED <<deployment, provider, cuts, inbox, outbox, executing, served, todo, sent, replies>>,
         stage'[w] = s
  PROVE  Exchange(w)'
<1>1. Exchange(w)
  BY DEF ExchangeInv
<1>2. Made' = Made /\ Replies' = Replies
  BY DeploymentStays
<1>3. Resting(w) \/ Gone(w)
  BY <1>1, NotReceiving DEF Exchange
<1>4. Resting(w) => Resting(w)'
  BY Zenon DEF Resting, Left, CutBefore
<1>5. Gone(w) => Gone(w)'
  BY Zenon DEF Gone, IsBytes
<1>6. Matched(w)'
  BY <1>1, MatchedStays DEF Exchange
<1> QED
  BY <1>1, <1>2, <1>3, <1>4, <1>5, <1>6, Zenon DEF Exchange, Under

(* Looking up the node and borrowing a socket send nothing.                *)
LEMMA ConnectSteps ==
  ASSUME ExchangeInv, NEW w \in Connections, Existed(w) \/ Borrow(w)
  PROVE  ExchangeInv'
<1>1. PICK s \in {"borrow", "send"} : stage' = [stage EXCEPT ![w] = s]
  BY DEF Existed, Borrow
<1>2. /\ UNCHANGED <<deployment, provider, serviceMap, executing, served, cuts>>
      /\ UNCHANGED <<inbox, outbox, todo, sent, replies, caller>>
      /\ caller = "calling" /\ stage[w] # "receive"
  BY DEF Existed, Borrow, Calling, providerVars
<1>3. Tables
  BY DEF ExchangeInv
<1>4. /\ stage' = [v \in Connections |-> stage'[v]] /\ stage'[w] = s
      /\ \A v \in Connections : v # w => stage'[v] = stage[v]
  BY <1>1, <1>3, Changed DEF Tables
<1>5. Tables'
  BY <1>2, <1>3, <1>4, Zenon DEF Tables
<1>6. Exchange(w)'
  BY <1>2, <1>4, AskedForAddress
<1>7. \A v \in Connections : UNCHANGED Of(v) \/ Exchange(v)'
  BY <1>2, <1>4, <1>6 DEF Of
<1> QED
  BY <1>2, <1>5, <1>7, CallerStep

(* What has been matched stays so when one more call is sent.              *)
LEMMA MatchedSent ==
  ASSUME deployment' = deployment, cuts' = cuts, NEW w, NEW S, NEW c \in S,
         sent[w] \in Seq(S), sent'[w] = Append(sent[w], c), served'[w] = served[w], replies'[w] = replies[w],
         Len(served[w]) \in Nat, Matched(w)
  PROVE  Matched(w)'
<1> DEFINE s == sent[w]
           v == served[w]
           k == Len(served[w])
<1>1. Len(sent'[w]) = Len(s) + 1 /\ \A i \in 1..Len(s) : sent'[w][i] = s[i]
  OBVIOUS
<1>2. k \in Nat /\ Len(s) \in Nat /\ k <= Len(s)
  BY DEF Matched
<1>3. k <= Len(sent'[w]) /\ \A i \in 1..k : sent'[w][i] = s[i]
  BY <1>1, <1>2
<1>5. ASSUME NEW i \in 1..k PROVE Matches(served[w][i], sent[w][i], cuts[w], i)'
  <2>1. Matches(v[i], s[i], cuts[w], i)
    BY DEF Matched
  <2> QED
    BY <1>3, <2>1, Zenon
<1> QED
  BY <1>3, <1>5, Zenon DEF Matched

(* What Send puts on the way is the frame of the call.                     *)
LEMMA SendStep ==
  ASSUME ExchangeInv, NEW w \in Connections, Send(w)
  PROVE  ExchangeInv'
<1> DEFINE c == Call(w)
<1>1. Tables /\ Exchange(w) /\ deployment \in Deployments
  BY DEF ExchangeInv
<1>2. /\ UNCHANGED <<deployment, provider, serviceMap, executing, served, cuts>>
      /\ UNCHANGED <<outbox, todo, replies, caller>>
      /\ caller = "calling" /\ stage[w] # "receive" /\ provider = "serving" /\ todo[w] # <<>>
      /\ inbox' = [inbox EXCEPT ![w] = inbox[w] \o Frame(c)]
      /\ sent' = [sent EXCEPT ![w] = Append(sent[w], c)]
      /\ stage' = [stage EXCEPT ![w] = "receive"]
  BY DEF Send, Calling, providerVars
<1>3. /\ inbox' = [v \in Connections |-> inbox'[v]] /\ inbox'[w] = inbox[w] \o Frame(c)
      /\ \A v \in Connections : v # w => inbox'[v] = inbox[v]
  <2> HIDE DEF c
  <2> QED
    BY <1>1, <1>2, Changed DEF Tables
<1>4. /\ sent' = [v \in Connections |-> sent'[v]] /\ sent'[w] = Append(sent[w], c)
      /\ \A v \in Connections : v # w => sent'[v] = sent[v]
  <2> HIDE DEF c
  <2> QED
    BY <1>1, <1>2, Changed DEF Tables
<1>5. /\ stage' = [v \in Connections |-> stage'[v]] /\ stage'[w] = "receive"
      /\ \A v \in Connections : v # w => stage'[v] = stage[v]
  BY <1>1, <1>2, Changed DEF Tables
<1>6. Tables'
  BY <1>1, <1>2, <1>3, <1>4, <1>5, Zenon DEF Tables
<1>7. Resting(w)
  BY <1>1, <1>2, NotReceiving DEF Exchange, Gone
<1>8. c \in Made /\ c' = c
  <2>1. c \in Made
    BY <1>1, <1>2 DEF Exchange, Call
  <2>2. c' = c
    BY <1>2, Zenon DEF Call
  <2> QED
    BY <2>1, <2>2
<1>9. /\ sent[w] \in Seq(Made) /\ served[w] \in Seq(ServedCalls) /\ Matched(w)
      /\ todo[w] \in Seq(Made) /\ replies[w] \in Seq(Replies)
  BY <1>1 DEF Exchange
<1> HIDE DEF c
<1>10. /\ sent'[w] \in Seq(Made) /\ sent'[w] # <<>> /\ Len(sent'[w]) = Len(sent[w]) + 1
       /\ sent'[w][Len(sent'[w])] = c
  BY <1>4, <1>8, <1>9
<1>11. Asked(w)'
  <2>1. Asking(w)'
    BY <1>2, <1>5, <1>8, <1>10, Zenon DEF Asking, c
  <2>2. Unserved(w)'
    BY <1>2, <1>7, <1>10, Zenon DEF Unserved, Resting
  <2>3. Left(w, inbox[w]) /\ inbox[w] \in Leftovers
    BY <1>7, Zenon DEF Resting, Left
  <2>4. \A t : Left(w, t) => Left(w, t)'
    BY <1>2, Zenon DEF Left, CutBefore
  <2> QED
    BY <1>3, <1>8, <2>1, <2>2, <2>3, <2>4, Zenon DEF Asked, c
<1>12. Matched(w)'
  <2>1. Len(served[w]) \in Nat
    BY <1>9
  <2> QED
    BY <1>2, <1>4, <1>8, <1>9, <2>1, MatchedSent
<1>13. Made' = Made /\ Replies' = Replies
  BY <1>2, DeploymentStays
<1>14. Exchange(w)'
  BY <1>2, <1>9, <1>10, <1>11, <1>12, <1>13, Zenon DEF Exchange, Under
<1>15. \A v \in Connections : UNCHANGED Of(v) \/ Exchange(v)'
  BY <1>2, <1>3, <1>4, <1>5, <1>14 DEF Of
<1> QED
  BY <1>2, <1>6, <1>15, CallerStep

(* A call of a thread has come to r.                                       *)
Returned(w, r) ==
    /\ replies' = [replies EXCEPT ![w] = Append(replies[w], r)]
    /\ tally' = IF IsBench THEN [tally EXCEPT ![w] = Counted(tally[w], r)] ELSE tally
    /\ todo' = [todo EXCEPT ![w] = Tail(todo[w])]
    /\ stage' = [stage EXCEPT ![w] = "idle"]
    /\ UNCHANGED <<deployment, providerVars, registry, caller, sent, report>>

(* A call that fails leaves the response of its caller as it was.          *)
LEMMA FailedIs ==
  ASSUME NEW w, NEW reason, ReturnsFailed(w, reason)
  PROVE  Returned(w, FailedReply(Call(w).method, reason))
BY Zenon DEF ReturnsFailed, Returns, FailedReply, Returned

(* A call takes the whole answer to it, and nothing else is there.         *)
LEMMA ReceivedIs ==
  ASSUME ExchangeInv, NEW w \in Connections, Receive(w)
  PROVE  /\ Returned(w, GoodReply(Call(w).method)) /\ Replied(w)
         /\ LastServed(w).method = Call(w).method
         /\ caller = "calling" /\ todo[w] # <<>>
         /\ inbox' = inbox /\ outbox' = [outbox EXCEPT ![w] = <<>>]
<1> DEFINE m == Call(w).method
           f == outbox[w]
           P == GetResponsePrototype(m)
           a == AnswerTo(m)
<1>1. Tables /\ Exchange(w) /\ deployment \in Deployments
  BY DEF ExchangeInv
<1>2. Calling(w, "receive") /\ FrameEnd(f) > 0
  BY DEF Receive
<1>3. caller = "calling" /\ todo[w] # <<>>
  BY <1>2 DEF Calling
<1>4. Parsed(w, ParseFromString(P, SubSeq(f, 5, FrameEnd(f))))
  BY DEF Receive
<1>5. f # <<>>
  BY <1>2, NoFrame
<1>6. Replied(w)
  BY <1>1, <1>5, Zenon DEF Exchange, Under, Resting, Asked, Ignored, Unserved, Handled, Gone
<1>7. LastServed(w).method = m
  <2>1. /\ served[w] \in Seq(ServedCalls) /\ sent[w] \in Seq(Made) /\ Matched(w)
        /\ Len(sent[w]) = Len(served[w]) /\ sent[w] # <<>> /\ sent[w][Len(sent[w])] = Call(w)
    BY <1>1, <1>6 DEF Exchange, Replied, Asking, Unanswered
  <2>2. Len(sent[w]) \in 1..Len(served[w])
    BY <2>1
  <2>3. Matches(served[w][Len(sent[w])], sent[w][Len(sent[w])], cuts[w], Len(sent[w]))
    BY <2>1, <2>2, Zenon DEF Matched
  <2> QED
    BY <2>1, <2>3, Zenon DEF Matches, LastServed
<1>8. m \in Methods
  <2>1. Call(w) \in Made
    BY <1>1, <1>3 DEF Exchange, Call
  <2>2. \A c \in Made : IsCall(c)
    BY <1>1, ProgramIs
  <2> QED
    BY <2>1, <2>2, Zenon DEF IsCall
<1>9. f = AnswerFrame(m)
  BY <1>6, <1>7, Zenon DEF Replied
<1> HIDE DEF m, P, a
<1>10. Behind(f) = <<>> /\ ParseFromString(P, SubSeq(f, 5, FrameEnd(f))) = [ok |-> TRUE, msg |-> a]
  BY <1>8, <1>9, AnswerFrameIs DEF P, a
<1>11. PICK p : p = ParseFromString(P, SubSeq(f, 5, FrameEnd(f)))
  OBVIOUS
<1>12. p.ok = TRUE /\ p.msg = a /\ Parsed(w, p)
  <2>1. ASSUME NEW x, NEW y, NEW q, q = [ok |-> x, msg |-> y] PROVE q.ok = x /\ q.msg = y
    BY <2>1
  <2>2. p = [ok |-> TRUE, msg |-> a]
    BY <1>10, <1>11, Zenon
  <2>3. p.ok = TRUE /\ p.msg = a
    BY <2>1, <2>2, Zenon
  <2> QED
    BY <1>4, <1>11, <2>3, Zenon
<1>13. Returns(w, TRUE, Controller, a)
  BY <1>12, Zenon DEF Parsed
<1>14. Returned(w, GoodReply(m))
  BY <1>13, Zenon DEF Returns, Returned, GoodReply, m, a
<1>15. inbox' = inbox /\ outbox' = [outbox EXCEPT ![w] = <<>>]
  <2>1. inbox' = inbox /\ outbox' = [outbox EXCEPT ![w] = Behind(outbox[w])]
    BY <1>12, Zenon DEF Parsed
  <2> QED
    BY <1>10, <2>1, Zenon
<1> QED
  BY <1>3, <1>6, <1>7, <1>14, <1>15 DEF m

(* What Receive reads is the answer to the call it waits for, whole.       *)
LEMMA ReceiveStep ==
  ASSUME ExchangeInv, NEW w \in Connections, Receive(w)
  PROVE  ExchangeInv'
<1> DEFINE r == GoodReply(Call(w).method)
           before == Answered(replies[w])
           k == Len(served[w])
<1>1. Tables /\ Exchange(w) /\ deployment \in Deployments
  BY DEF ExchangeInv
<1>2. /\ Returned(w, r) /\ Replied(w) /\ LastServed(w).method = Call(w).method
      /\ caller = "calling" /\ todo[w] # <<>>
      /\ inbox' = inbox /\ outbox' = [outbox EXCEPT ![w] = <<>>]
  BY ReceivedIs
<1>3. r.answered /\ r.method = Call(w).method /\ r \in Replies
  <2>1. Call(w) \in Made
    BY <1>1, <1>2 DEF Exchange, Call
  <2>2. r \in {GoodReply(c.method) : c \in Made}
    BY <2>1
  <2>3. r.answered /\ r.method = Call(w).method
    BY DEF GoodReply
  <2> HIDE DEF r
  <2> QED
    BY <2>2, <2>3 DEF Replies
<1> HIDE DEF r
<1>4. /\ replies' = [replies EXCEPT ![w] = Append(replies[w], r)]
      /\ todo' = [todo EXCEPT ![w] = Tail(todo[w])]
      /\ stage' = [stage EXCEPT ![w] = "idle"]
      /\ UNCHANGED <<deployment, provider, serviceMap, executing, served, cuts, caller, sent, inbox>>
  BY <1>2, Zenon DEF Returned, providerVars
<1>5. /\ replies' = [v \in Connections |-> replies'[v]] /\ replies'[w] = Append(replies[w], r)
      /\ \A v \in Connections : v # w => replies'[v] = replies[v]
  BY <1>1, <1>4, Changed DEF Tables
<1>6. /\ todo' = [v \in Connections |-> todo'[v]] /\ todo'[w] = Tail(todo[w])
      /\ \A v \in Connections : v # w => todo'[v] = todo[v]
  BY <1>1, <1>4, Changed DEF Tables
<1>7. /\ stage' = [v \in Connections |-> stage'[v]] /\ stage'[w] = "idle"
      /\ \A v \in Connections : v # w => stage'[v] = stage[v]
  BY <1>1, <1>4, Changed DEF Tables
<1>8. /\ outbox' = [v \in Connections |-> outbox'[v]] /\ outbox'[w] = <<>>
      /\ \A v \in Connections : v # w => outbox'[v] = outbox[v]
  BY <1>1, <1>2, Changed DEF Tables
<1>9. Tables'
  BY <1>1, <1>4, <1>5, <1>6, <1>7, <1>8, Zenon DEF Tables
<1>10. /\ replies[w] \in Seq(Replies) /\ todo[w] \in Seq(Made) /\ sent[w] \in Seq(Made)
       /\ served[w] \in Seq(ServedCalls) /\ Matched(w) /\ k \in Nat
  BY <1>1 DEF Exchange
<1>11. Answered(replies'[w]) = Append(before, r)
  <2>1. Answered(Append(replies[w], r)) = CountsIf(r, before)
    BY <1>3, <1>10, AnsweredGrows
  <2> QED
    BY <1>3, <1>5, <2>1 DEF CountsIf
<1>12. /\ before \in Seq(Replies) /\ Len(before) + 1 = k /\ k = Len(sent[w])
       /\ executing[w] = Nothing /\ Left(w, inbox[w])
  <2>1. Answered(replies[w]) \in Seq({x \in Replies : x.answered})
    BY <1>10, AnsweredAre
  <2> QED
    BY <1>2, <2>1 DEF Replied, Unanswered
<1> HIDE DEF before, k
<1>13. /\ Len(Append(before, r)) = k /\ Append(before, r)[k] = r
       /\ \A i \in 1..k : i # k => i \in 1..Len(before) /\ Append(before, r)[i] = before[i]
  BY <1>3, <1>10, <1>12
<1>14. Resting(w)'
  <2>1. Left(w, inbox[w])'
    BY <1>4, <1>12, Zenon DEF Left, CutBefore
  <2>2. stage'[w] # "receive"
    BY <1>7
  <2> QED
    BY <1>4, <1>8, <1>11, <1>12, <1>13, <2>1, <2>2, Zenon DEF Resting, k
<1>15. Matched(w)'
  <2>2. ASSUME NEW i \in 1..k PROVE Append(before, r)[i].method = served[w][i].method
    <3>1. CASE i = k
      BY <1>2, <1>3, <1>13, <3>1, Zenon DEF LastServed, k
    <3>2. CASE i # k
      BY <1>10, <1>13, <3>2, Zenon DEF Matched, before
    <3> QED
      BY <3>1, <3>2
  <2>3. k <= k
    BY <1>10
  <2>4. /\ Len(served[w]) <= Len(sent[w])
        /\ \A i \in 1..Len(served[w]) : Matches(served[w][i], sent[w][i], cuts[w], i)
    BY <1>10, Zenon DEF Matched
  <2>5. /\ Len(served'[w]) <= Len(sent'[w])
        /\ \A i \in 1..Len(served'[w]) : Matches(served[w][i], sent[w][i], cuts[w], i)'
    BY <1>4, <2>4, Zenon
  <2>6. /\ Len(Answered(replies'[w])) <= Len(served'[w])
        /\ \A i \in 1..Len(Answered(replies'[w])) :
              Answered(replies'[w])[i].method = served'[w][i].method
    BY <1>4, <1>11, <1>13, <2>2, <2>3, Zenon DEF k
  <2> QED
    BY <2>5, <2>6, Zenon DEF Matched
<1>16. Made' = Made /\ Replies' = Replies
  BY <1>4, DeploymentStays
<1>17. replies'[w] \in Seq(Replies) /\ todo'[w] \in Seq(Made)
  BY <1>2, <1>3, <1>5, <1>6, <1>10
<1>18. Exchange(w)'
  BY <1>4, <1>10, <1>14, <1>15, <1>16, <1>17, Zenon DEF Exchange, Under
<1>19. \A v \in Connections : UNCHANGED Of(v) \/ Exchange(v)'
  BY <1>4, <1>5, <1>6, <1>7, <1>8, <1>18 DEF Of
<1> QED
  BY <1>2, <1>4, <1>9, <1>19, CallerStep

(* A handler that has run has written its answer.                          *)
LEMMA HandledStep ==
  ASSUME ExchangeInv, NEW c \in Connections, CallMethodAndDone(c), UNCHANGED callerVars
  PROVE  ExchangeInv'
<1> DEFINE call == executing[c]
           f == AnswerFrame(call.method)
           response == Service_CallMethod(call.method, call.request, GetResponsePrototype(call.method))
<1>1. Tables /\ Exchange(c) /\ deployment \in Deployments /\ MapInv
  BY DEF ExchangeInv
<1>2. /\ UNCHANGED <<deployment, provider, serviceMap, inbox, served, cuts>>
      /\ UNCHANGED <<caller, todo, stage, sent, replies>>
      /\ executing[c] # Nothing
      /\ outbox' = [outbox EXCEPT ![c] = outbox[c] \o ResponseFrame(SerializeToString(response))]
      /\ executing' = [executing EXCEPT ![c] = Nothing]
  BY DEF CallMethodAndDone, callerVars
<1>3. provider = "serving"
  BY <1>2 DEF ExchangeInv
<1>4. Handled(c)
  BY <1>1, <1>2, Zenon DEF Exchange, Under, Resting, Asked, Ignored, Unserved, Replied, Gone
<1>5. call = LastServed(c) /\ call.method \in Methods
  <2>1. served[c] \in Seq(ServedCalls) /\ sent[c] \in Seq(Made) /\ sent[c] # <<>> /\ Len(sent[c]) = Len(served[c])
    BY <1>1, <1>4 DEF Exchange, Handled, Asking, Unanswered
  <2>2. LastServed(c) \in ServedCalls
    BY <2>1 DEF LastServed
  <2>3. call = LastServed(c)
    BY <1>4 DEF Handled
  <2> QED
    BY <2>2, <2>3, ServedCallsAre
<1>6. ResponseFrame(SerializeToString(response)) = f
  <2>1. response = AnswerTo(call.method)
    BY <1>5, AnswersAre, Zenon
  <2> HIDE DEF response
  <2> QED
    BY <2>1, Zenon DEF AnswerFrame
<1>7. outbox[c] \o ResponseFrame(SerializeToString(response)) = f
  <2>1. outbox[c] = <<>>
    BY <1>4 DEF Handled
  <2>2. f \in Bytes
    BY <1>5, AnswerFrameIs
  <2> HIDE DEF f, response
  <2>3. <<>> \o f = f
    BY <2>2 DEF Bytes
  <2> QED
    BY <1>6, <2>1, <2>3
<1> HIDE DEF f, response, call
<1>8. /\ outbox' = [v \in Connections |-> outbox'[v]] /\ outbox'[c] = f
      /\ \A v \in Connections : v # c => outbox'[v] = outbox[v]
  <2>1. outbox' = [outbox EXCEPT ![c] = f]
    BY <1>2, <1>7, Zenon
  <2> QED
    BY <1>1, <2>1, Changed DEF Tables
<1>9. /\ executing' = [v \in Connections |-> executing'[v]] /\ executing'[c] = Nothing
      /\ \A v \in Connections : v # c => executing'[v] = executing[v]
  BY <1>1, <1>2, Changed DEF Tables
<1>10. Tables'
  BY <1>1, <1>2, <1>8, <1>9, Zenon DEF Tables
<1>11. Replied(c)'
  <2>1. Asking(c)'
    BY <1>2, <1>4, Zenon DEF Handled, Asking, Call
  <2>2. Unanswered(c)'
    BY <1>2, <1>4, Zenon DEF Handled, Unanswered, Left, CutBefore
  <2>3. LastServed(c)' = LastServed(c)
    BY <1>2, Zenon DEF LastServed
  <2>4. outbox'[c] = AnswerFrame(LastServed(c).method)
    BY <1>5, <1>8, Zenon DEF f
  <2> QED
    BY <1>9, <2>1, <2>2, <2>3, <2>4, Zenon DEF Replied
<1>12. Matched(c)'
  BY <1>1, <1>2, MatchedStays DEF Exchange
<1>13. Made' = Made /\ Replies' = Replies
  BY <1>2, DeploymentStays
<1>14. Exchange(c)'
  BY <1>1, <1>2, <1>11, <1>12, <1>13, Zenon DEF Exchange, Under
<1>15. \A v \in Connections : UNCHANGED Of(v) \/ Exchange(v)'
  BY <1>2, <1>8, <1>9, <1>14 DEF Of
<1>16. MapInv'
  BY <1>1, <1>2 DEF MapInv, MapOf, MethodMap
<1>17. /\ CutsGrow /\ provider' = "serving" /\ provider # "aborted"
       /\ caller' = "off" => \A w \in Connections : todo'[w] = <<>>
  BY <1>1, <1>2, <1>3 DEF ExchangeInv, CutsGrow
<1> QED
  BY <1>2, <1>10, <1>15, <1>16, <1>17, ExchangeStep

-----------------------------------------------------------------------------
(* A message                                                               *)

(* What has come has led to no service; at worst an exception has ended    *)
(* the process and every handler with it.                                  *)
NotServed(c) ==
    /\ served' = served
    /\ executing' = [v \in Connections |-> executing'[v]]
    /\ executing'[c] = Nothing
    /\ \/ provider' = "serving" /\ executing' = executing
       \/ provider' = "aborted" /\ \A v \in Connections : executing'[v] = Nothing

NowServed(c, call) ==
    /\ provider' = "serving"
    /\ executing' = [executing EXCEPT ![c] = call]
    /\ served' = [served EXCEPT ![c] = Append(served[c], call)]

(* What a message comes to.                                                *)
LEMMA MessageIs ==
  ASSUME ExchangeInv, NEW c \in Connections, NEW n \in 1..Len(inbox[c]), OnMessage(c, n),
         UNCHANGED callerVars
  PROVE  LET w == WayOf(SubSeq(inbox[c], 1, n))
         IN /\ \/ w.way # "serves" /\ NotServed(c)
               \/ w.way = "serves" /\ NowServed(c, [method |-> w.method, request |-> w.request])
            /\ UNCHANGED <<deployment, serviceMap, outbox, todo, stage, sent, replies, caller>>
            /\ provider = "serving" /\ executing[c] = Nothing
            /\ w.way # "throws" => provider' = "serving"
            /\ CutsGrow /\ (n < Len(inbox[c]) => Len(served[c]) + 1 \in cuts'[c])
            /\ inbox' = [v \in Connections |-> inbox'[v]]
            /\ inbox'[c] = SubSeq(inbox[c], n + 1, Len(inbox[c]))
            /\ \A v \in Connections : v # c => inbox'[v] = inbox[v]
<1> DEFINE w == WayOf(SubSeq(inbox[c], 1, n))
           call == [method |-> w.method, request |-> w.request]
           rest == SubSeq(inbox[c], n + 1, Len(inbox[c]))
<1>1. Tables /\ DOMAIN cuts = Connections
  BY DEF ExchangeInv
<1>2. /\ provider = "serving" /\ executing[c] = Nothing
      /\ cuts' = IF n < Len(inbox[c])
                 THEN [cuts EXCEPT ![c] = cuts[c] \union {Len(served[c]) + 1}] ELSE cuts
      /\ inbox' = [inbox EXCEPT ![c] = rest]
      /\ UNCHANGED <<deployment, serviceMap, outbox>>
  BY Zenon DEF OnMessage
<1>3. UNCHANGED <<todo, stage, sent, replies, caller>>
  BY Zenon DEF callerVars
<1>4. /\ inbox' = [v \in Connections |-> inbox'[v]] /\ inbox'[c] = rest
      /\ \A v \in Connections : v # c => inbox'[v] = inbox[v]
  <2> HIDE DEF rest
  <2> QED
    BY <1>1, <1>2, Changed DEF Tables
<1>5. CutsGrow /\ (n < Len(inbox[c]) => Len(served[c]) + 1 \in cuts'[c])
  BY <1>1, <1>2 DEF CutsGrow
<1> HIDE DEF rest
<1>6. \/ w.way = "throws" /\ Throws
      \/ w.way = "returns" /\ UNCHANGED <<provider, executing, heap, served>>
      \/ w.way = "rejects" /\ Rejects(c)
      \/ w.way = "serves" /\ Serves(c, call)
  <2>1. \E x \in {w} :
          \/ x.way = "throws" /\ Throws
          \/ x.way = "returns" /\ UNCHANGED <<provider, executing, heap, served>>
          \/ x.way = "rejects" /\ Rejects(c)
          \/ x.way = "serves" /\ Serves(c, [method |-> x.method, request |-> x.request])
    BY Zenon DEF OnMessage
  <2> HIDE DEF w
  <2> QED
    BY <2>1, Zenon
<1>7. CASE w.way = "throws" /\ Throws
  <2>1. w.way # "serves"
    BY <1>7
  <2>2. /\ provider' = "aborted" /\ served' = served
        /\ executing' = [v \in Connections |-> Nothing]
    BY <1>7, Zenon DEF Throws
  <2>3. executing' = [v \in Connections |-> executing'[v]] /\ \A v \in Connections : executing'[v] = Nothing
    BY <2>2
  <2>4. NotServed(c)
    BY <2>2, <2>3, Zenon DEF NotServed
  <2> QED
    BY <1>2, <1>3, <1>4, <1>5, <1>7, <2>1, <2>4, Zenon DEF rest
<1>8. CASE w.way = "returns" /\ UNCHANGED <<provider, executing, heap, served>>
  <2>1. w.way # "serves" /\ UNCHANGED <<provider, executing, served>>
    BY <1>8
  <2>2. NotServed(c)
    BY <1>1, <1>2, <2>1, Zenon DEF NotServed, Tables
  <2> QED
    BY <1>2, <1>3, <1>4, <1>5, <2>1, <2>2, Zenon DEF rest
<1>9. CASE w.way = "rejects" /\ Rejects(c)
  <2>1. w.way # "serves"
    BY <1>9
  <2>2. UNCHANGED <<provider, executing, served>>
    BY <1>9, Zenon DEF Rejects
  <2>3. NotServed(c)
    BY <1>1, <1>2, <2>2, Zenon DEF NotServed, Tables
  <2> QED
    BY <1>2, <1>3, <1>4, <1>5, <2>1, <2>2, <2>3, Zenon DEF rest
<1>10. CASE w.way = "serves" /\ Serves(c, call)
  <2>1. NowServed(c, call)
    BY <1>2, <1>10, Zenon DEF Serves, NowServed
  <2>2. provider' = "serving"
    BY <2>1 DEF NowServed
  <2> QED
    BY <1>2, <1>3, <1>4, <1>5, <1>10, <2>1, <2>2, Zenon DEF rest
<1> QED
  BY <1>6, <1>7, <1>8, <1>9, <1>10, Zenon

(* Each of the bytes.                                                      *)
LEMMA ByteAt == \A s \in Bytes : IsBytes(s)
BY BytesAre, Zenon DEF IsBytes

(* The connections that a message is not of.                               *)
LEMMA OtherConnection ==
  ASSUME ExchangeInv, NEW c \in Connections, NotServed(c),
         UNCHANGED <<deployment, serviceMap, outbox, todo, stage, sent, replies, caller>>,
         provider = "serving", CutsGrow,
         NEW v \in Connections, inbox'[v] = inbox[v]
  PROVE  Exchange(v)'
<1>1. Exchange(v) /\ cuts[v] \subseteq cuts'[v]
  BY DEF ExchangeInv, CutsGrow
<1>2. CASE executing'[v] = executing[v]
  <2>1. UNCHANGED Of(v)
    BY <1>2 DEF NotServed, Of
  <2> QED
    BY <1>1, <2>1, ExchangeStays
<1>3. CASE executing'[v] # executing[v]
  <2>1. provider' = "aborted" /\ executing'[v] = Nothing /\ executing[v] # Nothing
    BY <1>3, Zenon DEF NotServed
  <2>2. Handled(v)
    BY <1>1, <2>1, Zenon DEF Exchange, Under, Resting, Asked, Ignored, Unserved, Replied, Gone
  <2>3. IsBytes(inbox[v]) /\ outbox[v] = <<>>
    <3>1. inbox[v] \in Bytes
      BY <2>2 DEF Handled, Unanswered, Left, Leftovers
    <3> QED
      BY <2>2, <3>1, ByteAt DEF Handled, IsBytes
  <2>4. Gone(v)'
    BY <2>1, <2>3, Zenon DEF Gone, IsBytes
  <2>5. Matched(v)'
    BY <1>1, MatchedStays DEF Exchange, NotServed
  <2>6. Made' = Made /\ Replies' = Replies
    BY DeploymentStays
  <2> QED
    BY <1>1, <2>4, <2>5, <2>6, Zenon DEF Exchange, Under, NotServed
<1> QED
  BY <1>2, <1>3
(* Nothing is read of a message that the table of the provider leads to a  *)
(* service, when it begins within a frame.                                 *)
LEMMA LostIs == \A way : IsLost(way) => way.way # "serves"
<1> SUFFICES ASSUME NEW way, IsLost(way) PROVE way.way # "serves"
  OBVIOUS
<1>1. Way("throws").way = "throws" /\ Way("returns").way = "returns"
  BY DEF Way
<1> QED
  BY <1>1, Zenon DEF IsLost

(* What is left of earlier frames leads to nothing.                        *)
LEMMA LeftRead ==
  ASSUME ExchangeInv, NEW c \in Connections, NEW n \in 1..Len(inbox[c]), OnMessage(c, n),
         UNCHANGED callerVars, Left(c, inbox[c])
  PROVE  NotServed(c) /\ Left(c, inbox[c])' /\ CutBefore(c)'
<1> DEFINE t == inbox[c]
           e == <<>>
<1>1. t \in Leftovers /\ t \in Bytes /\ Len(t) \in Nat /\ (t # e => CutBefore(c))
  BY BytesAre DEF Left, Leftovers
<1>2. n \in 1..Len(t) /\ n \in 0..Len(t)
  BY <1>1
<1>3. t # e
  <2>1. Len(e) = 0
    OBVIOUS
  <2> HIDE DEF t, e
  <2> QED
    BY <1>2, <2>1
<1>4. t \o e = t /\ e \in Frames \union {<<>>}
  BY <1>1, Joins
<1> HIDE DEF t, e
<1>5. IsLost(WayOf(SubSeq(t \o e, 1, n)))
  <2>1. n \in 1..Len(t \o e) /\ t # <<>>
    BY <1>2, <1>3, <1>4 DEF e
  <2> QED
    BY <1>1, <1>4, <2>1, Misaligned
<1>6. WayOf(SubSeq(inbox[c], 1, n)).way # "serves"
  BY <1>4, <1>5, LostIs, Zenon DEF t
<1>7. NotServed(c) /\ inbox'[c] = SubSeq(t, n + 1, Len(t)) /\ CutsGrow
  BY <1>6, MessageIs DEF t
<1>8. inbox'[c] \in Leftovers
  BY <1>1, <1>2, <1>7, RestOfLeftover
<1>9. CutBefore(c)'
  <2>1. CutBefore(c) /\ cuts[c] \subseteq cuts'[c] /\ served'[c] = served[c]
    BY <1>1, <1>3, <1>7 DEF CutsGrow, NotServed
  <2> QED
    BY <2>1, LeftStays
<1> QED
  BY <1>7, <1>8, <1>9, Zenon DEF Left

(* What is left of a connection, when it is only the inbox that changes.   *)
LEMMA OwnStays ==
  ASSUME ExchangeInv, NEW c \in Connections, NotServed(c), executing[c] = Nothing, provider = "serving",
         UNCHANGED <<deployment, serviceMap, outbox, todo, stage, sent, replies, caller>>,
         CutsGrow, Under(c)'
  PROVE  Exchange(c)'
<1>1. Exchange(c) /\ cuts[c] \subseteq cuts'[c]
  BY DEF ExchangeInv, CutsGrow
<1>2. Matched(c)'
  BY <1>1, MatchedStays DEF Exchange, NotServed
<1>3. Made' = Made /\ Replies' = Replies
  BY DeploymentStays
<1> QED
  BY <1>1, <1>2, <1>3, Zenon DEF Exchange, NotServed

(* Bytes that are left over from before lead to no service.                *)
LEMMA LeftOwn ==
  ASSUME ExchangeInv, NEW c \in Connections, NEW n \in 1..Len(inbox[c]), OnMessage(c, n),
         UNCHANGED callerVars, Left(c, inbox[c]), Resting(c) \/ Ignored(c) \/ Replied(c)
  PROVE  NotServed(c) /\ Exchange(c)' /\ CutBefore(c)'
<1>1. NotServed(c) /\ Left(c, inbox[c])' /\ CutBefore(c)'
  BY LeftRead
<1>2. /\ UNCHANGED <<deployment, serviceMap, outbox, todo, stage, sent, replies, caller>>
      /\ provider = "serving" /\ executing[c] = Nothing
      /\ CutsGrow
  BY MessageIs
<1>3. executing'[c] = executing[c] /\ served' = served
  BY <1>1, <1>2, Zenon DEF NotServed
<1>4. Asking(c) => Asking(c)'
  BY <1>2, Zenon DEF Asking, Call
<1>5. Resting(c) => Resting(c)'
  BY <1>1, <1>2, <1>3, Zenon DEF Resting
<1>6. Ignored(c) => Ignored(c)'
  <2>1. Unserved(c) => Unserved(c)'
    BY <1>2, <1>3, Zenon DEF Unserved
  <2> QED
    BY <1>1, <1>4, <2>1, Zenon DEF Ignored
<1>7. Replied(c) => Replied(c)'
  <2>1. Unanswered(c) => Unanswered(c)'
    BY <1>1, <1>2, <1>3, Zenon DEF Unanswered
  <2>2. LastServed(c)' = LastServed(c)
    BY <1>3, Zenon DEF LastServed
  <2> QED
    BY <1>2, <1>3, <1>4, <2>1, <2>2, Zenon DEF Replied
<1>8. Under(c)'
  BY <1>5, <1>6, <1>7, Zenon DEF Under
<1>9. Exchange(c)'
  BY <1>1, <1>2, <1>8, OwnStays
<1> QED
  BY <1>1, <1>9

(* A frame behind what is left of another is not read from its beginning.  *)
LEMMA BehindLeft ==
  ASSUME ExchangeInv, NEW c \in Connections, NEW n \in 1..Len(inbox[c]), OnMessage(c, n),
         UNCHANGED callerVars, Asking(c), Unserved(c), IsCall(Call(c)),
         NEW t \in Leftovers, t # <<>>, Left(c, t), inbox[c] = t \o Frame(Call(c))
  PROVE  NotServed(c) /\ Exchange(c)' /\ CutBefore(c)'
<1> DEFINE f == Frame(Call(c))
           s == t \o f
           l == Len(t)
           k == Len(f)
<1>1. t \in Bytes /\ l \in Nat /\ f \in Frames /\ f \in Bytes /\ k \in Nat /\ inbox[c] = s
      /\ CutBefore(c)
  BY BytesAre, FrameIs DEF Leftovers, Left
<1> HIDE DEF f
<1>2. Len(s) = l + k
  BY <1>1, BytesJoined
<1>3. n \in 1..Len(s)
  BY <1>1
<1>4. IsLost(WayOf(SubSeq(s, 1, n)))
  BY <1>1, <1>3, Misaligned
<1>5. WayOf(SubSeq(inbox[c], 1, n)).way # "serves"
  BY <1>1, <1>4, LostIs, Zenon
<1>6. /\ NotServed(c)
      /\ UNCHANGED <<deployment, serviceMap, outbox, todo, stage, sent, replies, caller>>
      /\ provider = "serving" /\ executing[c] = Nothing
      /\ CutsGrow
      /\ inbox'[c] = SubSeq(s, n + 1, Len(s))
  BY <1>1, <1>5, MessageIs
<1>7. executing'[c] = executing[c] /\ served' = served /\ CutBefore(c)'
  <2>1. executing'[c] = executing[c] /\ served' = served
    BY <1>6, Zenon DEF NotServed
  <2>2. cuts[c] \subseteq cuts'[c]
    BY <1>6 DEF CutsGrow
  <2> QED
    BY <1>1, <2>1, <2>2, LeftStays
<1>8. Asking(c)' /\ Unserved(c)' /\ Call(c)' = Call(c)
  <2>1. Asking(c)' /\ Call(c)' = Call(c)
    BY <1>6, Zenon DEF Asking, Call
  <2>2. Unserved(c)'
    BY <1>6, <1>7, Zenon DEF Unserved
  <2> QED
    BY <2>1, <2>2
<1> HIDE DEF s
<1>9. CASE n <= l
  <2> DEFINE r == SubSeq(t, n + 1, l)
  <2>1. n \in 0..l
    BY <1>9
  <2>2. inbox'[c] = r \o f
    BY <1>1, <1>6, <2>1, RestOfBoth DEF s
  <2>3. r \in Leftovers
    BY <2>1, RestOfLeftover
  <2> HIDE DEF r
  <2>4. Left(c, r)'
    BY <1>7, <2>3, Zenon DEF Left
  <2>5. Asked(c)'
    BY <1>8, <2>2, <2>3, <2>4, Zenon DEF Asked, f
  <2> QED
    BY <1>6, <1>7, <2>5, OwnStays DEF Under
<1>10. CASE ~(n <= l)
  <2> DEFINE q == n - l
             r == SubSeq(f, q + 1, k)
  <2>1. q \in 1..k /\ q \in 0..k /\ n + 1 = l + q + 1
    BY <1>1, <1>2, <1>3, <1>10
  <2> HIDE DEF q
  <2>2. inbox'[c] = r
    BY <1>1, <1>6, <2>1, RestOfBoth DEF s
  <2>3. r \in Leftovers
    BY <1>1, <2>1, RestOfFrame
  <2> HIDE DEF r
  <2>4. Left(c, inbox[c])'
    BY <1>7, <2>2, <2>3, Zenon DEF Left
  <2>5. Ignored(c)'
    BY <1>7, <1>8, <2>4, Zenon DEF Ignored
  <2> QED
    BY <1>6, <1>7, <2>5, OwnStays DEF Under
<1> QED
  BY <1>9, <1>10

(* A call is handed to the service as the last that was sent.              *)
LEMMA ServedNow ==
  ASSUME ExchangeInv, NEW c \in Connections, NEW call \in ServedCalls, NowServed(c, call),
         Asking(c), Unserved(c), Left(c, inbox[c])',
         UNCHANGED <<deployment, outbox, todo, stage, sent, replies, caller>>,
         CutsGrow, Matches(call, Call(c), cuts'[c], Len(served[c]) + 1)
  PROVE  Exchange(c)'
<1> DEFINE v == served[c]
           k == Len(v)
           w == Append(v, call)
<1>1. Tables /\ Exchange(c) /\ cuts[c] \subseteq cuts'[c]
  BY DEF ExchangeInv, CutsGrow
<1>2. v \in Seq(ServedCalls) /\ k \in Nat /\ replies[c] \in Seq(Replies) /\ sent[c] \in Seq(Made)
  BY <1>1 DEF Exchange
<1>3. /\ w \in Seq(ServedCalls) /\ Len(w) = k + 1 /\ w[k + 1] = call
      /\ \A i \in 1..k : w[i] = v[i]
  BY <1>2
<1> HIDE DEF w
<1>4. served'[c] = w /\ executing'[c] = call
  BY <1>1 DEF NowServed, Tables, w
<1>5. call # Nothing
  <2>1. PICK x, y : call = [method |-> x, request |-> y]
    BY ServedCallsAre, Zenon
  <2> QED
    BY <2>1 DEF Nothing
<1>6. /\ Len(sent[c]) = k + 1 /\ Len(Answered(replies[c])) = k /\ outbox[c] = <<>>
      /\ sent[c][k + 1] = Call(c)
  BY Zenon DEF Unserved, Asking
<1>7. Asking(c)' /\ Call(c)' = Call(c)
  BY Zenon DEF Asking, Call
<1>8. LastServed(c)' = call
  BY <1>3, <1>4, Zenon DEF LastServed
<1>9. Unanswered(c)'
  BY <1>3, <1>4, <1>6, Zenon DEF Unanswered
<1>10. Handled(c)'
  BY <1>4, <1>5, <1>6, <1>7, <1>8, <1>9, Zenon DEF Handled
<1>11. Matched(c)'
  <2>2. \A x, y, i : Matches(x, y, cuts[c], i) => Matches(x, y, cuts'[c], i)
    BY <1>1, MatchesStays
  <2>3. \A i \in 1..k : Matches(v[i], sent[c][i], cuts[c], i)
    BY <1>1, Zenon DEF Exchange, Matched
  <2>4. ASSUME NEW i \in 1..(k + 1) PROVE Matches(served[c][i], sent[c][i], cuts[c], i)'
    <3>1. CASE i = k + 1
      <4>1. served'[c][i] = call /\ sent'[c][i] = Call(c)
        BY <1>3, <1>4, <1>6, <3>1, Zenon
      <4> QED
        BY <3>1, <4>1, Zenon
    <3>2. CASE i \in 1..k
      <4>1. Matches(v[i], sent[c][i], cuts[c], i)
        BY <2>3, <3>2
      <4>2. served'[c][i] = v[i] /\ sent'[c][i] = sent[c][i]
        BY <1>3, <1>4, <3>2, Zenon
      <4> QED
        BY <2>2, <4>1, <4>2, Zenon
    <3>3. i = k + 1 \/ i \in 1..k
      BY <1>2
    <3> QED
      BY <3>1, <3>2, <3>3, Zenon
  <2>5. k <= k + 1 /\ k + 1 <= k + 1 /\ \A i \in 1..k : w[i] = v[i]
    BY <1>2, <1>3
  <2>6. /\ Len(served'[c]) <= Len(sent'[c])
        /\ \A i \in 1..Len(served'[c]) : Matches(served[c][i], sent[c][i], cuts[c], i)'
    BY <1>3, <1>4, <1>6, <2>4, <2>5, Zenon
  <2>7. /\ Len(Answered(replies'[c])) <= Len(served'[c])
        /\ \A i \in 1..Len(Answered(replies'[c])) :
              Answered(replies'[c])[i].method = served'[c][i].method
    <3>1. \A i \in 1..k : Answered(replies[c])[i].method = v[i].method
      BY <1>1, <1>6, Zenon DEF Exchange, Matched
    <3> QED
      BY <1>3, <1>4, <1>6, <2>5, <3>1, Zenon
  <2> QED
    BY <2>6, <2>7, Zenon DEF Matched
<1>12. Made' = Made /\ Replies' = Replies
  BY DeploymentStays
<1> QED
  BY <1>1, <1>3, <1>4, <1>10, <1>11, <1>12, Zenon DEF Exchange, Under

(* A frame read from its beginning: what there is of its request is        *)
(* served, or nothing is and the rest is left.                             *)
LEMMA FrameRead ==
  ASSUME ExchangeInv, NEW c \in Connections, NEW n \in 1..Len(inbox[c]), OnMessage(c, n),
         UNCHANGED callerVars, Asking(c), Unserved(c), IsCall(Call(c)), inbox[c] = Frame(Call(c))
  PROVE  /\ Exchange(c)'
         /\ \/ NotServed(c) /\ (provider' = "serving" \/ CutBefore(c)')
            \/ \E call \in ServedCalls : NowServed(c, call)
<1> DEFINE x == Call(c)
           f == Frame(x)
           w == WayOf(SubSeq(f, 1, n))
           call == [method |-> w.method, request |-> w.request]
           k == Len(f)
<1>1. /\ f \in Frames /\ f \in Bytes /\ k \in Nat /\ n \in 1..k /\ inbox[c] = f
      /\ deployment \in Deployments /\ served[c] \in Seq(ServedCalls)
  BY FrameIs DEF ExchangeInv, Exchange
<1>2. /\ deployment.service \in {UserServiceRpc, FriendServiceRpc}
      /\ serviceMap = MapOf(deployment.service)
  <2>1. provider = "serving" /\ MapInv
    BY MessageIs DEF ExchangeInv
  <2> QED
    BY <1>1, <2>1, ProgramIs DEF MapInv
<1>3. /\ w.way = "serves" =>
            /\ w.method = x.method
            /\ call \in ServedCalls
            /\ \E j \in 0..Len(ArgsStr(x)) : ReadOf(x, j) = [ok |-> TRUE, msg |-> w.request]
      /\ n = k => w.way # "throws"
      /\ n = k /\ x.method \in Known => w.way = "serves" /\ w.request = x.request
      /\ w.way = "serves" => x.method \in Known
  <2> HIDE DEF x
  <2> QED
    BY <1>1, <1>2, WayOfCall DEF x
<1>4. w.way = "serves" => x.method \in Known
  BY <1>3
<1>5. /\ \/ w.way # "serves" /\ NotServed(c)
         \/ w.way = "serves" /\ NowServed(c, call)
      /\ UNCHANGED <<deployment, serviceMap, outbox, todo, stage, sent, replies, caller>>
      /\ provider = "serving" /\ executing[c] = Nothing
      /\ w.way # "throws" => provider' = "serving"
      /\ CutsGrow /\ (n < k => Len(served[c]) + 1 \in cuts'[c])
      /\ inbox'[c] = SubSeq(f, n + 1, k)
  BY <1>1, MessageIs
<1> HIDE DEF w, call, f
<1>6. n # k => CutBefore(c)'
  <2>1. SUFFICES ASSUME n # k PROVE CutBefore(c)'
    OBVIOUS
  <2>2. Len(served[c]) + 1 \in cuts'[c]
    BY <1>1, <1>5, <2>1
  <2>3. Len(served'[c]) \in {Len(served[c]), Len(served[c]) + 1}
    <3>1. CASE NotServed(c)
      BY <3>1 DEF NotServed
    <3>2. CASE NowServed(c, call)
      <4>1. served = [v \in Connections |-> served[v]]
        BY DEF ExchangeInv, Tables
      <4>2. served'[c] = Append(served[c], call)
        BY <3>2, <4>1 DEF NowServed
      <4> QED
        BY <1>1, <4>2
    <3> QED
      BY <1>5, <3>1, <3>2
  <2> QED
    BY <2>2, <2>3 DEF CutBefore
<1>7. Left(c, inbox[c])'
  <2>1. inbox'[c] \in Leftovers
    BY <1>1, <1>5, RestOfFrame
  <2>2. n = k => inbox'[c] = <<>>
    BY <1>1, <1>5, BehindEnd
  <2> QED
    BY <1>6, <2>1, <2>2, Zenon DEF Left
<1>8. Call(c)' = x /\ Known' = Known /\ Asking(c)'
  BY <1>5, Zenon DEF Call, Known, Asking
<1>9. CASE w.way # "serves"
  <2>1. NotServed(c) /\ (provider' = "serving" \/ CutBefore(c)')
    BY <1>3, <1>5, <1>6, <1>9, Zenon
  <2>2. CutBefore(c)' \/ x.method \notin Known
    BY <1>3, <1>6, <1>9, Zenon
  <2>3. Unserved(c)'
    BY <1>5, <2>1, Zenon DEF Unserved, NotServed
  <2>4. Ignored(c)'
    BY <1>7, <1>8, <2>2, <2>3, Zenon DEF Ignored
  <2>5. Exchange(c)'
    BY <1>5, <2>1, <2>4, OwnStays DEF Under
  <2> QED
    BY <2>1, <2>5
<1>10. CASE w.way = "serves"
  <2> DEFINE i == Len(served[c]) + 1
             cut == cuts'[c]
  <2>1. NowServed(c, call) /\ call \in ServedCalls /\ x.method \in Known
    BY <1>3, <1>4, <1>5, <1>10, Zenon
  <2>2. call.method = x.method /\ call.request = w.request
    BY <1>3, <1>10 DEF call
  <2>3. i \notin cut => call.request = x.request
    <3>1. n < k => i \in cut
      BY <1>5
    <3> HIDE DEF i, cut
    <3>2. n < k \/ n = k
      BY <1>1
    <3> QED
      BY <1>3, <2>1, <2>2, <3>1, <3>2, Zenon
  <2>4. \E j \in 0..Len(ArgsStr(x)) : ReadOf(x, j) = [ok |-> TRUE, msg |-> call.request]
    BY <1>3, <1>10, <2>2, Zenon
  <2> HIDE DEF x, i, cut
  <2>5. PICK y : y = call
    BY Zenon
  <2>6. Matches(y, x, cut, i)
    BY <2>2, <2>3, <2>4, <2>5, Zenon DEF Matches, ReadOf, ArgsStr
  <2>7. Matches(y, Call(c), cuts'[c], Len(served[c]) + 1)
    BY <2>6, Zenon DEF x, cut, i
  <2>8. Exchange(c)'
    BY <1>5, <1>7, <2>1, <2>5, <2>7, ServedNow
  <2> QED
    BY <2>1, <2>8
<1> QED
  BY <1>9, <1>10

(* Wherever the exchange of its connection is.                             *)
LEMMA OwnConnection ==
  ASSUME ExchangeInv, NEW c \in Connections, NEW n \in 1..Len(inbox[c]), OnMessage(c, n),
         UNCHANGED callerVars
  PROVE  /\ Exchange(c)'
         /\ \/ NotServed(c) /\ (provider' = "serving" \/ CutBefore(c)')
            \/ \E call \in ServedCalls : NowServed(c, call)
<1>1. provider = "serving" /\ executing[c] = Nothing
  BY MessageIs
<1>2. Exchange(c) /\ deployment \in Deployments
  BY DEF ExchangeInv
<1>3. CASE Resting(c) \/ Ignored(c) \/ Replied(c)
  <2>1. Left(c, inbox[c])
    BY <1>3, Zenon DEF Resting, Ignored, Replied, Unanswered
  <2> QED
    BY <1>3, <2>1, LeftOwn
<1>4. CASE Asked(c)
  <2>1. PICK t \in Leftovers : Left(c, t) /\ inbox[c] = t \o Frame(Call(c))
    BY <1>4, Zenon DEF Asked
  <2>2. Asking(c) /\ Unserved(c)
    BY <1>4, Zenon DEF Asked
  <2>3. IsCall(Call(c))
    <3>1. Call(c) \in Made
      BY <1>2, <2>2 DEF Exchange, Asking, Call
    <3> QED
      BY <1>2, <3>1, ProgramIs
  <2>4. CASE t = <<>>
    <3>1. Frame(Call(c)) \in Bytes
      BY <2>3, FrameIs
    <3>2. inbox[c] = Frame(Call(c))
      BY <2>1, <2>4, <3>1, Joins
    <3> QED
      BY <2>2, <2>3, <3>2, FrameRead
  <2>5. CASE t # <<>>
    BY <2>1, <2>2, <2>3, <2>5, BehindLeft
  <2> QED
    BY <2>4, <2>5
<1> QED
  BY <1>1, <1>2, <1>3, <1>4, Zenon DEF Exchange, Under, Handled, Gone

(* OnMessage, whatever has come of what is on the way.                     *)
LEMMA MessageStep ==
  ASSUME ExchangeInv, NEW c \in Connections, NEW n \in 1..Len(inbox[c]), OnMessage(c, n),
         UNCHANGED callerVars
  PROVE  ExchangeInv'
<1>1. /\ Exchange(c)'
      /\ \/ NotServed(c) /\ (provider' = "serving" \/ CutBefore(c)')
         \/ \E call \in ServedCalls : NowServed(c, call)
  BY OwnConnection
<1>2. /\ UNCHANGED <<deployment, serviceMap, outbox, todo, stage, sent, replies, caller>>
      /\ provider = "serving" /\ executing[c] = Nothing
      /\ CutsGrow
      /\ inbox' = [v \in Connections |-> inbox'[v]]
      /\ \A v \in Connections : v # c => inbox'[v] = inbox[v]
  BY MessageIs
<1>3. Tables /\ MapInv /\ (caller = "off" => \A w \in Connections : todo[w] = <<>>)
  BY DEF ExchangeInv
<1>4. provider' \in {"serving", "aborted"}
  BY <1>1 DEF NotServed, NowServed
<1>5. MapInv'
  <2>1. serviceMap = MapOf(deployment.service)
    BY <1>2, <1>3 DEF MapInv
  <2>2. MapOf(deployment.service)' = MapOf(deployment.service)
    BY <1>2 DEF MapOf, MethodMap
  <2> QED
    BY <1>2, <1>4, <2>1, <2>2 DEF MapInv
<1>6. CASE NotServed(c) /\ (provider' = "serving" \/ CutBefore(c)')
  <2>1. Tables'
    BY <1>2, <1>3, <1>6, Zenon DEF Tables, NotServed
  <2>2. \A v \in Connections : UNCHANGED Of(v) \/ Exchange(v)'
    BY <1>1, <1>2, <1>6, OtherConnection
  <2>3. provider' # "serving" => \A w \in Connections : executing'[w] = Nothing
    BY <1>6, Zenon DEF NotServed
  <2>4. caller' = "off" => \A w \in Connections : todo'[w] = <<>>
    BY <1>2, <1>3
  <2>5. provider # "aborted" /\ (provider' = "aborted" => \E v \in Connections : cuts'[v] # {})
    BY <1>2, <1>6 DEF CutBefore
  <2> QED
    BY <1>2, <1>5, <2>1, <2>2, <2>3, <2>4, <2>5, ExchangeStep
<1>7. CASE \E call \in ServedCalls : NowServed(c, call)
  <2>1. PICK call \in ServedCalls : NowServed(c, call)
    BY <1>7
  <2>2. /\ provider' = "serving"
        /\ executing' = [executing EXCEPT ![c] = call]
        /\ served' = [served EXCEPT ![c] = Append(served[c], call)]
    BY <2>1 DEF NowServed
  <2>3. /\ executing' = [v \in Connections |-> executing'[v]]
        /\ \A v \in Connections : v # c => executing'[v] = executing[v]
    BY <1>3, <2>2, Changed DEF Tables
  <2>4. /\ served' = [v \in Connections |-> served'[v]]
        /\ \A v \in Connections : v # c => served'[v] = served[v]
    BY <1>3, <2>2, Changed DEF Tables
  <2>5. Tables'
    BY <1>2, <1>3, <2>3, <2>4, Zenon DEF Tables
  <2>6. \A v \in Connections : UNCHANGED Of(v) \/ Exchange(v)'
    BY <1>1, <1>2, <2>3, <2>4 DEF Of
  <2>7. caller' = "off" => \A w \in Connections : todo'[w] = <<>>
    BY <1>2, <1>3
  <2> QED
    BY <1>2, <1>5, <2>2, <2>5, <2>6, <2>7, ExchangeStep
<1> QED
  BY <1>1, <1>6, <1>7

(* Every step keeps the exchanges as they are told.                        *)
LEMMA NextExchange == ExchangeInv /\ [Next]_vars => ExchangeInv'
<1> SUFFICES ASSUME ExchangeInv, [Next]_vars PROVE ExchangeInv'
  OBVIOUS
<1>1. CASE ProviderNext /\ UNCHANGED callerVars
  <2>1. CASE ProviderMain \/ NotifyService \/ RunBinds \/ RunCreates \/ RunStarts
    BY <1>1, <2>1, StartSteps
  <2>2. CASE \E c \in Connections : CallMethodAndDone(c)
    BY <1>1, <2>2, HandledStep
  <2>3. CASE \E c \in Connections : \E n \in 1..Len(inbox[c]) : OnMessage(c, n)
    BY <1>1, <2>3, MessageStep
  <2> QED
    BY <1>1, <2>1, <2>2, <2>3, Zenon DEF ProviderNext
<1>2. CASE CallerMain
  BY <1>2, MainStep
<1>3. CASE \E w \in Connections : NotExisted(w) \/ BorrowFails(w) \/ SendOrReceiveFails(w)
  BY <1>3, FailSteps
<1>4. CASE \E w \in Connections : Existed(w) \/ Borrow(w)
  BY <1>4, ConnectSteps
<1>5. CASE \E w \in Connections : Send(w)
  BY <1>5, SendStep
<1>6. CASE \E w \in Connections : Receive(w)
  BY <1>6, ReceiveStep
<1>7. CASE Report \/ (\E w \in Connections : NotExistedNull(w)) \/ Over \/ UNCHANGED vars
  BY <1>7, OtherSteps
<1> QED
  BY <1>1, <1>2, <1>3, <1>4, <1>5, <1>6, <1>7, Zenon DEF Next, CallerNext

(* The exchanges are always in the order that the invariant tells.         *)
THEOREM ExchangeHolds == Spec => []ExchangeInv
BY InitExchange, NextExchange, PTL DEF Spec

-----------------------------------------------------------------------------
(* What follows for the properties                                         *)

(* Every call is handed to a service at most once, in the order of the     *)
(* calls, as it was sent, or as what had come of it parses.                *)
THEOREM ServedAsSentHolds == Spec => []ServedAsSent
<1>1. ExchangeInv => ServedAsSent
  <2> SUFFICES ASSUME ExchangeInv, NEW c \in Connections
               PROVE  /\ Len(served[c]) <= Len(sent[c])
                      /\ \A i \in DOMAIN served[c] :
                           LET args == SerializeToString(sent[c][i].request)
                               Parsing(n) == ParseFromString(GetRequestPrototype(sent[c][i].method),
                                                             SubSeq(args, 1, n))
                           IN /\ served[c][i].method = sent[c][i].method
                              /\ i \notin cuts[c] => served[c][i].request = sent[c][i].request
                              /\ \E n \in 0..Len(args) : Parsing(n) = [ok |-> TRUE, msg |-> served[c][i].request]
    BY Zenon DEF ServedAsSent
  <2>1. Matched(c) /\ served[c] \in Seq(ServedCalls)
    BY DEF ExchangeInv, Exchange
  <2>2. DOMAIN served[c] = 1..Len(served[c])
    BY <2>1, LenProperties
  <2>3. \A i \in DOMAIN served[c] : Matches(served[c][i], sent[c][i], cuts[c], i)
    BY <2>1, <2>2, Zenon DEF Matched
  <2> QED
    BY <2>1, <2>3, Zenon DEF Matched, Matches
<1> QED
  BY <1>1, ExchangeHolds, PTL

(* A reply of a call that has come to its last line, and one that has not. *)
LEMMA RepliesAre ==
  ASSUME deployment \in Deployments, NEW r \in Replies
  PROVE  /\ r.method \in Methods
         /\ r.answered => r = GoodReply(r.method)
         /\ ~r.answered =>
               \E reason \in Reasons : r = FailedReply(r.method, reason)
<1>1. \A c \in Made : c.method \in Methods
  BY ProgramIs, Zenon DEF IsCall
<1>2. \A m, x : /\ GoodReply(m).method = m /\ GoodReply(m).answered
                /\ FailedReply(m, x).method = m /\ ~FailedReply(m, x).answered
  BY DEF GoodReply, FailedReply
<1>3. \/ \E c \in Made : r = GoodReply(c.method)
      \/ \E c \in Made : \E x \in Reasons : r = FailedReply(c.method, x)
  BY DEF Replies
<1>4. CASE \E c \in Made : r = GoodReply(c.method)
  <2>1. PICK c \in Made : r = GoodReply(c.method)
    BY <1>4
  <2> QED
    BY <1>1, <1>2, <2>1, Zenon
<1>5. CASE \E c \in Made : \E x \in Reasons : r = FailedReply(c.method, x)
  <2>1. PICK c \in Made : \E x \in Reasons : r = FailedReply(c.method, x)
    BY <1>5
  <2>2. PICK x \in Reasons : r = FailedReply(c.method, x)
    BY <2>1
  <2>3. r.method = c.method /\ ~r.answered
    BY <1>2, <2>2, Zenon
  <2> QED
    BY <1>1, <2>2, <2>3, Zenon
<1> QED
  BY <1>3, <1>4, <1>5

(* The responses of the calls that are answered are the answers to the     *)
(* requests served, in order; those of the others are as they were.        *)
THEOREM EndToEndHolds == Spec => []EndToEnd
<1>1. ExchangeInv => EndToEnd
  <2> SUFFICES ASSUME ExchangeInv, NEW w \in Connections
               PROVE  LET answered == Answered(replies[w])
                          Answer(call) == Service_CallMethod(call.method, call.request,
                                                             GetResponsePrototype(call.method))
                      IN /\ Len(answered) <= Len(served[w])
                         /\ \A i \in DOMAIN answered :
                               /\ answered[i].method = served[w][i].method
                               /\ answered[i].response = Answer(served[w][i])
                         /\ \A i \in DOMAIN replies[w] :
                               ~replies[w][i].answered =>
                                   replies[w][i].response = GetResponsePrototype(replies[w][i].method)
    BY Zenon DEF EndToEnd
  <2> DEFINE answered == Answered(replies[w])
             Q == {r \in Replies : r.answered}
  <2>1. Matched(w) /\ replies[w] \in Seq(Replies) /\ deployment \in Deployments
    BY DEF ExchangeInv, Exchange
  <2>2. answered \in Seq(Q)
    BY <2>1, AnsweredAre
  <2> HIDE DEF Q
  <2>3. answered \in [1..Len(answered) -> Q] /\ replies[w] \in [1..Len(replies[w]) -> Replies]
    BY <2>1, <2>2, LenProperties
  <2>4. ASSUME NEW i \in DOMAIN answered
        PROVE  /\ answered[i].method = served[w][i].method
               /\ answered[i].response
                  = Service_CallMethod(served[w][i].method, served[w][i].request,
                                       GetResponsePrototype(served[w][i].method))
    <3>1. i \in 1..Len(answered) /\ answered[i] \in Q
      BY <2>3, <2>4
    <3>2. answered[i].method = served[w][i].method
      BY <2>1, <3>1, Zenon DEF Matched
    <3>3. answered[i] \in Replies /\ answered[i].answered
      BY <3>1 DEF Q
    <3>4. answered[i].method \in Methods /\ answered[i] = GoodReply(answered[i].method)
      BY <2>1, <3>3, RepliesAre, Zenon
    <3>5. \A m : GoodReply(m).response = AnswerTo(m)
      BY DEF GoodReply
    <3>6. answered[i].response = AnswerTo(served[w][i].method)
      BY <3>2, <3>4, <3>5, Zenon
    <3> QED
      BY <3>2, <3>4, <3>6, AnswersAre, Zenon
  <2>5. ASSUME NEW i \in DOMAIN replies[w], ~replies[w][i].answered
        PROVE  replies[w][i].response = GetResponsePrototype(replies[w][i].method)
    <3>1. replies[w][i] \in Replies
      BY <2>3
    <3>2. PICK x \in Reasons : replies[w][i] = FailedReply(replies[w][i].method, x)
      BY <2>1, <2>5, <3>1, RepliesAre, Zenon
    <3>3. \A m : FailedReply(m, x).response = GetResponsePrototype(m)
      BY DEF FailedReply
    <3> QED
      BY <3>2, <3>3, Zenon
  <2>6. Len(answered) <= Len(served[w])
    BY <2>1, Zenon DEF Matched
  <2> QED
    BY <2>4, <2>5, <2>6, Zenon
<1> QED
  BY <1>1, ExchangeHolds, PTL

(* The provider aborts only when a segment has ended early, and a call     *)
(* waits in vain only when one has before it was to be served or the call  *)
(* before it was, on its own connection, or when the provider does not     *)
(* have its method.                                                        *)
THEOREM AnsweredUnlessCutHolds == Spec => []AnsweredUnlessCut
<1>1. ExchangeInv => AnsweredUnlessCut
  <2> SUFFICES ASSUME ExchangeInv
               PROVE  \A w \in Connections :
                         Waits(w) => \/ {Len(sent[w]) - 1, Len(sent[w])} \intersect cuts[w] # {}
                                     \/ Call(w).method \notin Known
    BY Zenon DEF AnsweredUnlessCut, Known, ExchangeInv
  <2> SUFFICES ASSUME NEW w \in Connections, Waits(w)
               PROVE  \/ {Len(sent[w]) - 1, Len(sent[w])} \intersect cuts[w] # {}
                      \/ Call(w).method \notin Known
    OBVIOUS
  <2>1. /\ stage[w] = "receive" /\ FrameEnd(outbox[w]) = 0 /\ inbox[w] = <<>>
        /\ executing[w] = Nothing /\ provider = "serving" /\ todo[w] # <<>>
    BY DEF Waits, Calling
  <2>2. Exchange(w) /\ deployment \in Deployments
    BY DEF ExchangeInv
  <2>3. ~Asked(w)
    <3>1. SUFFICES ASSUME Asked(w) PROVE FALSE
      OBVIOUS
    <3>2. PICK t \in Leftovers : inbox[w] = t \o Frame(Call(w))
      BY <3>1, Zenon DEF Asked
    <3>3. Call(w) \in Made
      BY <2>1, <2>2 DEF Exchange, Call
    <3>4. IsCall(Call(w))
      BY <2>2, <3>3, ProgramIs
    <3> DEFINE f == Frame(Call(w))
    <3>5. f \in Bytes /\ 5 <= Len(f) /\ Len(f) \in Nat /\ t \in Bytes /\ Len(t) \in Nat
      BY <3>4, FrameIs, BytesAre DEF Frames, Leftovers
    <3> HIDE DEF f
    <3>6. Len(t \o f) = Len(t) + Len(f)
      BY <3>5, BytesJoined
    <3>7. Len(<<>>) = 0
      OBVIOUS
    <3>8. inbox[w] = t \o f
      BY <3>2 DEF f
    <3> QED
      BY <2>1, <3>5, <3>6, <3>7, <3>8
  <2>4. ~Replied(w)
    <3>1. SUFFICES ASSUME Replied(w) PROVE FALSE
      OBVIOUS
    <3>2. /\ served[w] \in Seq(ServedCalls) /\ sent[w] \in Seq(Made) /\ sent[w] # <<>>
          /\ Len(sent[w]) = Len(served[w])
      BY <2>2, <3>1 DEF Exchange, Replied, Asking, Unanswered
    <3>3. LastServed(w) \in ServedCalls
      BY <3>2 DEF LastServed
    <3>4. LastServed(w).method \in Methods
      BY <3>3, ServedCallsAre
    <3>5. FrameEnd(AnswerFrame(LastServed(w).method)) > 0
      BY <3>4, AnswerFrameIs
    <3>6. outbox[w] = AnswerFrame(LastServed(w).method)
      BY <3>1, Zenon DEF Replied
    <3> QED
      BY <2>1, <3>5, <3>6
  <2>5. Ignored(w)
    BY <2>1, <2>2, <2>3, <2>4, Zenon DEF Exchange, Under, Resting, Handled, Gone
  <2>6. Len(sent[w]) = Len(served[w]) + 1 /\ Len(served[w]) \in Nat
    BY <2>2, <2>5 DEF Exchange, Ignored, Unserved
  <2>7. Len(sent[w]) - 1 = Len(served[w])
    BY <2>6
  <2>8. CutBefore(w) \/ Call(w).method \notin Known
    BY <2>5, Zenon DEF Ignored
  <2> QED
    BY <2>6, <2>7, <2>8 DEF CutBefore
<1> QED
  BY <1>1, ExchangeHolds, PTL

-----------------------------------------------------------------------------
(* What the programs count                                                 *)

Counters == [ok : Nat, fail : Nat, rtts : Nat]

Begun == caller \notin {"off", "exited"}

CountInv ==
    /\ tally = [w \in Connections |-> tally[w]]
    /\ \A w \in Connections : tally[w] \in Counters /\ Progress(w)
    /\ caller = "reported" => Joined
    /\ ReportTrue

(* What a call has come to looks good to its caller, when it has a         *)
(* controller, exactly when it has been answered.                          *)
LEMMA LooksGoodIs ==
  ASSUME deployment \in Deployments, deployment.program # "user", NEW r \in Replies
  PROVE  LooksGood(r) <=> r.answered
<1>1. Controller = KopirpcController
  BY DEF Controller
<1>2. ~Failed(KopirpcController) /\ ~KopirpcController.null
  BY DEF Failed, KopirpcController
<1>3. \A x : Failed(SetFailed(KopirpcController, x))
  BY DEF Failed, SetFailed, KopirpcController
<1>4. \A x : Failed(SetFailedIfAny(Controller, x))
  BY <1>1, <1>2, <1>3, Zenon DEF SetFailedIfAny
<1>5. /\ \A m : GoodReply(m).controller = Controller /\ GoodReply(m).response = AnswerTo(m)
      /\ \A m, x : FailedReply(m, x).controller = SetFailedIfAny(Controller, x)
  BY DEF GoodReply, FailedReply
<1>6. CASE r.answered
  <2>1. r = GoodReply(r.method) /\ r.method \in Methods
    BY <1>6, RepliesAre
  <2>2. Result(AnswerTo(r.method)).errcode = 0
    BY <2>1, AnswerFits
  <2>3. r.controller = KopirpcController /\ r.response = AnswerTo(r.method)
    BY <1>1, <1>5, <2>1, Zenon
  <2> QED
    BY <1>2, <1>6, <2>2, <2>3, Zenon DEF LooksGood
<1>7. CASE ~r.answered
  <2>1. PICK x \in Reasons : r = FailedReply(r.method, x)
    BY <1>7, RepliesAre
  <2>2. Failed(r.controller)
    BY <1>4, <1>5, <2>1, Zenon
  <2> QED
    BY <1>7, <2>2, Zenon DEF LooksGood
<1> QED
  BY <1>6, <1>7

(* One more call counted.                                                  *)
LEMMA CountedIs ==
  ASSUME NEW t \in Counters, NEW r
  PROVE  LET u == Counted(t, r)
         IN /\ u \in Counters
            /\ LooksGood(r) => u.ok = t.ok + 1 /\ u.rtts = t.rtts + 1 /\ u.fail = t.fail
            /\ ~LooksGood(r) => u.ok = t.ok /\ u.rtts = t.rtts /\ u.fail = t.fail + 1
<1>1. CASE LooksGood(r)
  <2> DEFINE v == [t EXCEPT !.ok = t.ok + 1]
             u == [v EXCEPT !.rtts = t.rtts + 1]
  <2>1. Counted(t, r) = u
    BY <1>1 DEF Counted
  <2>2. v \in Counters /\ v.ok = t.ok + 1 /\ v.rtts = t.rtts /\ v.fail = t.fail /\ t.rtts + 1 \in Nat
    BY DEF Counters
  <2> HIDE DEF v
  <2>3. u \in Counters /\ u.ok = v.ok /\ u.rtts = t.rtts + 1 /\ u.fail = v.fail
    BY <2>2 DEF Counters
  <2> HIDE DEF u
  <2> QED
    BY <1>1, <2>1, <2>2, <2>3
<1>2. CASE ~LooksGood(r)
  <2>1. Counted(t, r) = [t EXCEPT !.fail = t.fail + 1]
    BY <1>2 DEF Counted
  <2> QED
    BY <1>2, <2>1 DEF Counters
<1> QED
  BY <1>1, <1>2

(* The report stays true as long as what it counts stays.                  *)
LEMMA ReportStays ==
  ASSUME ReportTrue, UNCHANGED <<deployment, replies, report>>
  PROVE  caller = "reported" => ReportTrue'
<1>1. IsBench' = IsBench /\ Threads' = Threads
  BY DeploymentStays
<1>2. [w \in Threads |-> Len(Answered(replies[w]))]' = [w \in Threads |-> Len(Answered(replies[w]))]
  BY <1>1
<1>3. \A f : Sum(f)' = Sum(f)
  BY <1>1 DEF Sum
<1> QED
  BY <1>1, <1>2, <1>3, Zenon DEF ReportTrue

(* A step that returns from no call counts nothing.                        *)
LEMMA QuietCount ==
  ASSUME CountInv, UNCHANGED <<deployment, replies, todo, tally>>, Begun' <=> Begun,
         caller' = "reported" => caller = "reported" /\ report' = report
  PROVE  CountInv'
<1>1. IsBench' = IsBench /\ Threads' = Threads /\ Calls' = Calls
  BY DeploymentStays
<1>2. ASSUME NEW w \in Connections PROVE tally'[w] \in Counters /\ Progress(w)'
  <2>1. tally[w] \in Counters /\ Progress(w)
    BY DEF CountInv
  <2>2. /\ Len(replies[w]) + Len(todo[w]) = IF ~Begun \/ w \notin Threads THEN 0 ELSE Len(Calls)
        /\ IsBench =>
              /\ tally[w].ok = Len(Answered(replies[w]))
              /\ tally[w].rtts = tally[w].ok
              /\ tally[w].ok + tally[w].fail = Len(replies[w])
        /\ w \notin Threads => todo[w] = <<>>
    BY <2>1 DEF Progress, Begun
  <2>3. Progress(w)'
    BY <1>1, <2>2 DEF Progress, Begun
  <2> QED
    BY <2>1, <2>3
<1>3. tally' = [w \in Connections |-> tally'[w]]
  BY DEF CountInv
<1>4. ReportTrue'
  <2>1. CASE caller' = "reported"
    BY <2>1, ReportStays DEF CountInv
  <2>2. CASE caller' # "reported"
    BY <2>2 DEF ReportTrue
  <2> QED
    BY <2>1, <2>2
<1>5. caller' = "reported" => Joined'
  BY <1>1 DEF CountInv, Joined
<1> QED
  BY <1>2, <1>3, <1>4, <1>5, Zenon DEF CountInv

(* At first nothing is counted.                                            *)
LEMMA InitCount == Init => CountInv
<1> SUFFICES ASSUME Init PROVE CountInv
  OBVIOUS
<1>1. /\ caller = "off" /\ todo = [w \in Connections |-> <<>>] /\ replies = [w \in Connections |-> <<>>]
      /\ tally = [w \in Connections |-> NoTally]
  BY DEF Init
<1>2. NoTally \in Counters /\ NoTally.ok = 0 /\ NoTally.fail = 0 /\ NoTally.rtts = 0
  BY DEF NoTally, Counters
<1>3. tally = [w \in Connections |-> tally[w]]
  BY <1>1
<1>4. Len(<<>>) = 0
  OBVIOUS
<1>5. ASSUME NEW w \in Connections PROVE tally[w] \in Counters /\ Progress(w)
  <2>1. tally[w] = NoTally /\ todo[w] = <<>> /\ replies[w] = <<>>
    BY <1>1
  <2>2. Len(replies[w]) = 0 /\ Len(todo[w]) = 0 /\ Len(Answered(replies[w])) = 0
    BY <1>4, <2>1, NoneAnswered
  <2> QED
    BY <1>1, <1>2, <2>1, <2>2 DEF Progress
<1> QED
  BY <1>1, <1>3, <1>5 DEF CountInv, ReportTrue

(* main() hands out the calls and has counted none.                        *)
LEMMA MainCount ==
  ASSUME ExchangeInv, CountInv, CallerMain
  PROVE  CountInv'
<1>1. caller = "off" /\ UNCHANGED <<deployment, replies, tally>> /\ deployment \in Deployments
  BY DEF CallerMain, ExchangeInv
<1>2. IsBench' = IsBench /\ Threads' = Threads /\ Calls' = Calls
  BY <1>1, DeploymentStays
<1>3. /\ caller' = "exited" /\ todo' = todo
      \/ /\ caller' = "calling" /\ todo' = [w \in Connections |-> IF w \in Threads THEN Calls ELSE <<>>]
  BY DEF CallerMain
<1>4. Calls \in Seq(Made) /\ Len(<<>>) = 0
  BY <1>1, ProgramIs
<1>5. ASSUME NEW w \in Connections PROVE tally'[w] \in Counters /\ Progress(w)'
  <2>1. /\ tally[w] \in Counters /\ Progress(w) /\ todo[w] = <<>>
        /\ replies[w] \in Seq(Replies)
    BY <1>1 DEF CountInv, ExchangeInv, Exchange
  <2>2. Len(replies[w]) = 0
    BY <1>1, <1>4, <2>1 DEF Progress
  <2>3. IsBench =>
              /\ tally[w].ok = Len(Answered(replies[w]))
              /\ tally[w].rtts = tally[w].ok
              /\ tally[w].ok + tally[w].fail = Len(replies[w])
    BY <2>1 DEF Progress
  <2>4. CASE caller' = "exited" /\ todo' = todo
    BY <1>1, <1>2, <1>4, <2>1, <2>2, <2>3, <2>4 DEF Progress
  <2>5. CASE caller' = "calling" /\ todo' = [v \in Connections |-> IF v \in Threads THEN Calls ELSE <<>>]
    <3>1. Len(Calls) \in Nat
      BY <1>4
    <3>2. todo'[w] = IF w \in Threads THEN Calls ELSE <<>>
      BY <2>5
    <3>3. Len(replies[w]) + Len(todo'[w]) = IF w \notin Threads THEN 0 ELSE Len(Calls)
      BY <1>4, <2>2, <3>1, <3>2
    <3> QED
      BY <1>1, <1>2, <2>1, <2>3, <2>5, <3>2, <3>3 DEF Progress
  <2> QED
    BY <1>3, <2>4, <2>5
<1>6. tally' = [w \in Connections |-> tally'[w]]
  BY <1>1 DEF CountInv
<1> QED
  BY <1>3, <1>5, <1>6 DEF CountInv, ReportTrue

(* A call that returns is counted, and as good exactly when it has been    *)
(* answered.                                                               *)
LEMMA ReturnedCount ==
  ASSUME ExchangeInv, CountInv, NEW w \in Connections, NEW r \in Replies, Returned(w, r),
         caller = "calling", todo[w] # <<>>
  PROVE  CountInv'
<1>1. /\ Tables /\ Exchange(w) /\ deployment \in Deployments
      /\ tally = [v \in Connections |-> tally[v]]
      /\ \A v \in Connections : tally[v] \in Counters /\ Progress(v)
  BY DEF ExchangeInv, CountInv
<1>2. /\ replies' = [replies EXCEPT ![w] = Append(replies[w], r)]
      /\ todo' = [todo EXCEPT ![w] = Tail(todo[w])]
      /\ tally' = IF IsBench THEN [tally EXCEPT ![w] = Counted(tally[w], r)] ELSE tally
      /\ UNCHANGED <<deployment, caller, report>>
  BY Zenon DEF Returned
<1>3. /\ replies'[w] = Append(replies[w], r)
      /\ \A v \in Connections : v # w => replies'[v] = replies[v]
  BY <1>1, <1>2, Changed DEF Tables
<1>4. /\ todo'[w] = Tail(todo[w])
      /\ \A v \in Connections : v # w => todo'[v] = todo[v]
  BY <1>1, <1>2, Changed DEF Tables
<1>5. /\ tally' = [v \in Connections |-> tally'[v]]
      /\ tally'[w] = IF IsBench THEN Counted(tally[w], r) ELSE tally[w]
      /\ \A v \in Connections : v # w => tally'[v] = tally[v]
  <2>1. CASE IsBench
    BY <1>1, <1>2, <2>1, Changed
  <2>2. CASE ~IsBench
    BY <1>1, <1>2, <2>2
  <2> QED
    BY <2>1, <2>2
<1>6. IsBench' = IsBench /\ Threads' = Threads /\ Calls' = Calls
  BY <1>2, DeploymentStays
<1>7. ASSUME NEW v \in Connections, v # w PROVE tally'[v] \in Counters /\ Progress(v)'
  BY <1>1, <1>2, <1>3, <1>4, <1>5, <1>6, <1>7 DEF Progress
<1>8. tally'[w] \in Counters /\ Progress(w)'
  <2>1. w \in Threads
    BY <1>1 DEF Progress
  <2>2. replies[w] \in Seq(Replies) /\ todo[w] \in Seq(Made)
    BY <1>1 DEF Exchange
  <2>3. Len(replies'[w]) = Len(replies[w]) + 1 /\ Len(replies[w]) \in Nat
    BY <1>3, <2>2
  <2>4. Len(todo'[w]) = Len(todo[w]) - 1 /\ Len(todo[w]) \in Nat
    BY <1>4, <2>2
  <2>5. Answered(replies'[w]) = CountsIf(r, Answered(replies[w]))
    BY <1>3, <2>2, AnsweredGrows
  <2>6. Answered(replies[w]) \in Seq(Replies)
    <3>1. Answered(replies[w]) \in Seq({x \in Replies : x.answered})
      BY <2>2, AnsweredAre
    <3> QED
      BY <3>1
  <2>7. Len(Answered(replies'[w])) = Len(Answered(replies[w])) + IF r.answered THEN 1 ELSE 0
    BY <2>5, <2>6 DEF CountsIf
  <2>8. Len(replies[w]) + Len(todo[w]) = Len(Calls)
    <3>1. Progress(w) /\ caller \notin {"off", "exited"}
      BY <1>1
    <3> QED
      BY <2>1, <3>1, Zenon DEF Progress
  <2>9. Len(replies'[w]) + Len(todo'[w]) = Len(Calls)
    <3>1. ASSUME NEW a \in Nat, NEW b \in Nat PROVE (a + 1) + (b - 1) = a + b
      OBVIOUS
    <3>2. (Len(replies[w]) + 1) + (Len(todo[w]) - 1) = Len(replies[w]) + Len(todo[w])
      BY <2>3, <2>4, <3>1
    <3> QED
      BY <2>3, <2>4, <2>8, <3>2, Zenon
  <2>10. tally[w] \in Counters
    BY <1>1
  <2>11. CASE IsBench
    <3>1. LooksGood(r) <=> r.answered
      BY <1>1, <2>11, LooksGoodIs DEF IsBench
    <3>2. /\ tally[w].ok = Len(Answered(replies[w]))
          /\ tally[w].rtts = tally[w].ok
          /\ tally[w].ok + tally[w].fail = Len(replies[w])
      BY <1>1, <2>11 DEF Progress
    <3>3. /\ tally'[w] \in Counters
          /\ LooksGood(r) => /\ tally'[w].ok = tally[w].ok + 1 /\ tally'[w].rtts = tally[w].rtts + 1
                             /\ tally'[w].fail = tally[w].fail
          /\ ~LooksGood(r) => /\ tally'[w].ok = tally[w].ok /\ tally'[w].rtts = tally[w].rtts
                              /\ tally'[w].fail = tally[w].fail + 1
      BY <1>5, <2>10, <2>11, CountedIs
    <3>4. tally[w].ok \in Nat /\ tally[w].fail \in Nat /\ tally[w].rtts \in Nat
      BY <2>10 DEF Counters
    <3>5. /\ tally'[w].ok = Len(Answered(replies'[w]))
          /\ tally'[w].rtts = tally'[w].ok
          /\ tally'[w].ok + tally'[w].fail = Len(replies'[w])
      <4>1. CASE r.answered
        <5>1. Len(Answered(replies'[w])) = Len(Answered(replies[w])) + 1
          BY <2>7, <4>1
        <5> QED
          BY <2>3, <3>1, <3>2, <3>3, <3>4, <4>1, <5>1
      <4>2. CASE ~r.answered
        <5>1. Len(Answered(replies'[w])) = Len(Answered(replies[w]))
          BY <2>6, <2>7, <4>2
        <5>2. /\ tally'[w].ok = tally[w].ok /\ tally'[w].rtts = tally[w].rtts
              /\ tally'[w].fail = tally[w].fail + 1
          BY <3>1, <3>3, <4>2, Zenon
        <5>3. tally[w].ok + (tally[w].fail + 1) = (tally[w].ok + tally[w].fail) + 1
          BY <3>4
        <5> QED
          BY <2>3, <3>2, <5>1, <5>2, <5>3, Zenon
      <4> QED
        BY <4>1, <4>2
    <3> QED
      BY <1>2, <1>6, <2>1, <2>9, <3>3, <3>5 DEF Progress
  <2>12. CASE ~IsBench
    BY <1>2, <1>5, <1>6, <2>1, <2>9, <2>10, <2>12 DEF Progress
  <2> QED
    BY <2>11, <2>12
<1>9. caller' # "reported"
  BY <1>2
<1> QED
  BY <1>5, <1>7, <1>8, <1>9 DEF CountInv, ReportTrue

(* The threads of the benchmark, and how many calls each of them makes.    *)
LEMMA BenchIs ==
  ASSUME deployment \in Deployments, IsBench
  PROVE  /\ BenchThreads \in Nat /\ PerThread \in Nat
         /\ Threads = 1..BenchThreads /\ Threads \subseteq Connections
         /\ Len(Calls) = PerThread
<1>1. DefaultCalls \in Nat /\ deployment.callerArgv \in Seq(Bytes)
  BY ExampleAssumption
<1>2. BenchThreads \in Nat /\ PerThread \in Nat
  BY <1>1, ArgumentNat DEF BenchThreads, PerThread
<1>3. Threads = 1..BenchThreads
  BY DEF Threads
<1>4. Calls = [i \in 1..PerThread |-> BenchCall]
  <2>1. Calls = BenchCalls
    BY DEF Calls, IsBench
  <2> QED
    BY <2>1, Zenon DEF BenchCalls, BenchCall
<1>5. Len(Calls) = PerThread
  <2> DEFINE b == BenchCall
             k == PerThread
  <2>1. Calls = [i \in 1..k |-> b] /\ k \in Nat
    BY <1>2, <1>4
  <2> HIDE DEF b, k
  <2>2. Len([i \in 1..k |-> b]) = k
    BY <2>1
  <2> QED
    BY <2>1, <2>2 DEF k
<1> QED
  BY <1>2, <1>3, <1>5, ProgramIs

(* The friend example calls GetFriendList once, on one connection.         *)
LEMMA FriendIs ==
  ASSUME deployment \in Deployments, deployment.program = "friend"
  PROVE  /\ 1 \in Connections /\ 1 \in Threads /\ Len(Calls) = 1
         /\ \A c \in Made : c.method = FriendServiceRpc.method[1]
<1>1. 1 \in Connections /\ Threads = {1}
  BY ExampleAssumption DEF Threads, IsBench
<1>2. Calls = FriendCalls
  BY DEF Calls
<1>3. PICK x : FriendCalls = <<[method |-> FriendServiceRpc_Stub_GetFriendList, request |-> x]>>
  BY ZenonT(40) DEF FriendCalls
<1>4. FriendServiceRpc_Stub_GetFriendList = FriendServiceRpc.method[1]
  BY DEF FriendServiceRpc_Stub_GetFriendList
<1> DEFINE m == FriendServiceRpc_Stub_GetFriendList
           y == [method |-> m, request |-> x]
<1>5. y.method = m
  <2> HIDE DEF m
  <2> QED
    BY DEF y
<1> HIDE DEF y
<1>6. Calls = <<y>>
  BY <1>2, <1>3, Zenon DEF y
<1>7. Len(<<y>>) = 1 /\ DOMAIN <<y>> = {1} /\ <<y>>[1] = y
  <2>1. DOMAIN <<y>> = 1..1 /\ 1..1 = {1}
    OBVIOUS
  <2> QED
    BY <2>1
<1>8. Made = {y}
  BY <1>6, <1>7 DEF Made
<1>9. \A c \in Made : c.method = FriendServiceRpc.method[1]
  BY <1>4, <1>5, <1>8, Zenon
<1> QED
  BY <1>1, <1>6, <1>7, <1>9

(* What the benchmark prints is what has been counted.                     *)
LEMMA BenchReported ==
  ASSUME ExchangeInv, CountInv, Joined, caller = "calling", IsBench
  PROVE  /\ BenchReport.ok + BenchReport.fail = BenchReport.total
         /\ BenchReport.rtts = BenchReport.ok
         /\ BenchReport.ok = Sum([w \in Threads |-> Len(Answered(replies[w]))])
<1> DEFINE k == BenchThreads
           c == PerThread
           f == [w \in Threads |-> tally[w].ok]
           g == [w \in Threads |-> tally[w].fail]
           h == [w \in Threads |-> tally[w].rtts]
           a == [w \in Threads |-> Len(Answered(replies[w]))]
<1>1. /\ k \in Nat /\ c \in Nat /\ Threads = 1..k /\ Threads \subseteq Connections /\ Len(Calls) = c
  BY BenchIs DEF ExchangeInv
<1>2. ASSUME NEW w \in Threads
      PROVE  /\ tally[w].ok \in Nat /\ tally[w].fail \in Nat /\ tally[w].rtts = tally[w].ok
             /\ tally[w].ok = Len(Answered(replies[w]))
             /\ tally[w].ok + tally[w].fail = c
  <2>1. w \in Connections /\ todo[w] = <<>>
    BY <1>1 DEF Joined
  <2>2. tally[w] \in Counters /\ Progress(w) /\ replies[w] \in Seq(Replies)
    BY <2>1 DEF CountInv, ExchangeInv, Exchange
  <2>3. tally[w].ok \in Nat /\ tally[w].fail \in Nat
    BY <2>2 DEF Counters
  <2>4. caller \notin {"off", "exited"}
    OBVIOUS
  <2>5. /\ Len(replies[w]) + Len(todo[w]) = Len(Calls)
        /\ tally[w].ok = Len(Answered(replies[w]))
        /\ tally[w].rtts = tally[w].ok
        /\ tally[w].ok + tally[w].fail = Len(replies[w])
    BY <2>2, <2>4, Zenon DEF Progress
  <2>6. Len(todo[w]) = 0 /\ Len(replies[w]) \in Nat
    BY <2>1, <2>2
  <2>7. Len(replies[w]) = Len(replies[w]) + Len(todo[w])
    BY <2>6
  <2>8. Len(replies[w]) = c
    BY <1>1, <2>5, <2>7, Zenon
  <2> QED
    BY <2>3, <2>5, <2>8, Zenon
<1> HIDE DEF c, k
<1>3. f \in [1..k -> Int] /\ g \in [1..k -> Int] /\ \A i \in 1..k : f[i] + g[i] = c
  BY <1>1, <1>2
<1>4. h = f /\ a = f
  BY <1>2
<1> HIDE DEF f, g, h, a
<1>5. Sum(f) + Sum(g) = c * k
  <2>1. c \in Int
    BY <1>1
  <2> QED
    BY <1>1, <1>3, <2>1, SumsAdd
<1>6. BenchReport = [total |-> c * k, ok |-> Sum(f), fail |-> Sum(g), rtts |-> Sum(h)]
  BY Zenon DEF BenchReport, c, k, f, g, h
<1>7. /\ BenchReport.total = c * k /\ BenchReport.ok = Sum(f) /\ BenchReport.fail = Sum(g)
      /\ BenchReport.rtts = Sum(h)
  BY <1>6
<1>8. BenchReport.ok + BenchReport.fail = BenchReport.total
  BY <1>5, <1>7, Zenon
<1>9. BenchReport.rtts = BenchReport.ok /\ BenchReport.ok = Sum(a)
  BY <1>4, <1>7, Zenon
<1> QED
  BY <1>8, <1>9, Zenon DEF a

(* The caller of the friend service prints a list exactly when its call    *)
(* has been answered.                                                      *)
LEMMA FriendReported ==
  ASSUME ExchangeInv, CountInv, Joined, caller = "calling", deployment.program = "friend"
  PROVE  (FriendReport # <<>>) = replies[1][1].answered
<1> DEFINE r == replies[1][1]
<1>1. /\ 1 \in Connections /\ 1 \in Threads /\ Len(Calls) = 1
      /\ \A c \in Made : c.method = FriendServiceRpc.method[1]
  BY FriendIs DEF ExchangeInv
<1>2. /\ todo[1] = <<>> /\ Progress(1) /\ replies[1] \in Seq(Replies) /\ deployment \in Deployments
  BY <1>1 DEF Joined, CountInv, ExchangeInv, Exchange
<1>3. Len(replies[1]) = 1
  <2>1. caller \notin {"off", "exited"}
    OBVIOUS
  <2>2. Len(replies[1]) + Len(todo[1]) = Len(Calls)
    BY <1>1, <1>2, <2>1, Zenon DEF Progress
  <2>3. Len(todo[1]) = 0 /\ Len(replies[1]) \in Nat
    BY <1>2
  <2> QED
    BY <1>1, <2>2, <2>3
<1>4. r \in Replies
  BY <1>2, <1>3
<1>5. LooksGood(r) <=> r.answered
  BY <1>2, <1>4, LooksGoodIs
<1>6. FriendReport = IF LooksGood(r) THEN r.response.friends ELSE <<>>
  BY Zenon DEF FriendReport
<1>7. r.answered \in BOOLEAN /\ (r.answered => r.response.friends # <<>>)
  <2>1. \A m, x : /\ GoodReply(m).answered = TRUE /\ GoodReply(m).response = AnswerTo(m)
                  /\ FailedReply(m, x).answered = FALSE
    BY DEF GoodReply, FailedReply
  <2>2. CASE \E c \in Made : r = GoodReply(c.method)
    <3>1. PICK c \in Made : r = GoodReply(c.method)
      BY <2>2
    <3>2. r.answered = TRUE /\ r.response = AnswerTo(FriendServiceRpc.method[1])
      BY <1>1, <2>1, <3>1, Zenon
    <3>3. FriendServiceRpc.method[1] \in Methods
      BY DEF Methods
    <3>4. AnswerTo(FriendServiceRpc.method[1]).friends # <<>>
      BY <3>3, AnswerFits
    <3> QED
      BY <3>2, <3>4, Zenon
  <2>3. CASE \E c \in Made : \E x \in Reasons : r = FailedReply(c.method, x)
    BY <2>1, <2>3, Zenon
  <2>4. (\E c \in Made : r = GoodReply(c.method)) \/ \E c \in Made : \E x \in Reasons : r = FailedReply(c.method, x)
    <3> HIDE DEF r
    <3> QED
      BY <1>4 DEF Replies
  <2> QED
    BY <2>2, <2>3, <2>4
<1>8. CASE r.answered
  <2>1. FriendReport = r.response.friends
    BY <1>5, <1>6, <1>8, Zenon
  <2>2. r.answered = TRUE /\ FriendReport # <<>>
    BY <1>7, <1>8, <2>1, Zenon
  <2> QED
    BY <2>2, Zenon
<1>9. CASE ~r.answered
  <2>1. FriendReport = <<>>
    BY <1>5, <1>6, <1>9, Zenon
  <2>2. r.answered = FALSE
    BY <1>7, <1>9, Zenon
  <2> QED
    BY <2>1, <2>2, Zenon
<1> QED
  BY <1>8, <1>9

(* What the report says when all threads have joined.                      *)
LEMMA ReportCount ==
  ASSUME ExchangeInv, CountInv, Report
  PROVE  CountInv'
<1>1. /\ caller = "calling" /\ Joined /\ caller' = "reported"
      /\ UNCHANGED <<deployment, replies, todo, tally>>
  BY DEF Report
<1>2. IsBench' = IsBench /\ Threads' = Threads /\ Calls' = Calls
  BY <1>1, DeploymentStays
<1>3. ASSUME NEW w \in Connections PROVE tally'[w] \in Counters /\ Progress(w)'
  <2>1. tally[w] \in Counters /\ Progress(w)
    BY DEF CountInv
  <2>2. Progress(w)'
    BY <1>1, <1>2, <2>1 DEF Progress
  <2> QED
    BY <1>1, <2>1, <2>2
<1>4. tally' = [w \in Connections |-> tally'[w]]
  BY <1>1 DEF CountInv
<1>5. Joined'
  BY <1>1, <1>2 DEF Joined
<1>6. CASE IsBench
  <2>1. report' = BenchReport
    BY <1>6 DEF Report, IsBench
  <2>2. /\ report'.ok + report'.fail = report'.total
        /\ report'.rtts = report'.ok
        /\ report'.ok = Sum([w \in Threads |-> Len(Answered(replies[w]))])
    BY <1>1, <1>6, <2>1, BenchReported, Zenon
  <2>3. Sum([w \in Threads |-> Len(Answered(replies[w]))])' = Sum([w \in Threads |-> Len(Answered(replies[w]))])
    <3>1. [w \in Threads |-> Len(Answered(replies[w]))]' = [w \in Threads |-> Len(Answered(replies[w]))]
      BY <1>1, <1>2
    <3>2. \A f : Sum(f)' = Sum(f)
      BY <1>2 DEF Sum
    <3> QED
      BY <3>1, <3>2, Zenon
  <2>4. deployment'.program # "friend"
    BY <1>1, <1>6 DEF IsBench
  <2> QED
    BY <1>3, <1>4, <1>5, <2>2, <2>3, <2>4, Zenon DEF CountInv, ReportTrue
<1>7. CASE deployment.program = "friend"
  <2>1. report' = FriendReport /\ ~IsBench' /\ replies' = replies
    BY <1>1, <1>2, <1>7 DEF Report, IsBench
  <2>2. (report' # <<>>) = replies'[1][1].answered
    BY <1>1, <1>7, <2>1, FriendReported, Zenon
  <2> QED
    BY <1>3, <1>4, <1>5, <2>1, <2>2, Zenon DEF CountInv, ReportTrue
<1>8. CASE ~IsBench /\ deployment.program # "friend"
  <2>1. ~IsBench' /\ deployment'.program # "friend"
    BY <1>1, <1>2, <1>8
  <2> QED
    BY <1>3, <1>4, <1>5, <2>1, Zenon DEF CountInv, ReportTrue
<1> QED
  BY <1>6, <1>7, <1>8

(* Steps that return from no call.                                         *)
LEMMA OtherCount ==
  ASSUME ExchangeInv, CountInv,
         \/ ProviderNext /\ UNCHANGED callerVars
         \/ \E w \in Connections : NotExistedNull(w) \/ Existed(w) \/ Borrow(w) \/ Send(w)
         \/ Over \/ UNCHANGED vars
  PROVE  CountInv'
<1>1. CASE ProviderNext /\ UNCHANGED callerVars
  <2>1. deployment' = deployment
    BY <1>1, Zenon DEF ProviderNext, ProviderMain, NotifyService, RunBinds, RunCreates, RunStarts,
       CallMethodAndDone, OnMessage
  <2>2. UNCHANGED <<replies, todo, tally, caller, report>>
    BY <1>1, Zenon DEF callerVars
  <2> QED
    BY <2>1, <2>2, QuietCount, Zenon DEF Begun
<1>2. CASE \E w \in Connections : NotExistedNull(w)
  <2>1. UNCHANGED <<deployment, replies, todo, tally>> /\ caller = "calling" /\ caller' = "crashed"
    BY <1>2 DEF NotExistedNull, Calling
  <2>2. Begun /\ Begun' /\ caller' # "reported"
    BY <2>1 DEF Begun
  <2> QED
    BY <2>1, <2>2, QuietCount
<1>3. CASE \E w \in Connections : Existed(w) \/ Borrow(w) \/ Send(w)
  <2>1. UNCHANGED <<deployment, replies, todo, tally, caller, report>>
    BY <1>3, Zenon DEF Existed, Borrow, Send
  <2> QED
    BY <2>1, QuietCount, Zenon DEF Begun
<1>4. CASE Over \/ UNCHANGED vars
  <2>1. UNCHANGED <<deployment, replies, todo, tally, caller, report>>
    BY <1>4, Zenon DEF Over, vars, callerVars
  <2> QED
    BY <2>1, QuietCount, Zenon DEF Begun
<1> QED
  BY <1>1, <1>2, <1>3, <1>4

(* Every step keeps the counts as they are.                                *)
LEMMA NextCount == ExchangeInv /\ CountInv /\ [Next]_vars => CountInv'
<1> SUFFICES ASSUME ExchangeInv, CountInv, [Next]_vars PROVE CountInv'
  OBVIOUS
<1>0. Tables
  BY DEF ExchangeInv
<1>1. CASE \E w \in Connections : NotExisted(w) \/ BorrowFails(w) \/ SendOrReceiveFails(w)
  <2>1. PICK w \in Connections : NotExisted(w) \/ BorrowFails(w) \/ SendOrReceiveFails(w)
    BY <1>1, Zenon
  <2>2. caller = "calling" /\ todo[w] # <<>>
    BY <1>0, <2>1, FailedHow
  <2>3. PICK reason \in Reasons : ReturnsFailed(w, reason)
    BY <1>0, <2>1, FailedHow
  <2> DEFINE r == FailedReply(Call(w).method, reason)
  <2>4. Returned(w, r)
    BY <2>3, FailedIs
  <2>5. r \in Replies
    <3>1. Call(w) \in Made
      BY <2>2 DEF ExchangeInv, Exchange, Call
    <3>2. r \in {FailedReply(c.method, x) : c \in Made, x \in Reasons}
      BY <3>1
    <3> HIDE DEF r
    <3> QED
      BY <3>2 DEF Replies
  <2> HIDE DEF r
  <2> QED
    BY <2>2, <2>4, <2>5, ReturnedCount
<1>2. CASE \E w \in Connections : Receive(w)
  <2>1. PICK w \in Connections : Receive(w)
    BY <1>2
  <2> DEFINE r == GoodReply(Call(w).method)
  <2>2. Returned(w, r) /\ caller = "calling" /\ todo[w] # <<>>
    BY <2>1, ReceivedIs
  <2>3. r \in Replies
    <3>1. Call(w) \in Made
      BY <2>2 DEF ExchangeInv, Exchange, Call
    <3>2. r \in {GoodReply(c.method) : c \in Made}
      BY <3>1
    <3> HIDE DEF r
    <3> QED
      BY <3>2 DEF Replies
  <2> HIDE DEF r
  <2> QED
    BY <2>2, <2>3, ReturnedCount
<1>3. CASE CallerMain
  BY <1>3, MainCount
<1>4. CASE Report
  BY <1>4, ReportCount
<1>5. CASE \/ ProviderNext /\ UNCHANGED callerVars
           \/ \E w \in Connections : NotExistedNull(w) \/ Existed(w) \/ Borrow(w) \/ Send(w)
           \/ Over \/ UNCHANGED vars
  BY <1>5, OtherCount
<1> QED
  BY <1>1, <1>2, <1>3, <1>4, <1>5, Zenon DEF Next, CallerNext

(* What the programs print of their calls is true.                         *)
THEOREM ReportTrueHolds == Spec => []ReportTrue
<1>1. CountInv => ReportTrue
  BY DEF CountInv
<1> QED
  BY <1>1, InitCount, NextCount, ExchangeHolds, PTL DEF Spec

-----------------------------------------------------------------------------
(* Types                                                                   *)

(* What the invariants of the exchanges and of the addresses do not say.   *)
TypeInv ==
    /\ provider \in ProviderStages
    /\ caller \in CallerStages
    /\ \A w \in Connections :
          /\ stage[w] \in CallStages
          /\ cuts[w] \subseteq Nat
          /\ endpoint[w] # Nothing => endpoint[w].port \in PortNumbers

(* A port has 16 bits, whatever the text.                                  *)
LEMMA PortIs == \A s \in Bytes : PortOf(s) \in PortNumbers
<1>1. ASSUME NEW a \in Nat PROVE a % 65536 \in PortNumbers
  BY DEF PortNumbers
<1>2. \A s : PortOf(s) = Atoi(s) % 65536
  BY DEF PortOf
<1> QED
  BY <1>1, <1>2, AtoiNat

(* So has the one the kernel chooses.                                      *)
LEMMA KernelPortIs == KernelPort \in PortNumbers
  BY KernelPortAssumption

(* Also the one behind the colon in the data of a node.                    *)
LEMMA EndpointPort ==
  ASSUME NEW data \in Bytes, Places(Colon, data) # {}
  PROVE  EndpointIn(data).port \in PortNumbers
<1> DEFINE p == FirstPlace(Colon, data)
           rest == SubSeq(data, p + 1, Len(data))
<1>1. p \in 1..Len(data) /\ Len(data) \in Nat
  BY FirstPlaceIsFirst, BytesAre
<1>2. p \in 0..Len(data)
  BY <1>1
<1> HIDE DEF p
<1>3. rest \in Bytes
  BY <1>2, Cut
<1> HIDE DEF rest
<1>4. PortOf(rest) \in PortNumbers
  BY <1>3, PortIs
<1>5. \A x : [ip |-> x, port |-> PortOf(rest)].port = PortOf(rest)
  OBVIOUS
<1>6. EndpointIn(data) = [ip |-> SubSeq(data, 1, p - 1), port |-> PortOf(rest)]
  BY Zenon DEF EndpointIn, p, rest
<1> QED
  BY <1>4, <1>5, <1>6, Zenon

(* At first everything is of its type.                                     *)
LEMMA InitType == Init => TypeInv
<1> SUFFICES ASSUME Init PROVE TypeInv
  OBVIOUS
<1>1. /\ provider = "off" /\ caller = "off" /\ cuts = [w \in Connections |-> {}]
      /\ stage = [w \in Connections |-> "idle"] /\ endpoint = [w \in Connections |-> Nothing]
  BY DEF Init, ProviderInit
<1> QED
  BY <1>1 DEF TypeInv, ProviderStages, CallerStages, CallStages

(* What the configuration names is bytes, and so are its ports.            *)
LEMMA ConfiguredPort ==
  ASSUME deployment \in Deployments, Started # Exited
  PROVE  /\ Bound(Started[1]).port \in PortNumbers
         /\ EndpointIn(NodeData(Started[1])).port \in PortNumbers
<1>1. PICK config \in Configs : Started = <<config>>
  BY StartedRight DEF ConfigReads
<1>2. Started[1] = config
  BY <1>1
<1>3. \A k : Load(config, k) \in Bytes
  <2>1. <<>> \in Bytes
    BY DEF Bytes
  <2>2. PICK D \in SUBSET Bytes : config \in [D -> Words]
    BY DEF Configs
  <2> QED
    BY <2>1, <2>2 DEF Load, Words
<1> DEFINE port == PortOf(Load(config, KeyPort))
<1>4. port \in PortNumbers
  BY <1>3, PortIs
<1> HIDE DEF port
<1>5. Bound(config).port = IF port = 0 THEN KernelPort ELSE port
  BY DEF Bound, port
<1>6. KernelPort \in PortNumbers
  BY KernelPortIs
<1>7. EndpointIn(NodeData(config)).port = port
  <2>1. EndpointIn(NodeData(config)) = [ip |-> Load(config, KeyIp), port |-> port]
    BY NodeDataParts DEF port
  <2> QED
    BY <2>1
<1> QED
  BY <1>2, <1>4, <1>5, <1>6, <1>7, Zenon

(* A caller that takes the address of a call from a node.                  *)
LEMMA AddressType ==
  ASSUME NodesInv, TypeInv, NEW w \in Connections, Existed(w), DOMAIN endpoint = Connections,
         NEW v \in Connections, endpoint'[v] # Nothing
  PROVE  endpoint'[v].port \in PortNumbers
<1>1. /\ Places(Colon, AddressOf(w)) # {}
      /\ endpoint' = [endpoint EXCEPT ![w] = EndpointIn(AddressOf(w))]
  BY DEF Existed
<1>2. Places(Colon, <<>>) = {}
  BY DEF Places
<1>3. PICK path \in DOMAIN registry : AddressOf(w) = registry[path]
  BY <1>1, <1>2 DEF AddressOf
<1>4. EndpointIn(AddressOf(w)).port \in PortNumbers
  <2>1. CASE path \in DOMAIN deployment.registry
    <3>1. AddressOf(w) = deployment.registry[path] /\ deployment \in Deployments
      BY <1>3, <2>1 DEF NodesInv
    <3>2. AddressOf(w) \in Bytes
      BY <2>1, <3>1, NodeAssumption
    <3> QED
      BY <1>1, <3>2, EndpointPort
  <2>2. CASE path \notin DOMAIN deployment.registry
    <3>1. AddressOf(w) = NodeData(Started[1]) /\ address # Nothing /\ deployment \in Deployments
      BY <1>3, <2>2 DEF NodesInv
    <3>2. Started # Exited
      BY <3>1 DEF NodesInv
    <3> QED
      BY <3>1, <3>2, ConfiguredPort
  <2> QED
    BY <2>1, <2>2
<1>6. endpoint'[v] = IF v = w THEN EndpointIn(AddressOf(w)) ELSE endpoint[v]
  BY <1>1
<1> QED
  BY <1>4, <1>6 DEF TypeInv

(* Every step keeps the types.                                             *)
LEMMA NextType == ExchangeInv /\ EndpointInv /\ TypeInv /\ [Next]_vars => TypeInv'
<1> SUFFICES ASSUME ExchangeInv, EndpointInv, TypeInv, [Next]_vars PROVE TypeInv'
  OBVIOUS
<1>0. /\ Tables /\ DOMAIN endpoint = Connections /\ DOMAIN cuts = Connections /\ NodesInv
  BY DEF ExchangeInv, EndpointInv, CallTables
<1>1. ASSUME UNCHANGED endpoint, provider' \in ProviderStages, caller' \in CallerStages,
             \A w \in Connections : cuts'[w] \subseteq Nat /\ stage'[w] \in CallStages
      PROVE  TypeInv'
  BY <1>1, Zenon DEF TypeInv
<1>2. /\ provider \in ProviderStages /\ caller \in CallerStages
      /\ \A w \in Connections : cuts[w] \subseteq Nat /\ stage[w] \in CallStages
  BY DEF TypeInv
<1>3. CASE (ProviderMain \/ NotifyService \/ RunBinds \/ RunStarts) /\ UNCHANGED callerVars
  <2>1. /\ UNCHANGED <<endpoint, caller, cuts, stage>>
        /\ provider' \in {"exited", "notify", "run", "register", "serving"}
    BY <1>3 DEF ProviderMain, NotifyService, RunBinds, RunStarts, callerVars
  <2>2. provider' \in ProviderStages
    BY <2>1 DEF ProviderStages
  <2> QED
    BY <1>1, <1>2, <2>1, <2>2
<1>4. CASE RunCreates /\ UNCHANGED callerVars
  <2>1. UNCHANGED <<provider, endpoint, caller, cuts, stage>>
    BY <1>4, Zenon DEF RunCreates, providerVars, callerVars
  <2> QED
    BY <1>1, <1>2, <2>1
<1>5. CASE \E c \in Connections : CallMethodAndDone(c) /\ UNCHANGED callerVars
  <2>1. UNCHANGED <<provider, endpoint, caller, cuts, stage>>
    BY <1>5, Zenon DEF CallMethodAndDone, callerVars
  <2> QED
    BY <1>1, <1>2, <2>1
<1>6. CASE \E c \in Connections : \E n \in 1..Len(inbox[c]) : OnMessage(c, n) /\ UNCHANGED callerVars
  <2>1. PICK c \in Connections : \E n \in 1..Len(inbox[c]) : OnMessage(c, n) /\ UNCHANGED callerVars
    BY <1>6
  <2>2. PICK n \in 1..Len(inbox[c]) : OnMessage(c, n) /\ UNCHANGED callerVars
    BY <2>1
  <2>3. /\ UNCHANGED <<endpoint, caller, stage>>
        /\ cuts' = IF n < Len(inbox[c])
                   THEN [cuts EXCEPT ![c] = cuts[c] \union {Len(served[c]) + 1}] ELSE cuts
    BY <2>2, Zenon DEF OnMessage, callerVars
  <2>4. \A w \in Connections : cuts'[w] \subseteq Nat
    <3>1. Len(served[c]) + 1 \in Nat
      BY DEF ExchangeInv, Exchange
    <3> QED
      BY <1>0, <1>2, <2>3, <3>1
  <2>5. provider' \in {"serving", "aborted"}
    BY <2>2, OwnConnection DEF NotServed, NowServed
  <2>6. provider' \in ProviderStages
    BY <2>5 DEF ProviderStages
  <2> QED
    BY <1>1, <1>2, <2>3, <2>4, <2>6
<1>7. CASE CallerMain \/ Report \/ \E w \in Connections : NotExistedNull(w)
  <2>1. /\ UNCHANGED <<endpoint, provider, cuts, stage>>
        /\ caller' \in {"exited", "calling", "reported", "crashed"}
    BY <1>7 DEF CallerMain, Report, NotExistedNull, providerVars
  <2>2. caller' \in CallerStages
    BY <2>1 DEF CallerStages
  <2> QED
    BY <1>1, <1>2, <2>1, <2>2
<1>8. ASSUME NEW w \in Connections, NEW s \in CallStages, stage' = [stage EXCEPT ![w] = s],
             UNCHANGED <<endpoint, caller, provider, cuts>>
      PROVE  TypeInv'
  <2>1. stage = [v \in Connections |-> stage[v]]
    BY <1>0 DEF Tables
  <2>2. \A v \in Connections : stage'[v] \in CallStages
    BY <1>2, <1>8, <2>1
  <2> QED
    BY <1>1, <1>2, <1>8, <2>2
<1>9. CASE \E w \in Connections : NotExisted(w) \/ BorrowFails(w) \/ SendOrReceiveFails(w) \/ Receive(w)
  <2>1. PICK w \in Connections : NotExisted(w) \/ BorrowFails(w) \/ SendOrReceiveFails(w) \/ Receive(w)
    BY <1>9
  <2>2. /\ stage' = [stage EXCEPT ![w] = "idle"] /\ endpoint' = endpoint
        /\ UNCHANGED <<caller, provider, cuts>>
    BY <2>1, Zenon DEF NotExisted, BorrowFails, SendOrReceiveFails, Receive, Parsed, ReturnsFailed,
       Returns, providerVars
  <2>3. "idle" \in CallStages
    BY DEF CallStages
  <2> QED
    BY <1>8, <2>2, <2>3
<1>10. CASE \E w \in Connections : Borrow(w) \/ Send(w)
  <2>1. PICK w \in Connections : Borrow(w) \/ Send(w)
    BY <1>10
  <2>2. PICK s \in {"send", "receive"} : stage' = [stage EXCEPT ![w] = s]
    BY <2>1 DEF Borrow, Send
  <2>3. UNCHANGED <<endpoint, caller, provider, cuts>>
    BY <2>1, Zenon DEF Borrow, Send, providerVars
  <2>4. s \in CallStages
    BY DEF CallStages
  <2> QED
    BY <1>8, <2>2, <2>3, <2>4
<1>11. CASE \E w \in Connections : Existed(w)
  <2>1. PICK w \in Connections : Existed(w)
    BY <1>11
  <2>2. /\ stage' = [stage EXCEPT ![w] = "borrow"]
        /\ UNCHANGED <<caller, provider, cuts>>
    BY <2>1, Zenon DEF Existed, providerVars
  <2>3. stage = [v \in Connections |-> stage[v]] /\ "borrow" \in CallStages
    BY <1>0 DEF Tables, CallStages
  <2>4. \A v \in Connections : stage'[v] \in CallStages
    BY <1>2, <2>2, <2>3
  <2>5. \A v \in Connections : endpoint'[v] # Nothing => endpoint'[v].port \in PortNumbers
    BY <1>0, <2>1, AddressType
  <2> QED
    BY <1>2, <2>2, <2>4, <2>5 DEF TypeInv
<1>12. CASE Over \/ UNCHANGED vars
  <2>1. UNCHANGED <<endpoint, caller, provider, cuts, stage>>
    BY <1>12, Zenon DEF Over, vars, callerVars, providerVars
  <2> QED
    BY <1>1, <1>2, <2>1
<1>13. CASE ProviderNext /\ UNCHANGED callerVars
  BY <1>3, <1>4, <1>5, <1>6, <1>13, Zenon DEF ProviderNext
<1> QED
  BY <1>7, <1>9, <1>10, <1>11, <1>12, <1>13, Zenon DEF Next, CallerNext

(* What is under way on a connection is bytes.                             *)
LEMMA BytesUnderWay ==
  ASSUME ExchangeInv, NEW w \in Connections
  PROVE  IsBytes(inbox[w]) /\ IsBytes(outbox[w])
<1>1. Exchange(w) /\ deployment \in Deployments
  BY DEF ExchangeInv
<1>2. \A t : Left(w, t) => IsBytes(t)
  BY ByteAt, Zenon DEF Left, Leftovers
<1>3. IsBytes(<<>>)
  BY DEF IsBytes
<1>4. CASE Asked(w)
  <2>1. PICK t \in Leftovers : inbox[w] = t \o Frame(Call(w))
    BY <1>4, Zenon DEF Asked
  <2>2. IsCall(Call(w)) /\ outbox[w] = <<>>
    <3>1. Call(w) \in Made /\ outbox[w] = <<>>
      BY <1>1, <1>4 DEF Exchange, Asked, Asking, Call, Unserved
    <3> QED
      BY <1>1, <3>1, ProgramIs
  <2>3. Frame(Call(w)) \in Bytes /\ t \in Bytes
    BY <2>2, FrameIs DEF Leftovers
  <2>4. inbox[w] \in Bytes
    BY <2>1, <2>3, BytesJoined
  <2> QED
    BY <1>3, <2>2, <2>4, ByteAt
<1>5. CASE Replied(w)
  <2>1. /\ served[w] \in Seq(ServedCalls) /\ sent[w] \in Seq(Made) /\ sent[w] # <<>>
        /\ Len(sent[w]) = Len(served[w]) /\ Left(w, inbox[w])
    BY <1>1, <1>5 DEF Exchange, Replied, Asking, Unanswered
  <2>2. LastServed(w) \in ServedCalls
    BY <2>1 DEF LastServed
  <2>3. LastServed(w).method \in Methods
    BY <2>2, ServedCallsAre
  <2>4. outbox[w] \in Bytes
    <3>1. AnswerFrame(LastServed(w).method) \in Bytes
      BY <2>3, AnswerFrameIs
    <3> QED
      BY <1>5, <3>1, Zenon DEF Replied
  <2> QED
    BY <1>2, <2>1, <2>4, ByteAt
<1>6. CASE Resting(w) \/ Ignored(w) \/ Handled(w)
  BY <1>2, <1>3, <1>6, Zenon DEF Resting, Ignored, Unserved, Handled, Unanswered
<1>7. CASE Gone(w)
  BY <1>3, <1>7, Zenon DEF Gone
<1> QED
  BY <1>1, <1>4, <1>5, <1>6, <1>7, Zenon DEF Exchange, Under

(* Everything the programs keep is of its type.                            *)
THEOREM TypeOKHolds == Spec => []TypeOK
<1>1. ExchangeInv /\ EndpointInv /\ TypeInv => TypeOK
  <2> SUFFICES ASSUME ExchangeInv, EndpointInv, TypeInv PROVE TypeOK
    OBVIOUS
  <2>1. deployment \in Deployments
    BY DEF ExchangeInv
  <2>2. address # Nothing => address.port \in PortNumbers
    <3>1. address # Nothing => Started # Exited /\ address = Bound(Started[1])
      BY DEF EndpointInv, NodesInv
    <3> QED
      BY <2>1, <3>1, ConfiguredPort, Zenon
  <2>3. ASSUME NEW w \in Connections, endpoint[w] # Nothing PROVE endpoint[w].port \in PortNumbers
    BY <2>3, Zenon DEF TypeInv
  <2>4. ASSUME NEW w \in Connections, executing[w] # Nothing
        PROVE  executing[w].request.type = GetRequestPrototype(executing[w].method).type
    <3>1. Exchange(w)
      BY DEF ExchangeInv
    <3>2. Handled(w)
      BY <2>4, <3>1, Zenon DEF Exchange, Under, Resting, Asked, Ignored, Unserved, Replied, Gone
    <3>3. /\ served[w] \in Seq(ServedCalls) /\ sent[w] \in Seq(Made) /\ sent[w] # <<>>
          /\ Len(sent[w]) = Len(served[w]) /\ executing[w] = LastServed(w)
      BY <3>1, <3>2 DEF Exchange, Handled, Asking, Unanswered
    <3>4. executing[w] \in ServedCalls
      BY <3>3 DEF LastServed
    <3> QED
      BY <3>4, ServedCallsAre
  <2>5. /\ provider \in ProviderStages /\ caller \in CallerStages
        /\ \A w \in Connections : stage[w] \in CallStages /\ cuts[w] \subseteq Nat
    BY DEF TypeInv
  <2> QED
    BY <2>2, <2>3, <2>4, <2>5, BytesUnderWay, Zenon DEF TypeOK
<1> QED
  BY <1>1, InitType, NextType, InitEndpoint, NextEndpoint, ExchangeHolds, PTL DEF Spec

=============================================================================
