--------------------------- MODULE MessagesProofs ---------------------------
(***************************************************************************)
(* Theorems about the messages and their wire format, for all messages.    *)
(***************************************************************************)
EXTENDS Messages, SequenceTheorems, WellFoundedInduction, TLAPS

-----------------------------------------------------------------------------
(* Numbers and functions                                                   *)

(* A set of numbers that is not empty has a least member.                  *)
LEMMA LeastMember ==
  ASSUME NEW S \in SUBSET Nat, S # {}
  PROVE  \E m \in S : \A k \in S : m <= k
<1> DEFINE Less == OpToRel(<, Nat)
<1>1. IsWellFoundedOn(Less, Nat)
  BY NatLessThanWellFounded
<1>2. \A x, y \in Nat : x < y => <<x, y>> \in Less
  BY DEF OpToRel
<1> HIDE DEF Less
<1>3. \E m \in S : \A k \in S : <<k, m>> \notin Less
  BY <1>1, WFMin
<1>4. PICK m \in S : \A k \in S : <<k, m>> \notin Less
  BY <1>3
<1>5. \A k \in S : ~(k < m)
  BY <1>2, <1>4
<1> QED
  BY <1>5

(* What holds at 0 and goes on holding holds up to n.                      *)
LEMMA Induction ==
  ASSUME NEW n \in Nat, NEW S, 0 \in S, \A i \in 1..n : i - 1 \in S => i \in S
  PROVE  \A i \in 0..n : i \in S
<1> DEFINE rest == {i \in Nat : i <= n /\ i \notin S}
<1> SUFFICES ASSUME rest # {} PROVE FALSE
  OBVIOUS
<1>1. rest \in SUBSET Nat
  OBVIOUS
<1>2. PICK m \in rest : \A k \in rest : m <= k
  <2> HIDE DEF rest
  <2> QED
    BY <1>1, LeastMember
<1>3. m # 0 /\ m \in 1..n /\ m - 1 \in Nat /\ m - 1 <= n
  BY <1>2
<1>4. m - 1 \in S
  BY <1>2, <1>3
<1> QED
  BY <1>2, <1>3, <1>4

(* f is defined step by step, from r on.                                   *)
Follows(f, n, r, step) == f[0] = r /\ \A i \in 1..n : f[i] = step[i][f[i - 1]]

Definable(n, R, r, step) == \E f \in [0..n -> R] : Follows(f, n, r, step)

(* A function that is defined step by step exists.                         *)
LEMMA Recursion ==
  ASSUME NEW n \in Nat, NEW R, NEW r, NEW step, r \in R, step \in [1..n -> [R -> R]]
  PROVE  Definable(n, R, r, step)
<1> DEFINE S == {k \in 0..n : \E f \in [0..k -> R] : Follows(f, k, r, step)}
<1>1. 0 \in S
  <2> DEFINE f == [i \in 0..0 |-> r]
  <2>1. f \in [0..0 -> R] /\ Follows(f, 0, r, step)
    BY DEF Follows
  <2> HIDE DEF f
  <2> QED
    BY <2>1
<1>2. ASSUME NEW k \in 1..n, k - 1 \in S PROVE k \in S
  <2>1. PICK f \in [0..(k - 1) -> R] : Follows(f, k - 1, r, step)
    BY <1>2
  <2> DEFINE g == [i \in 0..k |-> IF i = k THEN step[k][f[k - 1]] ELSE f[i]]
  <2>2. f[k - 1] \in R /\ step[k][f[k - 1]] \in R
    OBVIOUS
  <2>3. g \in [0..k -> R]
    BY <2>2
  <2>4. g[0] = r /\ g[k] = step[k][f[k - 1]] /\ \A i \in 0..(k - 1) : g[i] = f[i]
    BY <2>1 DEF Follows
  <2>5. ASSUME NEW i \in 1..k PROVE g[i] = step[i][g[i - 1]]
    <3> HIDE DEF g
    <3>1. CASE i = k
      BY <2>4, <3>1
    <3>2. CASE i # k
      <4>1. i \in 1..(k - 1) /\ i \in 0..(k - 1) /\ i - 1 \in 0..(k - 1)
        BY <3>2
      <4>2. f[i] = step[i][f[i - 1]]
        BY <2>1, <4>1 DEF Follows
      <4>3. g[i] = f[i] /\ g[i - 1] = f[i - 1]
        BY <2>4, <4>1
      <4> QED
        BY <4>2, <4>3
    <3> QED
      BY <3>1, <3>2
  <2>6. Follows(g, k, r, step)
    <3> HIDE DEF g
    <3> QED
      BY <2>4, <2>5 DEF Follows
  <2> HIDE DEF g
  <2> QED
    BY <2>3, <2>6
<1>3. n \in S
  <2> HIDE DEF S
  <2>1. \A i \in 1..n : i - 1 \in S => i \in S
    BY <1>2
  <2>2. \A i \in 0..n : i \in S
    BY <1>1, <2>1, Induction
  <2> QED
    BY <2>2
<1> QED
  BY <1>3 DEF Definable

-----------------------------------------------------------------------------
(* Functions defined from smaller arguments                                *)

(* Induction over the numbers below, for a set.                            *)
LEMMA StrongInduction ==
  ASSUME NEW S, \A n \in Nat : (\A m \in 0..(n - 1) : m \in S) => n \in S
  PROVE  \A n \in Nat : n \in S
<1> DEFINE rest == {n \in Nat : n \notin S}
<1> SUFFICES ASSUME rest # {} PROVE FALSE
  OBVIOUS
<1>1. PICK n \in rest : \A k \in rest : n <= k
  <2>1. rest \in SUBSET Nat
    OBVIOUS
  <2> HIDE DEF rest
  <2> QED
    BY <2>1, LeastMember
<1>2. \A m \in 0..(n - 1) : m \in S
  BY <1>1
<1> QED
  BY <1>1, <1>2

(* f is given by first below b, and by step and what is further down.      *)
Unfolds(f, k, b, down, first, step) ==
    \A n \in 0..k : f[n] = IF n < b THEN first[n] ELSE step[n][f[down[n]]]

Unfolded(R, b, down, first, step) ==
    \E f \in [Nat -> R] :
       \A n \in Nat : f[n] = IF n < b THEN first[n] ELSE step[n][f[down[n]]]

(* A table over the numbers whose entries from b on are made of an entry   *)
(* further down exists, and keeps to its equation.                         *)
LEMMA Unfolding ==
  ASSUME NEW R, NEW b \in Nat, NEW down, NEW first, NEW step,
         down \in [Nat -> Nat], first \in [Nat -> R], step \in [Nat -> [R -> R]],
         \A n \in Nat : n >= b => down[n] < n
  PROVE  Unfolded(R, b, down, first, step)
<1> DEFINE Up(f, k) == Unfolds(f, k, b, down, first, step)
<1>0. 0 < b
  <2>1. down[0] \in Nat
    OBVIOUS
  <2> QED
    BY <2>1
<1>1. ASSUME NEW k \in Nat PROVE \E f \in [0..k -> R] : Up(f, k)
  <2> DEFINE S == {i \in 0..k : \E f \in [0..i -> R] : Up(f, i)}
  <2>1. 0 \in S
    <3> DEFINE f == [i \in 0..0 |-> first[0]]
    <3>1. f \in [0..0 -> R] /\ Up(f, 0)
      BY <1>0 DEF Unfolds
    <3> HIDE DEF f
    <3> QED
      BY <3>1
  <2>2. ASSUME NEW i \in 1..k, i - 1 \in S PROVE i \in S
    <3>1. PICK f \in [0..(i - 1) -> R] : Up(f, i - 1)
      BY <2>2
    <3> DEFINE top == IF i < b THEN first[i] ELSE step[i][f[down[i]]]
               g == [n \in 0..i |-> IF n = i THEN top ELSE f[n]]
    <3>2. i >= b => down[i] \in 0..(i - 1)
      OBVIOUS
    <3>3. top \in R
      BY <3>2
    <3>4. g \in [0..i -> R]
      <4> HIDE DEF top
      <4> QED
        BY <3>3
    <3>5. g[i] = top /\ \A n \in 0..(i - 1) : g[n] = f[n]
      OBVIOUS
    <3>6. ASSUME NEW n \in 0..i PROVE g[n] = IF n < b THEN first[n] ELSE step[n][g[down[n]]]
      <4> HIDE DEF g
      <4>1. CASE n = i
        BY <3>2, <3>5, <4>1
      <4>2. CASE n # i
        <5>1. n \in 0..(i - 1) /\ n \in Nat /\ down[n] \in Nat
          BY <4>2
        <5>2. n >= b => down[n] \in 0..(i - 1)
          BY <5>1
        <5>3. f[n] = IF n < b THEN first[n] ELSE step[n][f[down[n]]]
          BY <3>1, <5>1 DEF Unfolds
        <5> QED
          BY <3>5, <5>1, <5>2, <5>3
      <4> QED
        BY <4>1, <4>2
    <3>7. Up(g, i)
      <4> HIDE DEF g
      <4> QED
        BY <3>6 DEF Unfolds
    <3> HIDE DEF g
    <3> QED
      BY <3>4, <3>7
  <2> HIDE DEF S
  <2>3. \A i \in 0..k : i \in S
    BY <2>1, <2>2, Induction
  <2> QED
    BY <2>3 DEF S
<1>2. ASSUME NEW k \in Nat, NEW l \in Nat, NEW f, NEW g, Up(f, k), Up(g, l)
      PROVE  \A n \in Nat : n <= k /\ n <= l => f[n] = g[n]
  <2> DEFINE S == {n \in Nat : n <= k /\ n <= l => f[n] = g[n]}
  <2>1. ASSUME NEW n \in Nat, \A m \in 0..(n - 1) : m \in S PROVE n \in S
    <3> SUFFICES ASSUME n <= k, n <= l PROVE f[n] = g[n]
      OBVIOUS
    <3>1. /\ f[n] = IF n < b THEN first[n] ELSE step[n][f[down[n]]]
          /\ g[n] = IF n < b THEN first[n] ELSE step[n][g[down[n]]]
      BY <1>2 DEF Unfolds
    <3>2. CASE n >= b
      <4>1. down[n] \in 0..(n - 1) /\ down[n] <= k /\ down[n] <= l
        BY <3>2
      <4>2. f[down[n]] = g[down[n]]
        BY <2>1, <4>1
      <4> QED
        BY <3>1, <3>2, <4>2
    <3> QED
      BY <3>1, <3>2
  <2> HIDE DEF S
  <2>2. \A n \in Nat : n \in S
    BY <2>1, StrongInduction
  <2> QED
    BY <2>2 DEF S
<1> DEFINE some(n) == CHOOSE f \in [0..n -> R] : Up(f, n)
           F == [n \in Nat |-> some(n)[n]]
<1>3. ASSUME NEW n \in Nat PROVE some(n) \in [0..n -> R] /\ Up(some(n), n)
  <2> HIDE DEF Up
  <2> QED
    BY <1>1
<1> HIDE DEF some
<1>4. F \in [Nat -> R]
  BY <1>3
<1>5. ASSUME NEW n \in Nat PROVE F[n] = IF n < b THEN first[n] ELSE step[n][F[down[n]]]
  <2>1. some(n)[n] = IF n < b THEN first[n] ELSE step[n][some(n)[down[n]]]
    BY <1>3 DEF Unfolds
  <2>2. CASE n >= b
    <3>1. down[n] \in Nat /\ down[n] <= n
      BY <2>2
    <3>2. some(n)[down[n]] = some(down[n])[down[n]]
      <4> HIDE DEF Up
      <4> QED
        BY <1>2, <1>3, <3>1
    <3> QED
      BY <2>1, <2>2, <3>1, <3>2
  <2> QED
    BY <2>1, <2>2
<1> HIDE DEF F
<1> QED
  BY <1>4, <1>5 DEF Unfolded

(* The same for a set whose members have a size.                           *)
UnfoldedOn(S, R, base, down, first, step) ==
    \E f \in [S -> R] :
       \A x \in S : f[x] = IF x \in base THEN first[x] ELSE step[x][f[down[x]]]

(* The same over any set that a size measures: a function defined through  *)
(* a smaller argument keeps to its equation.                               *)
LEMMA UnfoldingOn ==
  ASSUME NEW S, NEW R, NEW base, NEW down, NEW first, NEW step, NEW size,
         size \in [S -> Nat], down \in [S -> S], first \in [S -> R], step \in [S -> [R -> R]],
         \A x \in S : x \notin base => size[down[x]] < size[x]
  PROVE  UnfoldedOn(S, R, base, down, first, step)
<1> DEFINE Tables == [S -> R]
           Next0(g) == [x \in S |-> IF x \in base THEN first[x] ELSE step[x][g[down[x]]]]
           down0 == [n \in Nat |-> IF n = 0 THEN 0 ELSE n - 1]
           first0 == [n \in Nat |-> first]
           step0 == [n \in Nat |-> [g \in Tables |-> Next0(g)]]
<1>1. ASSUME NEW g \in Tables PROVE Next0(g) \in Tables
  <2>1. \A x \in S : down[x] \in S /\ g[down[x]] \in R /\ first[x] \in R
    OBVIOUS
  <2>2. \A x \in S : step[x][g[down[x]]] \in R
    BY <2>1
  <2> QED
    BY <2>1, <2>2
<1>2. /\ down0 \in [Nat -> Nat] /\ first0 \in [Nat -> Tables]
      /\ step0 \in [Nat -> [Tables -> Tables]]
      /\ \A n \in Nat : n >= 1 => down0[n] < n
  <2> HIDE DEF Next0
  <2>1. first \in Tables
    OBVIOUS
  <2> HIDE DEF Tables
  <2> QED
    BY <1>1, <2>1
<1>3. /\ \A n \in Nat, g \in Tables : step0[n][g] = Next0(g)
      /\ \A n \in Nat : n >= 1 => down0[n] = n - 1
  OBVIOUS
<1>4. Unfolded(Tables, 1, down0, first0, step0)
  <2> HIDE DEF down0, first0, step0, Tables
  <2> QED
    BY <1>2, Unfolding
<1>5. PICK h \in [Nat -> Tables] : \A n \in Nat : n >= 1 => h[n] = Next0(h[n - 1])
  <2> HIDE DEF down0, first0, step0, Tables, Next0
  <2>1. PICK h \in [Nat -> Tables] :
            \A n \in Nat : h[n] = IF n < 1 THEN first0[n] ELSE step0[n][h[down0[n]]]
    BY <1>4 DEF Unfolded
  <2>2. ASSUME NEW n \in Nat, n >= 1 PROVE h[n] = Next0(h[n - 1])
    <3>1. ~(n < 1) /\ n - 1 \in Nat /\ down0[n] = n - 1
      BY <1>3, <2>2
    <3>2. h[n] = step0[n][h[n - 1]] /\ h[n - 1] \in Tables
      BY <2>1, <3>1
    <3> QED
      BY <1>3, <3>2
  <2> QED
    BY <2>2
<1>6. ASSUME NEW n \in Nat, n >= 1, NEW x \in S
      PROVE  h[n][x] = IF x \in base THEN first[x] ELSE step[x][h[n - 1][down[x]]]
  <2>1. h[n] = Next0(h[n - 1])
    BY <1>5, <1>6
  <2> QED
    BY <2>1
<1> HIDE DEF Next0, Tables
<1>7. ASSUME NEW x \in S, NEW i \in Nat, i > size[x] PROVE h[i][x] = h[size[x] + 1][x]
  <2> DEFINE T == {n \in Nat : \A y \in S : size[y] = n => \A j \in Nat : j > n => h[j][y] = h[n + 1][y]}
  <2>1. ASSUME NEW n \in Nat, \A m \in 0..(n - 1) : m \in T PROVE n \in T
    <3> SUFFICES ASSUME NEW y \in S, size[y] = n, NEW j \in Nat, j > n PROVE h[j][y] = h[n + 1][y]
      OBVIOUS
    <3>1. /\ h[j][y] = IF y \in base THEN first[y] ELSE step[y][h[j - 1][down[y]]]
          /\ h[n + 1][y] = IF y \in base THEN first[y] ELSE step[y][h[n][down[y]]]
      <4>1. n + 1 \in Nat /\ n + 1 >= 1 /\ (n + 1) - 1 = n /\ j >= 1
        OBVIOUS
      <4>2. h[n + 1][y] = IF y \in base THEN first[y] ELSE step[y][h[(n + 1) - 1][down[y]]]
        BY <1>6, <4>1
      <4> QED
        BY <1>6, <4>1, <4>2
    <3>2. CASE y \notin base
      <4> DEFINE m == size[down[y]]
      <4>1. down[y] \in S /\ m \in 0..(n - 1)
        BY <3>2
      <4>2. m \in T
        BY <2>1, <4>1
      <4>3. j - 1 \in Nat /\ j - 1 > m /\ n > m
        BY <4>1
      <4>4. h[j - 1][down[y]] = h[m + 1][down[y]] /\ h[n][down[y]] = h[m + 1][down[y]]
        BY <4>1, <4>2, <4>3
      <4> QED
        BY <3>1, <4>4
    <3> QED
      BY <3>1, <3>2
  <2> HIDE DEF T
  <2>2. \A n \in Nat : n \in T
    BY <2>1, StrongInduction
  <2>3. size[x] \in Nat
    OBVIOUS
  <2> QED
    BY <1>7, <2>2, <2>3 DEF T
<1> DEFINE f == [x \in S |-> h[size[x] + 1][x]]
<1>8. f \in [S -> R]
  <2>1. \A x \in S : h[size[x] + 1] \in [S -> R]
    BY DEF Tables
  <2> QED
    BY <2>1
<1>9. ASSUME NEW x \in S PROVE f[x] = IF x \in base THEN first[x] ELSE step[x][f[down[x]]]
  <2>1. size[x] \in Nat /\ size[x] + 1 \in Nat /\ size[x] + 1 >= 1 /\ (size[x] + 1) - 1 = size[x]
    OBVIOUS
  <2>2. h[size[x] + 1][x] = IF x \in base THEN first[x] ELSE step[x][h[(size[x] + 1) - 1][down[x]]]
    BY <1>6, <2>1
  <2>3. down[x] \in S /\ f[x] = h[size[x] + 1][x] /\ f[down[x]] = h[size[down[x]] + 1][down[x]]
    OBVIOUS
  <2>4. CASE x \notin base
    <3>1. size[x] > size[down[x]]
      BY <2>3, <2>4
    <3>2. h[size[x]][down[x]] = h[size[down[x]] + 1][down[x]]
      BY <1>7, <2>1, <2>3, <3>1
    <3> QED
      BY <2>1, <2>2, <2>3, <3>2
  <2> QED
    BY <2>2, <2>3, <2>4
<1> HIDE DEF f
<1> QED
  BY <1>8, <1>9 DEF UnfoldedOn

-----------------------------------------------------------------------------
(* Byte strings                                                            *)

(* The positions and elements of a string.                                 *)
LEMMA BytesAre ==
  ASSUME NEW s \in Bytes
  PROVE  Len(s) \in Nat /\ DOMAIN s = 1..Len(s) /\ \A i \in 1..Len(s) : s[i] \in 0..255
<1> DEFINE B == 0..255
<1>1. s \in Seq(B)
  BY DEF Bytes
<1> HIDE DEF B
<1>2. Len(s) \in Nat /\ DOMAIN s = 1..Len(s) /\ s \in [1..Len(s) -> B]
  BY <1>1, LenProperties
<1>3. \A i \in 1..Len(s) : s[i] \in B
  BY <1>2
<1> QED
  BY <1>2, <1>3 DEF B

(* The bytes from m to n of a string.                                      *)
LEMMA Part ==
  ASSUME NEW s \in Bytes, NEW m \in Nat, NEW n \in Nat, 1 <= m, n <= Len(s), m <= n + 1
  PROVE  /\ SubSeq(s, m, n) \in Bytes
         /\ Len(SubSeq(s, m, n)) = n - m + 1
         /\ DOMAIN SubSeq(s, m, n) = 1..(n - m + 1)
         /\ \A i \in 1..(n - m + 1) : SubSeq(s, m, n)[i] = s[m + i - 1]
<1>1. \A i \in m..n : s[i] \in 0..255
  <2>1. Len(s) \in Nat /\ \A i \in 1..Len(s) : s[i] \in 0..255
    BY BytesAre
  <2>2. \A i \in m..n : i \in 1..Len(s)
    BY <2>1
  <2> QED
    BY <2>1, <2>2
<1>2. m \in Int /\ n \in Int
  OBVIOUS
<1>3. /\ SubSeq(s, m, n) \in Seq(0..255)
      /\ Len(SubSeq(s, m, n)) = IF m <= n THEN n - m + 1 ELSE 0
      /\ \A i \in 1..(n - m + 1) : SubSeq(s, m, n)[i] = s[m + i - 1]
  BY <1>1, <1>2, SubSeqProperties
<1> QED
  BY <1>2, <1>3, LenProperties DEF Bytes

(* Two strings after each other: the first at its positions, the second    *)
(* behind.                                                                 *)
LEMMA BytesJoined ==
  ASSUME NEW s \in Bytes, NEW t \in Bytes
  PROVE  /\ s \o t \in Bytes
         /\ Len(s \o t) = Len(s) + Len(t)
         /\ \A i \in 1..Len(s) : (s \o t)[i] = s[i]
         /\ \A i \in 1..Len(t) : (s \o t)[Len(s) + i] = t[i]
<1> DEFINE B == 0..255
           u == s \o t
<1>1. s \in Seq(B) /\ t \in Seq(B)
  BY DEF Bytes
<1> HIDE DEF B
<1>2. /\ u \in Seq(B) /\ Len(u) = Len(s) + Len(t)
      /\ \A i \in 1..(Len(s) + Len(t)) : u[i] = IF i <= Len(s) THEN s[i] ELSE t[i - Len(s)]
  BY <1>1, ConcatProperties
<1>3. Len(s) \in Nat /\ Len(t) \in Nat
  BY <1>1, LenProperties
<1> DEFINE l == Len(s)
           m == Len(t)
<1> HIDE DEF u, l, m
<1>4. \A i \in 1..l : u[i] = s[i]
  BY <1>2, <1>3 DEF l, m
<1>5. \A i \in 1..m : u[l + i] = t[i]
  <2> SUFFICES ASSUME NEW i \in 1..m PROVE u[l + i] = t[i]
    OBVIOUS
  <2>1. l \in Nat /\ m \in Nat /\ l + i \in 1..(l + m) /\ ~(l + i <= l) /\ (l + i) - l = i
    BY <1>3 DEF l, m
  <2> QED
    BY <1>2, <2>1 DEF l, m
<1> QED
  BY <1>2, <1>4, <1>5 DEF u, l, m, B, Bytes

-----------------------------------------------------------------------------
(* Varints                                                                 *)

(* One byte is a string.                                                   *)
LEMMA Byte == \A d \in 0..255 : <<d>> \in Bytes /\ Len(<<d>>) = 1 /\ <<d>>[1] = d
  BY DEF Bytes

(* Group by group.                                                         *)
LEMMA VarintIs ==
  /\ \A n \in Nat : Varint[n] \in Bytes
  /\ \A n \in Nat :
        Varint[n] = IF n < 128 THEN <<n>> ELSE <<128 + (n % 128)>> \o Varint[n \div 128]
<1> DEFINE down == [n \in Nat |-> n \div 128]
           first == [n \in Nat |-> IF n < 128 THEN <<n>> ELSE <<0>>]
           step == [n \in Nat |-> [s \in Bytes |-> <<128 + (n % 128)>> \o s]]
           IsVarint(f) ==
              f = [n \in Nat |-> IF n < 128 THEN <<n>> ELSE <<128 + (n % 128)>> \o f[n \div 128]]
           bytes == CHOOSE f : IsVarint(f)
<1>0. /\ \A n \in Nat : n < 128 => <<n>> \in Bytes
      /\ <<0>> \in Bytes
      /\ \A n \in Nat : <<128 + (n % 128)>> \in Bytes
  <2> SUFFICES ASSUME NEW n \in Nat
               PROVE  (n < 128 => <<n>> \in Bytes) /\ <<0>> \in Bytes /\ <<128 + (n % 128)>> \in Bytes
    OBVIOUS
  <2> DEFINE d == 128 + (n % 128)
  <2>1. d \in 0..255 /\ 0 \in 0..255 /\ (n < 128 => n \in 0..255)
    OBVIOUS
  <2> HIDE DEF d
  <2>2. <<d>> \in Bytes
    BY <2>1, Byte
  <2> QED
    BY <2>1, <2>2, Byte DEF d
<1>1. /\ down \in [Nat -> Nat] /\ first \in [Nat -> Bytes] /\ step \in [Nat -> [Bytes -> Bytes]]
      /\ \A n \in Nat : n >= 128 => down[n] < n
  <2>1. \A n \in Nat : n \div 128 \in Nat /\ (n >= 128 => n \div 128 < n)
    OBVIOUS
  <2>2. \A n \in Nat, s \in Bytes : <<128 + (n % 128)>> \o s \in Bytes
    BY <1>0, BytesJoined
  <2> QED
    BY <1>0, <2>1, <2>2
<1>2. /\ \A n \in Nat : down[n] = n \div 128
      /\ \A n \in Nat : n < 128 => first[n] = <<n>>
      /\ \A n \in Nat, s \in Bytes : step[n][s] = <<128 + (n % 128)>> \o s
  OBVIOUS
<1>3. Unfolded(Bytes, 128, down, first, step)
  <2> HIDE DEF down, first, step
  <2> QED
    BY <1>1, Unfolding
<1>4. \E f : f \in [Nat -> Bytes] /\ IsVarint(f)
  <2> HIDE DEF down, first, step
  <2>1. PICK f \in [Nat -> Bytes] :
            \A n \in Nat : f[n] = IF n < 128 THEN first[n] ELSE step[n][f[down[n]]]
    BY <1>3 DEF Unfolded
  <2>2. \A n \in Nat : f[n] = IF n < 128 THEN <<n>> ELSE <<128 + (n % 128)>> \o f[n \div 128]
    <3> SUFFICES ASSUME NEW n \in Nat
                 PROVE  f[n] = IF n < 128 THEN <<n>> ELSE <<128 + (n % 128)>> \o f[n \div 128]
      OBVIOUS
    <3>1. n \div 128 \in Nat /\ f[n \div 128] \in Bytes
      OBVIOUS
    <3>2. CASE n < 128
      <4>1. f[n] = first[n]
        BY <2>1, <3>2
      <4> QED
        BY <1>2, <3>2, <4>1
    <3>3. CASE ~(n < 128)
      <4>1. f[n] = step[n][f[n \div 128]]
        BY <1>2, <2>1, <3>3
      <4>2. \A s \in Bytes : step[n][s] = <<128 + (n % 128)>> \o s
        BY <1>2
      <4>3. step[n][f[n \div 128]] = <<128 + (n % 128)>> \o f[n \div 128]
        BY <3>1, <4>2, Zenon
      <4> QED
        BY <3>3, <4>1, <4>3, Zenon
    <3> QED
      BY <3>2, <3>3
  <2>3. IsVarint(f)
    BY <2>2
  <2> QED
    BY <2>3
<1>5. IsVarint(bytes)
  <2> HIDE DEF IsVarint
  <2> QED
    BY <1>4
<1>6. Varint = bytes
  BY DEF Varint
<1> HIDE DEF bytes
<1>7. \A n \in Nat : Varint[n] = IF n < 128 THEN <<n>> ELSE <<128 + (n % 128)>> \o Varint[n \div 128]
  BY <1>5, <1>6
<1>8. \A n \in Nat : Varint[n] \in Bytes
  <2> DEFINE S == {n \in Nat : Varint[n] \in Bytes}
  <2>1. ASSUME NEW n \in Nat, \A m \in 0..(n - 1) : m \in S PROVE n \in S
    <3>1. n >= 128 => n \div 128 \in 0..(n - 1)
      OBVIOUS
    <3>2. CASE n < 128
      BY <1>0, <1>7, <3>2
    <3>3. CASE n >= 128
      <4>1. Varint[n] = <<128 + (n % 128)>> \o Varint[n \div 128]
        <5>1. ~(n < 128)
          BY <3>3
        <5> QED
          BY <1>7, <5>1, Zenon
      <4>2. Varint[n \div 128] \in Bytes
        BY <2>1, <3>1, <3>3
      <4>3. <<128 + (n % 128)>> \o Varint[n \div 128] \in Bytes
        BY <1>0, <4>2, BytesJoined
      <4>4. Varint[n] \in Bytes
        BY <4>1, <4>3, Zenon
      <4> QED
        BY <4>4
    <3> QED
      BY <3>2, <3>3
  <2> HIDE DEF S
  <2>2. \A n \in Nat : n \in S
    BY <2>1, StrongInduction
  <2> QED
    BY <2>2 DEF S
<1> QED
  BY <1>7, <1>8

PlaceIs(i) == CASE i = 1 -> 1 [] i = 2 -> 128 [] i = 3 -> 16384 [] i = 4 -> 2097152 [] i = 5 -> 268435456

(* The places of a varint of up to five bytes.                             *)
LEMMA Places5 == \A i \in 1..5 : Place[i] = PlaceIs(i)
  BY SMT DEF Place, PlaceIs

(* A byte in front of a byte string.                                       *)
LEMMA ByteInFront ==
  ASSUME NEW d \in 0..255, NEW s \in Bytes
  PROVE  /\ <<d>> \o s \in Bytes
         /\ Len(<<d>> \o s) = Len(s) + 1
         /\ (<<d>> \o s)[1] = d
         /\ \A i \in 1..Len(s) : (<<d>> \o s)[i + 1] = s[i]
<1>1. <<d>> \in Bytes /\ Len(<<d>>) = 1 /\ <<d>>[1] = d
  BY Byte
<1>2. Len(s) \in Nat
  BY BytesAre
<1> DEFINE u == <<d>>
<1> HIDE DEF u
<1>3. u \in Bytes /\ Len(u) = 1 /\ u[1] = d
  BY <1>1 DEF u
<1>4. /\ u \o s \in Bytes /\ Len(u \o s) = 1 + Len(s)
      /\ (u \o s)[1] = u[1]
      /\ \A i \in 1..Len(s) : (u \o s)[1 + i] = s[i]
  <2>1. /\ u \o s \in Bytes
        /\ Len(u \o s) = Len(u) + Len(s)
        /\ \A i \in 1..Len(u) : (u \o s)[i] = u[i]
        /\ \A i \in 1..Len(s) : (u \o s)[Len(u) + i] = s[i]
    BY <1>3, BytesJoined
  <2>2. 1 \in 1..Len(u)
    BY <1>3
  <2> QED
    BY <1>3, <2>1, <2>2
<1>5. \A i \in 1..Len(s) : (u \o s)[i + 1] = s[i]
  <2> SUFFICES ASSUME NEW i \in 1..Len(s) PROVE (u \o s)[i + 1] = s[i]
    OBVIOUS
  <2>1. 1 + i = i + 1
    BY <1>2
  <2> QED
    BY <1>4, <2>1
<1> QED
  BY <1>2, <1>3, <1>4, <1>5 DEF u

(* The bytes of a varint of at most 31 bits: all but the last carry on.    *)
Carrying(v, i) == 128 + ((v \div PlaceIs(i)) % 128)

VarintOf(v, s, n) ==
    /\ s \in Bytes
    /\ Len(s) = n
    /\ \A i \in 1..(n - 1) : s[i] = Carrying(v, i)
    /\ s[n] = v \div PlaceIs(n)

(* A value below 128 is written in one byte.                               *)
LEMMA VarintOf1 == \A v \in 0..127 : VarintOf(v, Varint[v], 1)
<1> SUFFICES ASSUME NEW v \in 0..127 PROVE VarintOf(v, Varint[v], 1)
  OBVIOUS
<1>1. Varint[v] = <<v>> /\ v \in 0..255
  <2>1. v \in Nat /\ v < 128 /\ v \in 0..255
    OBVIOUS
  <2> QED
    BY <2>1, VarintIs, Zenon
<1>2. v = v \div PlaceIs(1)
  BY SMT DEF PlaceIs
<1>3. <<v>> \in Bytes /\ Len(<<v>>) = 1 /\ <<v>>[1] = v
  BY <1>1, Byte
<1>4. \A i \in 1..(1 - 1) : FALSE
  OBVIOUS
<1> QED
  BY <1>1, <1>2, <1>3, <1>4 DEF VarintOf
(* A value from 128 on is written as its low seven bits and the varint of  *)
(* the rest.                                                               *)
LEMMA VarintOfNext ==
  ASSUME NEW n \in 1..4, NEW v \in Nat, v >= 128, VarintOf(v \div 128, Varint[v \div 128], n)
  PROVE  VarintOf(v, Varint[v], n + 1)
<1> DEFINE w == v \div 128
           t == Varint[w]
           d == 128 + (v % 128)
           s == <<d>> \o t
<1>1. Varint[v] = s
  <2>1. v \in Nat /\ ~(v < 128)
    OBVIOUS
  <2> QED
    BY <2>1, VarintIs, Zenon
<1>2. d \in 0..255 /\ d = Carrying(v, 1)
  <2>1. PlaceIs(1) = 1
    BY SMT DEF PlaceIs
  <2> QED
    BY <2>1, SMT DEF Carrying
<1>3. /\ w \in Nat
      /\ \A i \in 1..4 : Carrying(w, i) = Carrying(v, i + 1)
      /\ \A i \in 1..4 : w \div PlaceIs(i) = v \div PlaceIs(i + 1)
  <2>1. \A i \in 1..4 : w \div PlaceIs(i) = v \div PlaceIs(i + 1)
    <3> SUFFICES ASSUME NEW i \in 1..4 PROVE w \div PlaceIs(i) = v \div PlaceIs(i + 1)
      OBVIOUS
    <3>1. CASE i = 1
      BY <3>1, SMT DEF PlaceIs
    <3>2. CASE i = 2
      BY <3>2, SMT DEF PlaceIs
    <3>3. CASE i = 3
      BY <3>3, SMT DEF PlaceIs
    <3>4. CASE i = 4
      BY <3>4, SMT DEF PlaceIs
    <3> QED
      BY <3>1, <3>2, <3>3, <3>4
  <2> QED
    BY <2>1 DEF Carrying
<1> HIDE DEF d, w
<1>4. VarintOf(w, t, n)
  BY DEF w
<1> HIDE DEF t
<1>5. s \in Bytes /\ Len(s) = n + 1 /\ s[1] = d /\ \A i \in 1..n : s[i + 1] = t[i]
  <2>1. t \in Bytes /\ Len(t) = n
    BY <1>4 DEF VarintOf
  <2> QED
    BY <1>2, <2>1, ByteInFront
<1> HIDE DEF s
<1>6. ASSUME NEW i \in 1..n PROVE s[i] = Carrying(v, i)
  <2>1. CASE i = 1
    BY <1>2, <1>5, <2>1
  <2>2. CASE i # 1
    <3>1. i - 1 \in 1..(n - 1) /\ i - 1 \in 1..4 /\ (i - 1) + 1 = i /\ i - 1 \in 1..n
      BY <2>2
    <3>2. t[i - 1] = Carrying(w, i - 1)
      BY <1>4, <3>1 DEF VarintOf
    <3>3. s[(i - 1) + 1] = t[i - 1]
      BY <1>5, <3>1
    <3>4. Carrying(w, i - 1) = Carrying(v, (i - 1) + 1)
      BY <1>3, <3>1
    <3> QED
      BY <3>1, <3>2, <3>3, <3>4
  <2> QED
    BY <2>1, <2>2
<1>7. s[n + 1] = v \div PlaceIs(n + 1)
  <2>1. n \in 1..n /\ n \in 1..4
    OBVIOUS
  <2>2. t[n] = w \div PlaceIs(n)
    BY <1>4 DEF VarintOf
  <2> QED
    BY <1>3, <1>5, <2>1, <2>2
<1>8. (n + 1) - 1 = n
  OBVIOUS
<1> QED
  BY <1>1, <1>5, <1>6, <1>7, <1>8 DEF VarintOf

(* The numbers that an int32 can be, without and with sign.                *)
(* How many bytes a number takes.                                          *)
InSize(v, n) == (n > 1 => v >= PlaceIs(n)) /\ (n < 5 => v < PlaceIs(n + 1))

(* Every value of 31 bits needs one to five bytes.                         *)
LEMMA SizeThere == \A v \in Int31 : \E n \in 1..5 : InSize(v, n)
<1> SUFFICES ASSUME NEW v \in Int31 PROVE \E n \in 1..5 : InSize(v, n)
  OBVIOUS
<1>1. CASE v < 128
  <2>1. InSize(v, 1)
    BY <1>1, SMT DEF InSize, PlaceIs
  <2> QED
    BY <2>1
<1>2. CASE v >= 128 /\ v < 16384
  <2>1. InSize(v, 2)
    BY <1>2, SMT DEF InSize, PlaceIs
  <2> QED
    BY <2>1
<1>3. CASE v >= 16384 /\ v < 2097152
  <2>1. InSize(v, 3)
    BY <1>3, SMT DEF InSize, PlaceIs
  <2> QED
    BY <2>1
<1>4. CASE v >= 2097152 /\ v < 268435456
  <2>1. InSize(v, 4)
    BY <1>4, SMT DEF InSize, PlaceIs
  <2> QED
    BY <2>1
<1>5. CASE v >= 268435456
  <2>1. InSize(v, 5)
    BY <1>5, SMT DEF InSize, PlaceIs
  <2> QED
    BY <2>1
<1>6. v \in Int
  BY SMT DEF Int31
<1> QED
  BY <1>1, <1>2, <1>3, <1>4, <1>5, <1>6, SMT

(* VarintSize is that number of bytes.                                     *)
LEMMA SizeIs == \A v \in Int31 : VarintSize(v) \in 1..5 /\ InSize(v, VarintSize(v))
<1> SUFFICES ASSUME NEW v \in Int31 PROVE VarintSize(v) \in 1..5 /\ InSize(v, VarintSize(v))
  OBVIOUS
<1> DEFINE In(n) == (n > 1 => v >= Place[n]) /\ (n < 5 => v < Place[n + 1])
<1>1. \A n \in 1..5 : In(n) <=> InSize(v, n)
  <2> SUFFICES ASSUME NEW n \in 1..5 PROVE In(n) <=> InSize(v, n)
    OBVIOUS
  <2>1. Place[n] = PlaceIs(n)
    BY Places5
  <2>2. n < 5 => Place[n + 1] = PlaceIs(n + 1)
    BY Places5
  <2> QED
    BY <2>1, <2>2 DEF InSize
<1>2. VarintSize(v) = CHOOSE n \in 1..5 : In(n)
  <2>1. ~(v < 0)
    BY SMT DEF Int31
  <2> QED
    BY <2>1, Zenon DEF VarintSize
<1> HIDE DEF In
<1>3. \E n \in 1..5 : In(n)
  BY <1>1, SizeThere
<1> QED
  BY <1>1, <1>2, <1>3

(* A value that needs n bytes is written in n: its groups of seven bits,   *)
(* each but the last with the bit that says more follow.                   *)
LEMMA VarintShape ==
  ASSUME NEW n \in 1..5
  PROVE  \A v \in Int31 : InSize(v, n) => VarintOf(v, Varint[v], n) /\ v \div PlaceIs(n) \in 0..127
<1> DEFINE S == {k \in 0..4 : \A v \in Int31 : InSize(v, k + 1) => VarintOf(v, Varint[v], k + 1)}
<1>1. 0 \in S
  <2> SUFFICES ASSUME NEW v \in Int31, InSize(v, 1) PROVE VarintOf(v, Varint[v], 1)
    OBVIOUS
  <2>1. v \in 0..127
    BY SMT DEF InSize, PlaceIs, Int31
  <2> QED
    BY <2>1, VarintOf1
<1>2. ASSUME NEW k \in 1..4, k - 1 \in S PROVE k \in S
  <2> SUFFICES ASSUME NEW v \in Int31, InSize(v, k + 1) PROVE VarintOf(v, Varint[v], k + 1)
    OBVIOUS
  <2> DEFINE w == v \div 128
  <2>1. v \in Nat /\ w \in Int31
    BY SMT DEF Int31
  <2>2. v >= 128 /\ InSize(w, k)
    <3>1. CASE k = 1
      BY <3>1, SMT DEF InSize, PlaceIs, Int31
    <3>2. CASE k = 2
      BY <3>2, SMT DEF InSize, PlaceIs, Int31
    <3>3. CASE k = 3
      BY <3>3, SMT DEF InSize, PlaceIs, Int31
    <3>4. CASE k = 4
      BY <3>4, SMT DEF InSize, PlaceIs, Int31
    <3> QED
      BY <3>1, <3>2, <3>3, <3>4
  <2> HIDE DEF w
  <2>3. (k - 1) + 1 = k
    OBVIOUS
  <2>4. VarintOf(w, Varint[w], k)
    BY <1>2, <2>1, <2>2, <2>3
  <2> QED
    BY <2>1, <2>2, <2>4, VarintOfNext DEF w
<1>3. n - 1 \in S
  <2> HIDE DEF S
  <2>1. \A i \in 0..4 : i \in S
    BY <1>1, <1>2, Induction
  <2> QED
    BY <2>1
<1>4. (n - 1) + 1 = n
  OBVIOUS
<1>5. ASSUME NEW v \in Int31, InSize(v, n) PROVE v \div PlaceIs(n) \in 0..127
  <2>1. CASE n = 1
    BY <1>5, <2>1, SMT DEF InSize, PlaceIs, Int31
  <2>2. CASE n = 2
    BY <1>5, <2>2, SMT DEF InSize, PlaceIs, Int31
  <2>3. CASE n = 3
    BY <1>5, <2>3, SMT DEF InSize, PlaceIs, Int31
  <2>4. CASE n = 4
    BY <1>5, <2>4, SMT DEF InSize, PlaceIs, Int31
  <2>5. CASE n = 5
    BY <1>5, <2>5, SMT DEF InSize, PlaceIs, Int31
  <2> QED
    BY <2>1, <2>2, <2>3, <2>4, <2>5
<1> QED
  BY <1>3, <1>4, <1>5

(* The size that is reckoned is the size that is written.                  *)
LEMMA VarintLen == \A v \in Int31 : Varint[v] \in Bytes /\ Len(Varint[v]) = VarintSize(v)
  BY SizeIs, VarintShape DEF VarintOf

(* What the i-th byte adds to the low 32 bits.                             *)
Term(s, i) ==
    IF i <= 4 THEN (s[i] % 128) * Place[i]
    ELSE IF i = 5 THEN LET h == s[5] % 16 IN (IF h >= 8 THEN h - 16 ELSE h) * Place[5]
    ELSE 0

IsSum(f, s, n) ==
    /\ f \in [0..n -> Int]
    /\ f[0] = 0
    /\ \A i \in 1..n : f[i] = f[i - 1] + Term(s, i)

Summed(s, n) == \E f : IsSum(f, s, n) /\ Low32(s, n) = f[n]

(* What a byte adds to the value read is a number.                         *)
LEMMA TermIs ==
  ASSUME NEW s, NEW i \in Nat \ {0}, s[i] \in 0..255
  PROVE  Term(s, i) \in Int
<1>1. \A d \in 0..255 : d % 128 \in Int /\ d % 16 \in Int
  OBVIOUS
<1>2. i <= 5 => Place[i] \in Int
  <2>1. i <= 5 => i \in 1..5
    OBVIOUS
  <2>2. \A j \in 1..5 : PlaceIs(j) \in Int
    BY SMT DEF PlaceIs
  <2> QED
    BY <2>1, <2>2, Places5
<1>3. \A x, y \in Int : x * y \in Int /\ x - 16 \in Int
  OBVIOUS
<1>4. CASE i <= 4
  <2>1. Term(s, i) = (s[i] % 128) * Place[i]
    BY <1>4 DEF Term
  <2> QED
    BY <1>1, <1>2, <1>3, <1>4, <2>1
<1>5. CASE i = 5
  <2> DEFINE h == s[5] % 16
             k == IF h >= 8 THEN h - 16 ELSE h
  <2>1. Term(s, i) = k * Place[5]
    BY <1>5 DEF Term
  <2>2. h \in Int
    BY <1>1, <1>5
  <2>3. k \in Int
    BY <2>2
  <2>4. Place[5] \in Int
    BY <1>2, <1>5
  <2> HIDE DEF k
  <2> QED
    BY <1>3, <2>1, <2>3, <2>4
<1>6. CASE ~(i <= 5)
  BY <1>6 DEF Term
<1> QED
  BY <1>4, <1>5, <1>6

(* The value read of n bytes is the sum of what each adds.                 *)
LEMMA Low32Is ==
  ASSUME NEW n \in Nat, NEW s, \A i \in 1..n : s[i] \in 0..255
  PROVE  Summed(s, n)
<1> DEFINE step == [i \in 1..n |-> [x \in Int |-> x + Term(s, i)]]
           zero == 0
           Terms(f) ==
              f = [i \in 0..n |->
                     IF i = 0 THEN 0
                     ELSE f[i - 1] + (IF i <= 4 THEN (s[i] % 128) * Place[i]
                                      ELSE IF i = 5
                                           THEN LET h == s[5] % 16
                                                IN (IF h >= 8 THEN h - 16 ELSE h) * Place[5]
                                           ELSE 0)]
           term == CHOOSE f : Terms(f)
<1>1. ASSUME NEW i \in 1..n PROVE Term(s, i) \in Int
  <2>1. i \in Nat \ {0} /\ s[i] \in 0..255
    OBVIOUS
  <2> QED
    BY <2>1, TermIs
<1>2. step \in [1..n -> [Int -> Int]] /\ zero \in Int
  <2>1. \A i \in 1..n : \A x \in Int : x + Term(s, i) \in Int
    BY <1>1
  <2> QED
    BY <2>1
<1>3. \A i \in 1..n, x \in Int : step[i][x] = x + Term(s, i)
  OBVIOUS
<1>4. Definable(n, Int, zero, step)
  <2> HIDE DEF step, zero
  <2> QED
    BY <1>2, Recursion
<1>5. \A f : Terms(f) <=> f = [i \in 0..n |-> IF i = 0 THEN 0 ELSE f[i - 1] + Term(s, i)]
  BY DEF Term
<1> HIDE DEF Terms, step, zero
<1>6. \E f : Terms(f)
  <2>1. PICK f \in [0..n -> Int] : f[0] = zero /\ \A i \in 1..n : f[i] = step[i][f[i - 1]]
    BY <1>4 DEF Definable, Follows
  <2>2. \A i \in 1..n : f[i] = f[i - 1] + Term(s, i)
    <3> SUFFICES ASSUME NEW i \in 1..n PROVE f[i] = f[i - 1] + Term(s, i)
      OBVIOUS
    <3>1. i - 1 \in 0..n
      OBVIOUS
    <3> QED
      BY <1>3, <2>1, <3>1
  <2>3. f = [i \in 0..n |-> IF i = 0 THEN 0 ELSE f[i - 1] + Term(s, i)]
    BY <2>1, <2>2 DEF zero
  <2> QED
    BY <1>5, <2>3
<1>7. Terms(term)
  BY <1>6
<1>8. Low32(s, n) = term[n]
  BY DEF Low32, Terms
<1> HIDE DEF term
<1>9. term = [i \in 0..n |-> IF i = 0 THEN 0 ELSE term[i - 1] + Term(s, i)]
  BY <1>5, <1>7
<1>10. /\ DOMAIN term = 0..n /\ term[0] = 0
       /\ \A i \in 1..n : i \in 0..n /\ i - 1 \in 0..n /\ term[i] = term[i - 1] + Term(s, i)
  BY <1>9
<1>11. \A i \in 0..n : term[i] \in Int
  <2> DEFINE S == {i \in 0..n : term[i] \in Int}
  <2>1. 0 \in S
    BY <1>10
  <2>2. \A i \in 1..n : i - 1 \in S => i \in S
    BY <1>1, <1>10
  <2> HIDE DEF S
  <2>3. \A i \in 0..n : i \in S
    BY <2>1, <2>2, Induction
  <2> QED
    BY <2>3 DEF S
<1>12. term \in [0..n -> Int]
  BY <1>9, <1>11
<1>13. IsSum(term, s, n)
  BY <1>10, <1>12 DEF IsSum
<1> QED
  BY <1>8, <1>13 DEF Summed

(* It depends on the bytes up to the n-th only.                            *)
LEMMA Low32Same ==
  ASSUME NEW n \in Nat, NEW s, NEW t, \A i \in 1..n : s[i] \in 0..255 /\ t[i] = s[i]
  PROVE  Low32(t, n) = Low32(s, n)
<1>1. Summed(s, n) /\ Summed(t, n)
  BY Low32Is
<1>2. PICK f : IsSum(f, s, n) /\ Low32(s, n) = f[n]
  BY <1>1 DEF Summed
<1>3. PICK g : IsSum(g, t, n) /\ Low32(t, n) = g[n]
  BY <1>1 DEF Summed
<1>4. \A i \in 1..n : Term(t, i) = Term(s, i)
  <2> SUFFICES ASSUME NEW i \in 1..n PROVE Term(t, i) = Term(s, i)
    OBVIOUS
  <2>1. t[i] = s[i]
    OBVIOUS
  <2>2. i = 5 => t[5] = s[5]
    BY <2>1
  <2> QED
    BY <2>1, <2>2 DEF Term
<1> DEFINE S == {i \in 0..n : f[i] = g[i]}
<1>5. 0 \in S
  BY <1>2, <1>3 DEF IsSum
<1>6. \A i \in 1..n : i - 1 \in S => i \in S
  BY <1>2, <1>3, <1>4 DEF IsSum
<1> HIDE DEF S
<1>7. \A i \in 0..n : i \in S
  BY <1>5, <1>6, Induction
<1> QED
  BY <1>2, <1>3, <1>7 DEF S

(* A number comes back from its groups.                                    *)
LEMMA Groups ==
  ASSUME NEW v \in Int32
  PROVE  /\ (v % 128) * 1 = v % 128
         /\ (v % 128) + ((v \div 128) % 128) * 128 = v % 16384
         /\ (v % 16384) + ((v \div 16384) % 128) * 16384 = v % 2097152
         /\ (v % 2097152) + ((v \div 2097152) % 128) * 2097152 = v % 268435456
         /\ (v % 268435456) + (v \div 268435456) * 268435456 = v
         /\ LET h == (v \div 268435456) % 16 IN (IF h >= 8 THEN h - 16 ELSE h) = v \div 268435456
<1> USE DEF Int32
<1>1. v \in Int
  BY SMT
<1>2. (v % 128) * 1 = v % 128
  BY <1>1, SMT
<1>3. (v % 128) + ((v \div 128) % 128) * 128 = v % 16384
  BY <1>1, SMT
<1>4. (v % 16384) + ((v \div 16384) % 128) * 16384 = v % 2097152
  BY <1>1, SMT
<1>5. (v % 2097152) + ((v \div 2097152) % 128) * 2097152 = v % 268435456
  BY <1>1, SMT
<1>6. (v % 268435456) + (v \div 268435456) * 268435456 = v
  BY <1>1, SMT
<1>7. LET h == (v \div 268435456) % 16 IN (IF h >= 8 THEN h - 16 ELSE h) = v \div 268435456
  BY <1>1, SMT
<1> QED
  BY <1>2, <1>3, <1>4, <1>5, <1>6, <1>7, SMT

(* s has the groups of v in its first n bytes.                             *)
HasGroups(s, n, v) ==
    /\ \A i \in 1..n : s[i] \in 0..255
    /\ \A i \in 1..n : i <= 4 => s[i] % 128 = (v \div PlaceIs(i)) % 128
    /\ n >= 5 => s[5] % 16 = (v \div PlaceIs(5)) % 16
    /\ n < 5 => v >= 0 /\ v < PlaceIs(n + 1)

(* Bytes that hold the groups of v sum up to v, modulo 32 bits and with    *)
(* its sign.                                                               *)
LEMMA Low32Value ==
  ASSUME NEW n \in Nat \ {0}, NEW s, NEW v \in Int32, HasGroups(s, n, v)
  PROVE  Low32(s, n) = v
<1>0. v \in Int
  BY SMT DEF Int32
<1>1. \A i \in 1..n : s[i] \in 0..255
  BY DEF HasGroups
<1>2. PICK f : IsSum(f, s, n) /\ Low32(s, n) = f[n]
  BY <1>1, Low32Is DEF Summed
<1>3. f[0] = 0 /\ \A i \in 1..n : i - 1 \in 0..n /\ f[i - 1] \in Int /\ f[i] = f[i - 1] + Term(s, i)
  BY <1>2 DEF IsSum
<1>4. ASSUME NEW i \in 1..n, i <= 4 PROVE Term(s, i) = ((v \div PlaceIs(i)) % 128) * PlaceIs(i)
  <2>1. i \in 1..5
    BY <1>4
  <2> QED
    BY <1>4, <2>1, Places5 DEF Term, HasGroups
<1>5. f[1] = v % PlaceIs(2)
  <2>1. 1 \in 1..n /\ 1 - 1 = 0
    OBVIOUS
  <2>2. f[1] = 0 + ((v \div PlaceIs(1)) % 128) * PlaceIs(1)
    BY <1>3, <1>4, <2>1
  <2> QED
    BY <1>0, <2>2, Groups, SMT DEF PlaceIs
<1>6. n >= 2 => f[2] = v % PlaceIs(3)
  <2> SUFFICES ASSUME n >= 2 PROVE f[2] = v % PlaceIs(3)
    OBVIOUS
  <2>1. 2 \in 1..n /\ 2 - 1 = 1
    OBVIOUS
  <2>2. f[2] = f[1] + ((v \div PlaceIs(2)) % 128) * PlaceIs(2)
    BY <1>3, <1>4, <2>1
  <2> QED
    BY <1>0, <1>5, <2>2, Groups, SMT DEF PlaceIs
<1>7. n >= 3 => f[3] = v % PlaceIs(4)
  <2> SUFFICES ASSUME n >= 3 PROVE f[3] = v % PlaceIs(4)
    OBVIOUS
  <2>1. 3 \in 1..n /\ 3 - 1 = 2
    OBVIOUS
  <2>2. f[3] = f[2] + ((v \div PlaceIs(3)) % 128) * PlaceIs(3)
    BY <1>3, <1>4, <2>1
  <2> QED
    BY <1>0, <1>6, <2>2, Groups, SMT DEF PlaceIs
<1>8. n >= 4 => f[4] = v % PlaceIs(5)
  <2> SUFFICES ASSUME n >= 4 PROVE f[4] = v % PlaceIs(5)
    OBVIOUS
  <2>1. 4 \in 1..n /\ 4 - 1 = 3
    OBVIOUS
  <2>2. f[4] = f[3] + ((v \div PlaceIs(4)) % 128) * PlaceIs(4)
    BY <1>3, <1>4, <2>1
  <2> QED
    BY <1>0, <1>7, <2>2, Groups, SMT DEF PlaceIs
<1>9. n >= 5 => f[5] = v
  <2> SUFFICES ASSUME n >= 5 PROVE f[5] = v
    OBVIOUS
  <2>1. 5 \in 1..n /\ 5 - 1 = 4
    OBVIOUS
  <2> DEFINE h == s[5] % 16
             k == IF h >= 8 THEN h - 16 ELSE h
  <2>2. Term(s, 5) = k * PlaceIs(5)
    <3>1. Place[5] = PlaceIs(5)
      BY Places5
    <3> QED
      BY <3>1 DEF Term
  <2>3. k = v \div PlaceIs(5)
    <3>1. h = (v \div PlaceIs(5)) % 16
      BY DEF HasGroups
    <3> HIDE DEF h
    <3> QED
      BY <3>1, Groups, SMT DEF PlaceIs
  <2> HIDE DEF k
  <2>4. f[5] = f[4] + (v \div PlaceIs(5)) * PlaceIs(5)
    BY <1>3, <2>1, <2>2, <2>3
  <2> QED
    BY <1>0, <1>8, <2>4, Groups, SMT DEF PlaceIs
<1>10. CASE n < 5
  <2>1. v >= 0 /\ v < PlaceIs(n + 1)
    BY <1>10 DEF HasGroups
  <2>2. v % PlaceIs(n + 1) = v
    <3>1. n \in 1..4
      BY <1>10
    <3> QED
      BY <1>0, <2>1, <3>1, SMT DEF PlaceIs
  <2>3. f[n] = v % PlaceIs(n + 1)
    BY <1>5, <1>6, <1>7, <1>8, <1>10
  <2> QED
    BY <1>2, <2>2, <2>3
<1>11. CASE n >= 5
  <2> DEFINE S == {i \in 0..n : i >= 5 => f[i] = v}
  <2>1. 0 \in S
    OBVIOUS
  <2>2. ASSUME NEW i \in 1..n, i - 1 \in S PROVE i \in S
    <3>1. CASE i < 5
      BY <3>1
    <3>2. CASE i = 5
      BY <1>9, <1>11, <3>2
    <3>3. CASE i > 5
      <4>1. Term(s, i) = 0
        BY <3>3 DEF Term
      <4>2. f[i - 1] = v
        BY <2>2, <3>3
      <4>3. f[i] = v + 0
        BY <1>3, <4>1, <4>2
      <4> QED
        BY <1>0, <4>3
    <3> QED
      BY <3>1, <3>2, <3>3
  <2> HIDE DEF S
  <2>3. \A i \in 0..n : i \in S
    BY <2>1, <2>2, Induction
  <2> QED
    BY <1>2, <1>11, <2>3 DEF S
<1> QED
  BY <1>10, <1>11

-----------------------------------------------------------------------------
(* Reading                                                                 *)

(* A string with another behind it, cut where the first ends.              *)
LEMMA CutBehind ==
  ASSUME NEW t \in Bytes, NEW r \in Bytes
  PROVE  /\ SubSeq(t \o r, 1, Len(t)) = t
         /\ SubSeq(t \o r, Len(t) + 1, Len(t \o r)) = r
<1> DEFINE u == t \o r
           l == Len(t)
           m == Len(r)
<1>1. /\ u \in Bytes /\ Len(u) = l + m
      /\ \A i \in 1..l : u[i] = t[i]
      /\ \A i \in 1..m : u[l + i] = r[i]
  BY BytesJoined
<1>2. l \in Nat /\ m \in Nat
  BY BytesAre
<1> HIDE DEF u, l, m
<1>3. SubSeq(u, 1, l) = t
  <2> DEFINE x == SubSeq(u, 1, l)
  <2>1. x \in Bytes /\ Len(x) = l /\ \A i \in 1..l : x[i] = u[i]
    <3>1. 1 <= 1 /\ l <= Len(u) /\ 1 <= l + 1
      BY <1>1, <1>2
    <3>2. /\ x \in Bytes /\ Len(x) = l - 1 + 1 /\ \A i \in 1..(l - 1 + 1) : x[i] = u[1 + i - 1]
      BY <1>1, <1>2, <3>1, Part
    <3> QED
      BY <1>2, <3>2
  <2> HIDE DEF x
  <2>2. \A i \in 1..Len(x) : x[i] = t[i]
    BY <1>1, <2>1
  <2>3. Len(x) = Len(t)
    BY <2>1 DEF l
  <2>4. x \in Seq(0..255) /\ t \in Seq(0..255)
    BY <2>1 DEF Bytes
  <2>5. x = t
    BY <2>2, <2>3, <2>4, SeqEqual
  <2> QED
    BY <2>5 DEF x
<1>4. SubSeq(u, l + 1, Len(u)) = r
  <2> DEFINE x == SubSeq(u, l + 1, Len(u))
  <2>1. x \in Bytes /\ Len(x) = m /\ \A i \in 1..m : x[i] = u[l + i]
    <3>1. l + 1 \in Nat /\ Len(u) \in Nat /\ 1 <= l + 1 /\ Len(u) <= Len(u) /\ l + 1 <= Len(u) + 1
          /\ Len(u) - (l + 1) + 1 = m
      BY <1>1, <1>2
    <3>2. /\ x \in Bytes /\ Len(x) = Len(u) - (l + 1) + 1
          /\ \A i \in 1..(Len(u) - (l + 1) + 1) : x[i] = u[(l + 1) + i - 1]
      BY <1>1, <1>2, <3>1, Part
    <3>3. \A i \in 1..m : (l + 1) + i - 1 = l + i
      BY <1>2
    <3> QED
      BY <3>1, <3>2, <3>3
  <2> HIDE DEF x
  <2>2. \A i \in 1..Len(x) : x[i] = r[i]
    BY <1>1, <2>1
  <2>3. Len(x) = Len(r)
    BY <2>1 DEF m
  <2>4. x \in Seq(0..255) /\ r \in Seq(0..255)
    BY <2>1 DEF Bytes
  <2>5. x = r
    BY <2>2, <2>3, <2>4, SeqEqual
  <2> QED
    BY <2>5 DEF x
<1> QED
  BY <1>3, <1>4 DEF u, l

(* Concatenation of byte strings.                                          *)
LEMMA Joins ==
  /\ <<>> \in Bytes
  /\ \A s \in Bytes : s \o <<>> = s /\ <<>> \o s = s
  /\ \A s, t, u \in Bytes : (s \o t) \o u = s \o (t \o u)
  BY ConcatEmptySeq, ConcatAssociative DEF Bytes

(* The two parts of s at n.                                                *)
LEMMA Cut ==
  ASSUME NEW s \in Bytes, NEW n \in 0..Len(s)
  PROVE  /\ SubSeq(s, 1, n) \in Bytes /\ Len(SubSeq(s, 1, n)) = n
         /\ SubSeq(s, n + 1, Len(s)) \in Bytes /\ Len(SubSeq(s, n + 1, Len(s))) = Len(s) - n
         /\ s = SubSeq(s, 1, n) \o SubSeq(s, n + 1, Len(s))
<1>1. Len(s) \in Nat
  BY BytesAre
<1>2. /\ n \in Nat /\ 1 <= 1 /\ n <= Len(s) /\ 1 <= n + 1 /\ n - 1 + 1 = n
      /\ n + 1 \in Nat /\ 1 <= n + 1 /\ Len(s) <= Len(s) /\ n + 1 <= Len(s) + 1
      /\ Len(s) - (n + 1) + 1 = Len(s) - n
  BY <1>1
<1>3. SubSeq(s, 1, n) \in Bytes /\ Len(SubSeq(s, 1, n)) = n - 1 + 1
  BY <1>1, <1>2, Part
<1>4. SubSeq(s, n + 1, Len(s)) \in Bytes /\ Len(SubSeq(s, n + 1, Len(s))) = Len(s) - (n + 1) + 1
  BY <1>1, <1>2, Part
<1>5. SubSeq(s, 1, n) \o SubSeq(s, n + 1, Len(s)) = SubSeq(s, 1, Len(s))
  <2>1. 1 \in 1..(Len(s) + 1) /\ n \in (1 - 1)..Len(s) /\ Len(s) \in n..Len(s)
    BY <1>1
  <2>2. s \in Seq(0..255)
    BY DEF Bytes
  <2> QED
    BY <2>1, <2>2, ConcatAdjacentSubSeq
<1>6. SubSeq(s, 1, Len(s)) = s
  BY SubSeqFull DEF Bytes
<1> QED
  BY <1>2, <1>3, <1>4, <1>5, <1>6

(* A varint ends at the first byte that does not carry on.                 *)
EndsAt(s, n, max) ==
    /\ n \in 1..Len(s)
    /\ n <= max
    /\ s[n] < 128
    /\ \A i \in 1..(n - 1) : ~(s[i] < 128)

ReadTo(s, n) ==
    Read(Low32(s, n), \E i \in 1..n : s[i] % 128 # 0, SubSeq(s, n + 1, Len(s)))

(* ReadVarint takes the bytes up to the first without the bit that says    *)
(* more follow, and nothing where there is none within max bytes.          *)
LEMMA ReadVarintIs ==
  ASSUME NEW s \in Bytes, NEW max \in Nat
  PROVE  /\ \A n : EndsAt(s, n, max) => ReadVarint(s, max) = ReadTo(s, n)
         /\ ReadVarint(s, max) = Unread \/ \E n : EndsAt(s, n, max)
<1> DEFINE ends == {i \in 1..Min(Len(s), max) : s[i] < 128}
           least == CHOOSE i \in ends : \A j \in ends : i <= j
<1>1. Len(s) \in Nat
  BY BytesAre
<1>2. Min(Len(s), max) \in Nat /\ \A i \in Nat : i <= Min(Len(s), max) <=> i <= Len(s) /\ i <= max
  BY <1>1 DEF Min
<1>3. \A i : i \in ends <=> i \in 1..Len(s) /\ i <= max /\ s[i] < 128
  BY <1>1, <1>2
<1>4. ReadVarint(s, max) = IF ends = {} THEN Unread ELSE ReadTo(s, least)
  BY DEF ReadVarint, ReadTo
<1>5. ends \in SUBSET Nat
  BY <1>2
<1> HIDE DEF ends
<1>6. ends # {} => least \in ends /\ \A j \in ends : least <= j
  <2>1. ends # {} => \E i \in ends : \A j \in ends : i <= j
    BY <1>5, LeastMember
  <2> QED
    BY <2>1
<1> HIDE DEF least
<1>7. ends # {} => EndsAt(s, least, max)
  <2> SUFFICES ASSUME ends # {} PROVE EndsAt(s, least, max)
    OBVIOUS
  <2>1. least \in 1..Len(s) /\ least <= max /\ s[least] < 128
    BY <1>3, <1>6
  <2>2. ASSUME NEW i \in 1..(least - 1), s[i] < 128 PROVE FALSE
    <3>1. i \in 1..Len(s) /\ i <= max /\ ~(least <= i)
      BY <1>1, <2>1
    <3>2. i \in ends
      BY <1>3, <2>2, <3>1
    <3> QED
      BY <1>6, <3>1, <3>2
  <2> QED
    BY <2>1, <2>2 DEF EndsAt
<1>8. ASSUME NEW n, EndsAt(s, n, max) PROVE ends # {} /\ n = least
  <2>1. n \in 1..Len(s) /\ n <= max /\ s[n] < 128 /\ \A i \in 1..(n - 1) : ~(s[i] < 128)
    BY <1>8 DEF EndsAt
  <2>2. n \in ends
    BY <1>3, <2>1
  <2>3. least \in ends /\ least <= n
    BY <1>6, <2>2
  <2>4. least \in 1..Len(s) /\ s[least] < 128
    BY <1>3, <2>3
  <2>5. ~(least < n)
    <3>1. least < n => least \in 1..(n - 1)
      BY <1>1, <2>1, <2>4
    <3> QED
      BY <2>1, <2>4, <3>1
  <2> QED
    BY <1>1, <2>1, <2>2, <2>3, <2>4, <2>5
<1>9. ASSUME NEW n, EndsAt(s, n, max) PROVE ReadVarint(s, max) = ReadTo(s, n)
  BY <1>4, <1>8, <1>9
<1> QED
  BY <1>4, <1>7, <1>9

(* The reading of s leaves a rest of it.                                   *)
Leaves(s, rest) == rest \in Bytes /\ \E p \in Bytes : s = p \o rest

(* What follows s is not looked at.                                        *)

(* A varint read is read the same whatever follows it, and takes a byte at *)
(* least.                                                                  *)
LEMMA ReadVarintMore ==
  ASSUME NEW s \in Bytes, NEW max \in Nat, ReadVarint(s, max).ok
  PROVE  /\ ReadVarint(s, max)
            = Read(ReadVarint(s, max).value, ReadVarint(s, max).any, ReadVarint(s, max).rest)
         /\ Leaves(s, ReadVarint(s, max).rest)
         /\ Len(ReadVarint(s, max).rest) < Len(s)
         /\ \A r \in Bytes :
               ReadVarint(s \o r, max)
               = Read(ReadVarint(s, max).value, ReadVarint(s, max).any, ReadVarint(s, max).rest \o r)
<1>1. PICK n : EndsAt(s, n, max)
  <2>1. ~Unread.ok
    BY DEF Unread
  <2> QED
    BY <2>1, ReadVarintIs
<1>2. ReadVarint(s, max) = ReadTo(s, n)
  BY <1>1, ReadVarintIs
<1>3. Len(s) \in Nat /\ n \in 1..Len(s) /\ n \in Nat /\ n \in 0..Len(s)
  <2>1. Len(s) \in Nat
    BY BytesAre
  <2> QED
    BY <1>1, <2>1 DEF EndsAt
<1> DEFINE rest == SubSeq(s, n + 1, Len(s))
           head == SubSeq(s, 1, n)
<1>4. rest \in Bytes /\ Len(rest) = Len(s) - n /\ s = head \o rest /\ head \in Bytes /\ Len(head) = n
  BY <1>3, Cut
<1> DEFINE value == Low32(s, n)
           any == \E i \in 1..n : s[i] % 128 # 0
<1>8. /\ ReadVarint(s, max).value = value
      /\ ReadVarint(s, max).any = any
      /\ ReadVarint(s, max).rest = rest
      /\ ReadVarint(s, max) = Read(value, any, rest)
  <2>1. ReadVarint(s, max) = Read(value, any, rest)
    BY <1>2, Zenon DEF ReadTo
  <2> HIDE DEF value, any, rest
  <2> QED
    BY <2>1 DEF Read
<1>5. Leaves(s, ReadVarint(s, max).rest) /\ Len(ReadVarint(s, max).rest) < Len(s)
  <2>1. ReadVarint(s, max).rest = rest
    BY <1>8
  <2>2. \A l : l = Len(s) - n => l < Len(s)
    BY <1>3
  <2> HIDE DEF rest, head
  <2> QED
    BY <1>4, <2>1, <2>2 DEF Leaves
<1>6. ASSUME NEW r \in Bytes
      PROVE  ReadVarint(s \o r, max)
               = Read(ReadVarint(s, max).value, ReadVarint(s, max).any, ReadVarint(s, max).rest \o r)
  <2> DEFINE u == s \o r
  <2>1. u \in Bytes /\ Len(u) = Len(s) + Len(r) /\ \A i \in 1..Len(s) : u[i] = s[i]
    BY BytesJoined
  <2>2. Len(r) \in Nat
    BY BytesAre
  <2> HIDE DEF u
  <2>3. \A i \in 1..n : i \in 1..Len(s) /\ u[i] = s[i] /\ s[i] \in 0..255
    <3>1. \A i \in 1..n : i \in 1..Len(s)
      BY <1>3
    <3> QED
      BY <2>1, <3>1, BytesAre
  <2>4. EndsAt(u, n, max)
    <3>1. n \in 1..Len(u) /\ n \in 1..n /\ \A i \in 1..(n - 1) : i \in 1..n
      BY <1>3, <2>1, <2>2
    <3> QED
      BY <1>1, <2>3, <3>1 DEF EndsAt
  <2>5. ReadVarint(u, max) = ReadTo(u, n)
    BY <2>1, <2>4, ReadVarintIs
  <2>6. Low32(u, n) = Low32(s, n)
    BY <1>3, <2>3, Low32Same
  <2>7. (\E i \in 1..n : u[i] % 128 # 0) = (\E i \in 1..n : s[i] % 128 # 0)
    BY <2>3
  <2>8. SubSeq(u, n + 1, Len(u)) = rest \o r
    <3> HIDE DEF head, rest
    <3>1. u = head \o (rest \o r)
      BY <1>4, Joins DEF u
    <3>2. rest \o r \in Bytes
      BY <1>4, BytesJoined
    <3> QED
      BY <1>4, <3>1, <3>2, CutBehind
  <2> DEFINE there == \E i \in 1..n : u[i] % 128 # 0
  <2>9. ReadVarint(u, max)
          = Read(Low32(u, n), there, SubSeq(u, n + 1, Len(u)))
    BY <2>5, Zenon DEF ReadTo
  <2>10. there = any
    BY <2>7, Zenon
  <2> HIDE DEF rest, head, there, any
  <2> QED
    BY <1>8, <2>6, <2>8, <2>9, <2>10 DEF u
<1> HIDE DEF value, any, rest, head
<1>7. ReadVarint(s, max)
      = Read(ReadVarint(s, max).value, ReadVarint(s, max).any, ReadVarint(s, max).rest)
  BY <1>8
<1> QED
  BY <1>5, <1>6, <1>7

(* The reading of t gives v, whatever r follows.                           *)
Gives(read, v, r) == read = Read(v, read.any, r)

(* Bytes that end at their last one and hold the groups of v give v, and   *)
(* leave what follows.                                                     *)
LEMMA GivesIf ==
  ASSUME NEW t \in Bytes, NEW max \in Nat, NEW v \in Int32,
         EndsAt(t, Len(t), max), HasGroups(t, Len(t), v)
  PROVE  \A r \in Bytes : Gives(ReadVarint(t \o r, max), v, r)
<1> DEFINE n == Len(t)
           any == \E i \in 1..n : t[i] % 128 # 0
<1>1. n \in Nat \ {0}
  <2>1. Len(t) \in Nat
    BY BytesAre
  <2> QED
    BY <2>1 DEF EndsAt
<1>2. ReadVarint(t, max) = Read(Low32(t, n), any, SubSeq(t, n + 1, Len(t)))
  <2>1. ReadVarint(t, max) = ReadTo(t, n)
    BY ReadVarintIs
  <2> QED
    BY <2>1, Zenon DEF ReadTo
<1>3. Low32(t, n) = v
  <2> HIDE DEF n
  <2>1. HasGroups(t, n, v)
    BY DEF n
  <2> QED
    BY <1>1, <2>1, Low32Value
<1>4. SubSeq(t, n + 1, Len(t)) = <<>>
  <2>1. n + 1 \in Int /\ Len(t) \in Int /\ Len(t) < n + 1
    BY <1>1
  <2> QED
    BY <2>1, SubSeqEmpty
<1> HIDE DEF n, any
<1>5. ReadVarint(t, max).ok /\ ReadVarint(t, max).value = v /\ ReadVarint(t, max).rest = <<>>
  BY <1>2, <1>3, <1>4 DEF Read
<1> SUFFICES ASSUME NEW r \in Bytes PROVE Gives(ReadVarint(t \o r, max), v, r)
  OBVIOUS
<1>6. ReadVarint(t \o r, max)
      = Read(ReadVarint(t, max).value, ReadVarint(t, max).any, ReadVarint(t, max).rest \o r)
  BY <1>5, ReadVarintMore
<1> DEFINE here == ReadVarint(t, max).any
<1>7. ReadVarint(t \o r, max) = Read(v, here, <<>> \o r)
  BY <1>5, <1>6, Zenon
<1> HIDE DEF here
<1>8. <<>> \o r = r
  BY Joins
<1>9. here = ReadVarint(t \o r, max).any
  BY <1>7 DEF Read
<1> QED
  BY <1>7, <1>8, <1>9, Zenon DEF Gives

(* Varints come back.                                                      *)
LEMMA VarintBack ==
  ASSUME NEW v \in Int31, NEW r \in Bytes, NEW max \in Nat, max >= 5
  PROVE  Gives(ReadVarint(Varint[v] \o r, max), v, r)
<1> DEFINE n == VarintSize(v)
           t == Varint[v]
<1>1. n \in 1..5 /\ InSize(v, n)
  BY SizeIs
<1> HIDE DEF n
<1>2. VarintOf(v, t, n) /\ v \div PlaceIs(n) \in 0..127
  BY <1>1, VarintShape
<1> HIDE DEF t
<1>3. /\ t \in Bytes /\ Len(t) = n
      /\ \A i \in 1..(n - 1) : t[i] = Carrying(v, i)
      /\ t[n] = v \div PlaceIs(n)
  BY <1>2 DEF VarintOf
<1>4. \A i \in 1..5 : (v \div PlaceIs(i)) % 128 \in 0..127 /\ v \div PlaceIs(i) \in Int
  <2>1. v \in Int
    BY SMT DEF Int31
  <2>2. \A i \in 1..5 : PlaceIs(i) \in Nat \ {0}
    BY SMT DEF PlaceIs
  <2>3. \A p \in Nat \ {0} : v \div p \in Int
    BY <2>1
  <2> QED
    BY <2>2, <2>3
<1>5. \A c \in 0..127 : ~(128 + c < 128) /\ (128 + c) % 128 = c /\ c % 128 = c
  OBVIOUS
<1>6. EndsAt(t, n, max)
  <2>1. \A i \in 1..(n - 1) : ~(t[i] < 128)
    <3> SUFFICES ASSUME NEW i \in 1..(n - 1) PROVE ~(t[i] < 128)
      OBVIOUS
    <3>1. i \in 1..5
      BY <1>1
    <3> QED
      BY <1>3, <1>4, <1>5, <3>1 DEF Carrying
  <2>2. n \in 1..Len(t) /\ n <= max
    BY <1>1, <1>3
  <2>3. t[n] < 128
    <3>1. \A x \in 0..127 : x < 128
      OBVIOUS
    <3> QED
      BY <1>2, <1>3, <3>1
  <2> QED
    BY <2>1, <2>2, <2>3 DEF EndsAt
<1>7. HasGroups(t, n, v)
  <2>1. \A i \in 1..n : t[i] \in 0..255
    BY <1>3, BytesAre
  <2>2. ASSUME NEW i \in 1..n PROVE t[i] % 128 = (v \div PlaceIs(i)) % 128
    <3>1. CASE i = n
      BY <1>3, <3>1
    <3>2. CASE i # n
      <4>1. i \in 1..(n - 1) /\ i \in 1..5
        BY <1>1, <3>2
      <4> QED
        BY <1>3, <1>4, <1>5, <4>1 DEF Carrying
    <3> QED
      BY <3>1, <3>2
  <2>3. n >= 5 => t[5] % 16 = (v \div PlaceIs(5)) % 16
    <3>1. n >= 5 => n = 5
      BY <1>1
    <3> QED
      BY <1>3, <3>1
  <2>4. n < 5 => v >= 0 /\ v < PlaceIs(n + 1)
    <3>1. v >= 0
      BY SMT DEF Int31
    <3> QED
      BY <1>1, <3>1 DEF InSize
  <2> QED
    BY <2>1, <2>2, <2>3, <2>4 DEF HasGroups
<1>8. v \in Int32
  BY SMT DEF Int31, Int32
<1> QED
  BY <1>3, <1>6, <1>7, <1>8, GivesIf DEF t

(* A function on 1..n whose values are bytes is a byte string.             *)
LEMMA BytesOf ==
  ASSUME NEW n \in Nat, NEW s, s = [i \in 1..n |-> s[i]], \A i \in 1..n : s[i] \in 0..255
  PROVE  s \in Bytes /\ Len(s) = n
<1> DEFINE B == 0..255
<1> HIDE DEF B
<1>1. s \in [1..n -> B]
  BY DEF B
<1>2. s \in Seq(B) /\ Len(s) = n
  BY <1>1
<1> QED
  BY <1>2 DEF Bytes, B

(* A group of a value of 32 bits is seven bits.                            *)
LEMMA GroupIs ==
  ASSUME NEW v \in Int32, NEW i \in Nat \ {0}
  PROVE  /\ Group(v, i) \in 0..127
         /\ i <= 5 => Group(v, i) = (v \div PlaceIs(i)) % 128
<1>1. v \in Int
  BY SMT DEF Int32
<1>2. CASE i <= 5
  <2>1. i \in 1..5
    BY <1>2
  <2>2. Group(v, i) = (v \div PlaceIs(i)) % 128
    BY <1>2, <2>1, Places5 DEF Group
  <2>3. PlaceIs(i) \in Nat \ {0}
    BY <2>1, SMT DEF PlaceIs
  <2>4. \A p \in Nat \ {0} : (v \div p) % 128 \in 0..127
    BY <1>1
  <2> QED
    BY <2>2, <2>3, <2>4
<1>3. CASE ~(i <= 5)
  BY <1>3 DEF Group
<1> QED
  BY <1>2, <1>3

NegativeBytes(v, n, last) == [i \in 1..n |-> IF i = n THEN last ELSE 128 + Group(v, i)]

(* The ten bytes of a negative int32, and the five of the same bits as     *)
(* uint32, are read back.                                                  *)
LEMMA NegativeBack ==
  ASSUME NEW v \in Int32, NEW n \in {5, 10}, NEW last \in 0..127, n = 5 => last = Group(v, 5) % 16
  PROVE  /\ NegativeBytes(v, n, last) \in Bytes /\ Len(NegativeBytes(v, n, last)) = n
         /\ \A r \in Bytes : Gives(ReadVarint(NegativeBytes(v, n, last) \o r, 10), v, r)
<1> DEFINE t == NegativeBytes(v, n, last)
           max == 10
<1>0. t = [i \in 1..n |-> IF i = n THEN last ELSE 128 + Group(v, i)] /\ max \in Nat /\ n <= max
  BY DEF NegativeBytes
<1> HIDE DEF t, max
<1>1. \A i \in 1..n : i \in Nat \ {0} /\ Group(v, i) \in 0..127
  BY GroupIs
<1>2. /\ t = [i \in 1..n |-> t[i]]
      /\ t[n] = last
      /\ \A i \in 1..n : i # n => t[i] = 128 + Group(v, i)
  BY <1>0
<1>3. \A i \in 1..n : t[i] \in 0..255
  <2> SUFFICES ASSUME NEW i \in 1..n PROVE t[i] \in 0..255
    OBVIOUS
  <2>1. \A x \in 0..127 : x \in 0..255 /\ 128 + x \in 0..255
    OBVIOUS
  <2> QED
    <3>1. CASE i = n
      BY <1>2, <2>1, <3>1
    <3>2. CASE i # n
      <4>1. t[i] = 128 + Group(v, i) /\ Group(v, i) \in 0..127
        BY <1>1, <1>2, <3>2
      <4>2. 128 + Group(v, i) \in 0..255
        BY <2>1, <4>1
      <4> QED
        BY <4>1, <4>2, Zenon
    <3> QED
      BY <3>1, <3>2
<1>4. t \in Bytes /\ Len(t) = n
  <2>1. n \in Nat
    OBVIOUS
  <2> QED
    BY <1>2, <1>3, <2>1, BytesOf
<1>5. \A c \in 0..127 : /\ ~(128 + c < 128) /\ (128 + c) % 128 = c /\ c < 128
                        /\ (128 + c) % 16 = c % 16 /\ (c % 16) % 16 = c % 16
  OBVIOUS
<1>6. EndsAt(t, n, max)
  <2>1. \A i \in 1..(n - 1) : ~(t[i] < 128)
    <3> SUFFICES ASSUME NEW i \in 1..(n - 1) PROVE ~(t[i] < 128)
      OBVIOUS
    <3>1. i \in 1..n /\ i # n
      OBVIOUS
    <3> QED
      <4>1. t[i] = 128 + Group(v, i) /\ Group(v, i) \in 0..127
        BY <1>1, <1>2, <3>1
      <4>2. ~(128 + Group(v, i) < 128)
        BY <1>5, <4>1
      <4> QED
        BY <4>1, <4>2, Zenon
  <2>2. n \in 1..Len(t) /\ n <= max
    BY <1>0, <1>4
  <2>3. t[n] < 128
    BY <1>2, <1>5
  <2> QED
    BY <2>1, <2>2, <2>3 DEF EndsAt
<1>7. HasGroups(t, n, v)
  <2>1. ASSUME NEW i \in 1..n, i <= 4 PROVE t[i] % 128 = (v \div PlaceIs(i)) % 128
    <3>1. i # n /\ i <= 5 /\ i \in Nat \ {0}
      BY <2>1
    <3>2. t[i] = 128 + Group(v, i) /\ Group(v, i) = (v \div PlaceIs(i)) % 128
      BY <1>2, <3>1, GroupIs
    <3>3. Group(v, i) \in 0..127
      BY <1>1
    <3>4. (128 + Group(v, i)) % 128 = Group(v, i)
      BY <1>5, <3>3
    <3> QED
      BY <3>2, <3>4, Zenon
  <2>2. t[5] % 16 = (v \div PlaceIs(5)) % 16
    <3>1. Group(v, 5) = (v \div PlaceIs(5)) % 128 /\ Group(v, 5) \in 0..127
      BY GroupIs
    <3>2. Group(v, 5) % 16 = (v \div PlaceIs(5)) % 16
      <4>1. v \div PlaceIs(5) \in Int
        BY SMT DEF PlaceIs, Int32
      <4>2. \A x \in Int : (x % 128) % 16 = x % 16
        OBVIOUS
      <4> QED
        BY <3>1, <4>1, <4>2
    <3>3. CASE n = 5
      BY <1>2, <1>5, <3>1, <3>2, <3>3
    <3>4. CASE n = 10
      <4>1. t[5] = 128 + Group(v, 5)
        BY <1>2, <3>4
      <4>2. (128 + Group(v, 5)) % 16 = Group(v, 5) % 16
        BY <1>5, <3>1
      <4> QED
        BY <3>2, <4>1, <4>2, Zenon
    <3> QED
      BY <3>3, <3>4
  <2>3. ~(n < 5)
    OBVIOUS
  <2> QED
    BY <1>3, <2>1, <2>2, <2>3 DEF HasGroups
<1>8. \A r \in Bytes : Gives(ReadVarint(t \o r, max), v, r)
  BY <1>0, <1>4, <1>6, <1>7, GivesIf
<1> QED
  BY <1>4, <1>8 DEF t, max

(* A value of 32 bits that is not negative has 31.                         *)
LEMMA NotNegative == \A v \in Int32 : v < 0 \/ v \in Int31
  BY SMT DEF Int31, Int32

(* So do an int32 and a uint32.                                            *)
LEMMA Int32Back ==
  ASSUME NEW v \in Int32
  PROVE  /\ Int32Bytes(v) \in Bytes /\ Len(Int32Bytes(v)) = Int32Size(v)
         /\ \A r \in Bytes : Gives(ReadVarint(Int32Bytes(v) \o r, 10), v, r)
<1>1. CASE v < 0
  <2> DEFINE t == NegativeBytes(v, 10, 1)
  <2>1. ~(v >= 0)
    BY <1>1, SMT DEF Int32
  <2>2. Int32Bytes(v) = t
    BY <2>1, Zenon DEF Int32Bytes, NegativeBytes
  <2>3. /\ t \in Bytes /\ Len(t) = 10
        /\ \A r \in Bytes : Gives(ReadVarint(t \o r, 10), v, r)
    <3>1. 10 \in {5, 10} /\ 1 \in 0..127 /\ 10 # 5
      OBVIOUS
    <3> QED
      BY <3>1, NegativeBack
  <2>4. Int32Size(v) = 10
    BY <1>1 DEF Int32Size
  <2> QED
    BY <2>2, <2>3, <2>4
<1>2. CASE v \in Int31
  <2>1. v >= 0 /\ ~(v < 0)
    BY <1>2, SMT DEF Int31
  <2>2. Int32Bytes(v) = Varint[v] /\ Int32Size(v) = VarintSize(v)
    BY <2>1, Zenon DEF Int32Bytes, Int32Size
  <2>3. 10 \in Nat /\ 10 >= 5
    OBVIOUS
  <2> QED
    BY <1>2, <2>2, <2>3, VarintBack, VarintLen
<1> QED
  BY <1>1, <1>2, NotNegative

(* A uint32 written is the uint32 read, and its size is the size           *)
(* announced.                                                              *)
LEMMA UInt32Back ==
  ASSUME NEW v \in Int32
  PROVE  /\ UInt32Bytes(v) \in Bytes /\ Len(UInt32Bytes(v)) = VarintSize(v)
         /\ \A r \in Bytes : Gives(ReadVarint(UInt32Bytes(v) \o r, 10), v, r)
<1>1. CASE v < 0
  <2> DEFINE last == Group(v, 5) % 16
             t == NegativeBytes(v, 5, last)
  <2>1. ~(v >= 0)
    BY <1>1, SMT DEF Int32
  <2>2. UInt32Bytes(v) = t
    BY <2>1, Zenon DEF UInt32Bytes, NegativeBytes
  <2>3. /\ t \in Bytes /\ Len(t) = 5
        /\ \A r \in Bytes : Gives(ReadVarint(t \o r, 10), v, r)
    <3>1. 5 \in {5, 10}
      OBVIOUS
    <3>2. last \in 0..127
      <4>1. Group(v, 5) \in 0..127
        BY GroupIs
      <4>2. \A x \in 0..127 : x % 16 \in 0..127
        OBVIOUS
      <4> QED
        BY <4>1, <4>2
    <3>3. last = Group(v, 5) % 16
      OBVIOUS
    <3> HIDE DEF last
    <3> QED
      BY <3>1, <3>2, <3>3, NegativeBack
  <2>4. VarintSize(v) = 5
    BY <1>1 DEF VarintSize
  <2> QED
    BY <2>2, <2>3, <2>4
<1>2. CASE v \in Int31
  <2>1. v >= 0
    BY <1>2, SMT DEF Int31
  <2>2. UInt32Bytes(v) = Varint[v]
    BY <2>1, Zenon DEF UInt32Bytes
  <2>3. 10 \in Nat /\ 10 >= 5
    OBVIOUS
  <2> QED
    BY <1>2, <2>2, <2>3, VarintBack, VarintLen
<1> QED
  BY <1>1, <1>2, NotNegative

(* Two strings joined, and taken apart at the length of the first.         *)
LEMMA Apart ==
  ASSUME NEW a \in Bytes, NEW b \in Bytes
  PROVE  /\ Len(a) \in 0..Len(a \o b) /\ a \o b \in Bytes
         /\ SubSeq(a \o b, 1, Len(a)) = a
         /\ SubSeq(a \o b, Len(a) + 1, Len(a \o b)) = b
<1>1. Len(a) \in Nat /\ Len(b) \in Nat
  BY BytesAre
<1>2. Len(a \o b) = Len(a) + Len(b) /\ a \o b \in Bytes
  BY BytesJoined
<1>3. Len(a) \in 0..Len(a \o b)
  BY <1>1, <1>2
<1> QED
  BY <1>2, <1>3, CutBehind

(* As many bytes as announced are taken, and the rest left.                *)
LEMMA TakeIs ==
  ASSUME NEW a \in Bytes, NEW b \in Bytes, NEW any
  PROVE  TakeBytes(Read(Len(a), any, a \o b)) = Read(a, any, b)
<1> DEFINE l == Len(a)
           q == a \o b
           head == SubSeq(q, 1, l)
           tail == SubSeq(q, l + 1, Len(q))
           size == Read(l, any, q)
<1>1. l \in 0..Len(q) /\ head = a /\ tail = b
  BY Apart
<1>2. size.ok /\ size.value = l /\ size.rest = q /\ size.any = any
  BY DEF Read
<1>3. TakeBytes(size) = Read(SubSeq(size.rest, 1, size.value), size.any,
                             SubSeq(size.rest, size.value + 1, Len(size.rest)))
  <2>1. ~(~size.ok \/ size.value \notin 0..Len(size.rest))
    BY <1>1, <1>2
  <2> HIDE DEF size
  <2> QED
    BY <2>1, Zenon DEF TakeBytes
<1> HIDE DEF l, q, size
<1> QED
  BY <1>1, <1>2, <1>3, Zenon DEF l, q, size

(* A string read is read the same whatever follows it.                     *)
LEMMA ReadBytesMore ==
  ASSUME NEW s \in Bytes, ReadBytes(s).ok
  PROVE  /\ Leaves(s, ReadBytes(s).rest)
         /\ \A r \in Bytes :
               ReadBytes(s \o r) = Read(ReadBytes(s).value, ReadBytes(s).any, ReadBytes(s).rest \o r)
<1> DEFINE x == ReadVarint(s, 5)
           k == x.value
           any == x.any
           q == x.rest
           a == SubSeq(q, 1, k)
           b == SubSeq(q, k + 1, Len(q))
<1>1. x.ok /\ k \in 0..Len(q)
  <2>1. ~Unread.ok
    BY DEF Unread
  <2> QED
    BY <2>1, Zenon DEF ReadBytes, TakeBytes
<1>2. /\ x = Read(k, any, q)
      /\ Leaves(s, q)
      /\ \A r \in Bytes : ReadVarint(s \o r, 5) = Read(k, any, q \o r)
  <2>1. 5 \in Nat
    OBVIOUS
  <2> QED
    BY <1>1, <2>1, ReadVarintMore
<1> HIDE DEF x, k, any, q
<1>3. q \in Bytes
  BY <1>2 DEF Leaves
<1>4. a \in Bytes /\ b \in Bytes /\ q = a \o b /\ Len(a) = k
  BY <1>1, <1>3, Cut
<1> HIDE DEF a, b
<1>5. ReadBytes(s) = Read(a, any, b)
  <2>1. ReadBytes(s) = TakeBytes(Read(Len(a), any, a \o b))
    BY <1>2, <1>4, Zenon DEF ReadBytes, x
  <2> QED
    BY <1>4, <2>1, TakeIs
<1>6. ASSUME NEW r \in Bytes PROVE ReadBytes(s \o r) = Read(a, any, b \o r)
  <2>1. q \o r = a \o (b \o r) /\ b \o r \in Bytes
    <3>1. (a \o b) \o r = a \o (b \o r)
      BY <1>4, Joins
    <3>2. b \o r \in Bytes
      BY <1>4, BytesJoined
    <3> QED
      BY <1>4, <3>1, <3>2, Zenon
  <2>2. ReadBytes(s \o r) = TakeBytes(Read(Len(a), any, a \o (b \o r)))
    BY <1>2, <1>4, <2>1, Zenon DEF ReadBytes
  <2> QED
    BY <1>4, <2>1, <2>2, TakeIs
<1>7. ReadBytes(s).value = a /\ ReadBytes(s).any = any /\ ReadBytes(s).rest = b
  BY <1>5 DEF Read
<1>8. Leaves(s, b)
  <2>1. PICK p \in Bytes : s = p \o q
    BY <1>2 DEF Leaves
  <2>2. s = (p \o a) \o b /\ p \o a \in Bytes
    <3>1. (p \o a) \o b = p \o (a \o b)
      BY <1>4, Joins
    <3>2. p \o a \in Bytes
      BY <1>4, BytesJoined
    <3> QED
      BY <1>4, <2>1, <3>1, <3>2, Zenon
  <2> QED
    BY <1>4, <2>2 DEF Leaves
<1> QED
  BY <1>6, <1>7, <1>8

(* A byte string that is written comes back.                               *)
LEMMA BytesBack ==
  ASSUME NEW v \in Bytes, Len(v) \in Int31, NEW r \in Bytes
  PROVE  Gives(ReadBytes(Varint[Len(v)] \o (v \o r)), v, r)
<1> DEFINE s == Varint[Len(v)] \o (v \o r)
           x == ReadVarint(s, 5)
<1>1. v \o r \in Bytes
  BY BytesJoined
<1>2. x = Read(Len(v), x.any, v \o r)
  <2>1. 5 \in Nat /\ 5 >= 5
    OBVIOUS
  <2> QED
    BY <1>1, <2>1, VarintBack DEF Gives
<1> DEFINE any == x.any
<1>3. ReadBytes(s) = TakeBytes(Read(Len(v), any, v \o r))
  BY <1>2, Zenon DEF ReadBytes
<1> HIDE DEF any, s
<1>4. ReadBytes(s) = Read(v, any, r)
  BY <1>3, TakeIs
<1>5. ReadBytes(s).any = any
  BY <1>4 DEF Read
<1> QED
  BY <1>4, <1>5, Zenon DEF Gives, s

(* A field of fixed size is skipped the same whatever follows it.          *)
LEMMA FixedMore ==
  ASSUME NEW s \in Bytes, NEW n \in Nat, ReadFixed(s, n).ok
  PROVE  /\ Leaves(s, ReadFixed(s, n).rest)
         /\ \A r \in Bytes :
               ReadFixed(s \o r, n).ok /\ ReadFixed(s \o r, n).rest = ReadFixed(s, n).rest \o r
<1> DEFINE a == SubSeq(s, 1, n)
           b == SubSeq(s, n + 1, Len(s))
<1>1. Len(s) \in Nat
  BY BytesAre
<1>2. ~(Len(s) < n) /\ n \in 0..Len(s)
  <2>1. ~Unread.ok
    BY DEF Unread
  <2>2. ~(Len(s) < n)
    BY <2>1 DEF ReadFixed
  <2> QED
    BY <1>1, <2>2
<1>3. a \in Bytes /\ b \in Bytes /\ s = a \o b /\ Len(a) = n
  BY <1>2, Cut
<1>4. ReadFixed(s, n).rest = b
  BY <1>2 DEF ReadFixed, Read
<1> HIDE DEF a, b
<1>5. ASSUME NEW r \in Bytes PROVE ReadFixed(s \o r, n).ok /\ ReadFixed(s \o r, n).rest = b \o r
  <2> DEFINE u == s \o r
  <2>1. b \o r \in Bytes /\ u = a \o (b \o r)
    <3>1. (a \o b) \o r = a \o (b \o r)
      BY <1>3, Joins
    <3>2. b \o r \in Bytes
      BY <1>3, BytesJoined
    <3> QED
      BY <1>3, <3>1, <3>2, Zenon
  <2> HIDE DEF u
  <2>2. SubSeq(u, n + 1, Len(u)) = b \o r /\ n \in 0..Len(u) /\ u \in Bytes
    BY <1>3, <2>1, Apart
  <2>3. ~(Len(u) < n)
    <3>1. Len(u) \in Nat
      BY <2>2, BytesAre
    <3> QED
      BY <2>2, <3>1
  <2>4. ReadFixed(u, n).ok /\ ReadFixed(u, n).rest = b \o r
    BY <2>2, <2>3 DEF ReadFixed, Read
  <2> QED
    BY <2>4 DEF u
<1> QED
  BY <1>3, <1>4, <1>5 DEF Leaves

(* A field that is skipped is skipped whatever follows.                    *)
LEMMA SkipMore ==
  ASSUME NEW s \in Bytes, NEW tag, SkipField(tag, s).ok
  PROVE  /\ Leaves(s, SkipField(tag, s).rest)
         /\ \A r \in Bytes :
               SkipField(tag, s \o r).ok /\ SkipField(tag, s \o r).rest = SkipField(tag, s).rest \o r
<1> DEFINE known == tag \div 8 # 0
           kind == tag % 8
<1>1. \A x : SkipField(tag, x) = CASE ~known -> Unread
                                   [] known /\ kind = 0 -> ReadVarint(x, 10)
                                   [] known /\ kind = 1 -> ReadFixed(x, 8)
                                   [] known /\ kind = 2 -> ReadBytes(x)
                                   [] known /\ kind = 5 -> ReadFixed(x, 4)
                                   [] OTHER -> Unread
  BY DEF SkipField
<1>2. ~Unread.ok
  BY DEF Unread
<1> HIDE DEF known, kind
<1>3. CASE known /\ kind = 0
  <2>1. \A x : SkipField(tag, x) = ReadVarint(x, 10)
    BY <1>1, <1>3
  <2>2. 10 \in Nat
    OBVIOUS
  <2>3. ReadVarint(s, 10).ok
    BY <2>1, Zenon
  <2>4. /\ Leaves(s, ReadVarint(s, 10).rest)
        /\ \A r \in Bytes :
              ReadVarint(s \o r, 10)
              = Read(ReadVarint(s, 10).value, ReadVarint(s, 10).any, ReadVarint(s, 10).rest \o r)
    BY <2>2, <2>3, ReadVarintMore
  <2>5. \A r \in Bytes : ReadVarint(s \o r, 10).ok /\ ReadVarint(s \o r, 10).rest = ReadVarint(s, 10).rest \o r
    BY <2>4 DEF Read
  <2> QED
    BY <2>1, <2>4, <2>5, Zenon
<1>4. CASE known /\ kind = 1
  <2>1. \A x : SkipField(tag, x) = ReadFixed(x, 8)
    BY <1>1, <1>4
  <2>2. 8 \in Nat
    OBVIOUS
  <2>3. ReadFixed(s, 8).ok
    BY <2>1, Zenon
  <2>4. /\ Leaves(s, ReadFixed(s, 8).rest)
        /\ \A r \in Bytes : ReadFixed(s \o r, 8).ok /\ ReadFixed(s \o r, 8).rest = ReadFixed(s, 8).rest \o r
    BY <2>2, <2>3, FixedMore
  <2> QED
    BY <2>1, <2>4, Zenon
<1>5. CASE known /\ kind = 2
  <2>1. \A x : SkipField(tag, x) = ReadBytes(x)
    BY <1>1, <1>5
  <2>3. ReadBytes(s).ok
    BY <2>1, Zenon
  <2>4. /\ Leaves(s, ReadBytes(s).rest)
        /\ \A r \in Bytes :
              ReadBytes(s \o r)
              = Read(ReadBytes(s).value, ReadBytes(s).any, ReadBytes(s).rest \o r)
    BY <2>3, ReadBytesMore
  <2>5. \A r \in Bytes : ReadBytes(s \o r).ok /\ ReadBytes(s \o r).rest = ReadBytes(s).rest \o r
    BY <2>4 DEF Read
  <2> QED
    BY <2>1, <2>4, <2>5, Zenon
<1>6. CASE known /\ kind = 5
  <2>1. \A x : SkipField(tag, x) = ReadFixed(x, 4)
    BY <1>1, <1>6
  <2>2. 4 \in Nat
    OBVIOUS
  <2>3. ReadFixed(s, 4).ok
    BY <2>1, Zenon
  <2>4. /\ Leaves(s, ReadFixed(s, 4).rest)
        /\ \A r \in Bytes : ReadFixed(s \o r, 4).ok /\ ReadFixed(s \o r, 4).rest = ReadFixed(s, 4).rest \o r
    BY <2>2, <2>3, FixedMore
  <2> QED
    BY <2>1, <2>4, Zenon
<1> QED
  BY <1>1, <1>2, <1>3, <1>4, <1>5, <1>6

-----------------------------------------------------------------------------
(* Turns                                                                   *)

TurnOf(cases, s) == AtTag(cases, s, ReadVarint(s, 5))

(* What a turn reads.                                                      *)
Takes(turn, how, value, rest) ==
    turn.ok /\ turn.how = how /\ turn.value = value /\ turn.rest = rest

(* Behind the tag of a case of the switch stands a field of that case.     *)
LEMMA KnownTurn ==
  ASSUME NEW cases, NEW tag \in Int31, tag \in DOMAIN cases, NEW q \in Bytes
  PROVE  TurnOf(cases, Varint[tag] \o q) = ReadField(cases[tag], q)
<1> DEFINE s == Varint[tag] \o q
           x == ReadVarint(s, 5)
<1>1. x = Read(tag, x.any, q)
  <2>1. 5 \in Nat /\ 5 >= 5
    OBVIOUS
  <2> QED
    BY <2>1, VarintBack DEF Gives
<1> HIDE DEF x
<1>2. x.ok /\ x.value = tag /\ x.rest = q
  BY <1>1 DEF Read
<1>3. TurnOf(cases, s) = ReadField(cases[tag], q)
  BY <1>2, Zenon DEF TurnOf, AtTag, x
<1> QED
  BY <1>3

(* A field of a length and as many bytes is read back ...                  *)
LEMMA BytesTurn ==
  ASSUME NEW cases, NEW tag \in Int31, tag \in DOMAIN cases, NEW how, cases[tag] = how,
         how.kind \notin {"number", "bool"}, NEW v \in Bytes, Len(v) \in Int31, NEW r \in Bytes
  PROVE  Takes(TurnOf(cases, Varint[tag] \o (Varint[Len(v)] \o (v \o r))), how, v, r)
<1> DEFINE q == Varint[Len(v)] \o (v \o r)
           x == ReadBytes(q)
<1>1. q \in Bytes
  BY VarintLen, BytesJoined
<1>2. TurnOf(cases, Varint[tag] \o q) = ReadField(how, q)
  BY <1>1, KnownTurn
<1>3. ReadField(how, q) = Turn(how, x, x.value)
  BY Zenon DEF ReadField, ReadString
<1>4. x = Read(v, x.any, r)
  BY BytesBack DEF Gives
<1> HIDE DEF x
<1>5. x.ok /\ x.value = v /\ x.rest = r
  BY <1>4 DEF Read
<1>6. Takes(Turn(how, x, x.value), how, v, r)
  BY <1>5 DEF Turn, Takes
<1> QED
  BY <1>2, <1>3, <1>6, Zenon

(* ... and a number ...                                                    *)
LEMMA NumberTurn ==
  ASSUME NEW cases, NEW tag \in Int31, tag \in DOMAIN cases, NEW how, cases[tag] = how,
         how.kind = "number", NEW t \in Bytes, NEW v, NEW r \in Bytes,
         Gives(ReadVarint(t \o r, 10), v, r)
  PROVE  Takes(TurnOf(cases, Varint[tag] \o (t \o r)), how, v, r)
<1> DEFINE q == t \o r
           x == ReadVarint(q, 10)
<1>1. q \in Bytes
  BY BytesJoined
<1>2. TurnOf(cases, Varint[tag] \o q) = ReadField(how, q)
  BY <1>1, KnownTurn
<1>3. ReadField(how, q) = Turn(how, x, x.value)
  <2>1. how.kind \in {"number", "bool"} /\ ~(how.kind = "bool")
    OBVIOUS
  <2> QED
    BY <2>1, Zenon DEF ReadField, ReadValue
<1>4. x = Read(v, x.any, r)
  BY DEF Gives
<1> HIDE DEF x
<1>5. x.ok /\ x.value = v /\ x.rest = r
  BY <1>4 DEF Read
<1>6. Takes(Turn(how, x, x.value), how, v, r)
  BY <1>5 DEF Turn, Takes
<1> QED
  BY <1>2, <1>3, <1>6, Zenon

(* ... and a bool that is true.                                            *)
LEMMA BoolTurn ==
  ASSUME NEW cases, NEW tag \in Int31, tag \in DOMAIN cases, NEW how, cases[tag] = how,
         how.kind = "bool", NEW r \in Bytes
  PROVE  Takes(TurnOf(cases, Varint[tag] \o (<<1>> \o r)), how, TRUE, r)
<1> DEFINE t == <<1>>
           q == t \o r
           max == 10
           x == ReadVarint(q, max)
           y == ReadVarint(t, max)
<1>0. t \in Bytes /\ Len(t) = 1 /\ t[1] = 1 /\ max \in Nat /\ 1 <= max
  BY Byte
<1> HIDE DEF t, max
<1>1. q \in Bytes
  BY <1>0, BytesJoined
<1>2. TurnOf(cases, Varint[tag] \o q) = ReadField(how, q)
  BY <1>1, KnownTurn
<1>3. ReadField(how, q) = Turn(how, x, x.any)
  <2>1. how.kind \in {"number", "bool"}
    OBVIOUS
  <2> QED
    BY <2>1, Zenon DEF ReadField, ReadValue, max
<1>4. y.ok /\ y.any = TRUE /\ y.rest = <<>>
  <2>1. EndsAt(t, 1, max)
    <3>1. t[1] < 128 /\ 1 \in 1..Len(t) /\ 1 <= max /\ \A i \in 1..(1 - 1) : FALSE
      BY <1>0
    <3> QED
      BY <3>1 DEF EndsAt
  <2> DEFINE any == \E i \in 1..1 : t[i] % 128 # 0
  <2>2. y = Read(Low32(t, 1), any, SubSeq(t, 1 + 1, Len(t)))
    <3>1. y = ReadTo(t, 1)
      BY <1>0, <2>1, ReadVarintIs
    <3> QED
      BY <3>1, Zenon DEF ReadTo
  <2>3. any
    <3>1. t[1] % 128 # 0 /\ 1 \in 1..1
      BY <1>0
    <3> QED
      BY <3>1, Zenon
  <2>4. SubSeq(t, 1 + 1, Len(t)) = <<>>
    <3>1. 1 + 1 \in Int /\ Len(t) \in Int /\ Len(t) < 1 + 1
      BY <1>0
    <3> QED
      BY <3>1, SubSeqEmpty
  <2> HIDE DEF any, y
  <2>5. y.ok /\ y.any = any /\ y.rest = SubSeq(t, 1 + 1, Len(t))
    BY <2>2 DEF Read
  <2> QED
    BY <2>3, <2>4, <2>5
<1>5. x = Read(y.value, y.any, y.rest \o r)
  BY <1>0, <1>4, ReadVarintMore
<1> HIDE DEF x, y
<1>6. x.ok /\ x.any = TRUE /\ x.rest = r
  <2>1. x.ok /\ x.any = y.any /\ x.rest = y.rest \o r
    BY <1>5 DEF Read
  <2>2. <<>> \o r = r
    BY Joins
  <2> QED
    BY <1>4, <2>1, <2>2
<1>7. Takes(Turn(how, x, x.any), how, TRUE, r)
  BY <1>6 DEF Turn, Takes
<1> QED
  BY <1>2, <1>3, <1>7, Zenon DEF t

(* What is left of a string is a string, and no longer than it.            *)
LEMMA LeavesLess ==
  ASSUME NEW s \in Bytes, NEW r, Leaves(s, r)
  PROVE  r \in Bytes /\ Len(r) \in Nat /\ Len(s) \in Nat /\ Len(r) <= Len(s)
<1>1. PICK p \in Bytes : s = p \o r
  BY DEF Leaves
<1>2. r \in Bytes
  BY DEF Leaves
<1>3. Len(p \o r) = Len(p) + Len(r) /\ Len(p) \in Nat /\ Len(r) \in Nat
  BY <1>2, BytesJoined, BytesAre
<1> QED
  BY <1>1, <1>2, <1>3

(* What is left of what is left, is left.                                  *)
LEMMA LeavesOn ==
  ASSUME NEW s \in Bytes, NEW q, NEW r, Leaves(s, q), Leaves(q, r)
  PROVE  Leaves(s, r)
<1>1. PICK p \in Bytes : s = p \o q
  BY DEF Leaves
<1>2. q \in Bytes /\ r \in Bytes
  BY DEF Leaves
<1>3. PICK o \in Bytes : q = o \o r
  BY DEF Leaves
<1>4. (p \o o) \o r = p \o (o \o r) /\ p \o o \in Bytes
  <2>1. (p \o o) \o r = p \o (o \o r)
    BY <1>2, Joins
  <2>2. p \o o \in Bytes
    BY BytesJoined
  <2> QED
    BY <2>1, <2>2
<1>5. s = (p \o o) \o r
  BY <1>1, <1>3, <1>4, Zenon
<1> QED
  BY <1>2, <1>4, <1>5 DEF Leaves

(* A turn of a field that is not known: the skipped bytes are kept, as the *)
(* library writes them.                                                    *)
LEMMA StrangeTurn ==
  ASSUME NEW cases, NEW s \in Bytes, ReadVarint(s, 5).ok => ReadVarint(s, 5).value \notin DOMAIN cases,
         TurnOf(cases, s).ok
  PROVE  LET turn == TurnOf(cases, s)
             p == FrontOf(s, turn.rest)
         IN /\ p \in Bytes /\ turn.rest \in Bytes /\ s = p \o turn.rest
            /\ Len(turn.rest) < Len(s)
            /\ turn.how = AddUnknown
            /\ \A r \in Bytes :
                  Takes(TurnOf(cases, s \o r), AddUnknown, turn.value, turn.rest \o r)
<1> DEFINE x == ReadVarint(s, 5)
           q == x.rest
           tag == x.value
           skipped == SkipField(tag, q)
           rest == skipped.rest
           turn == TurnOf(cases, s)
<1>0. ~Unread.ok /\ 5 \in Nat
  BY DEF Unread
<1>1. x.ok /\ turn = KeepUnknown(s, skipped)
  <2>1. ~(x.ok /\ x.value \in DOMAIN cases)
    OBVIOUS
  <2>2. turn = KeepUnknown(s, IF x.ok THEN skipped ELSE Unread)
    BY <2>1, Zenon DEF TurnOf, AtTag
  <2>3. turn.ok
    OBVIOUS
  <2> HIDE DEF turn, x, q, tag, skipped
  <2>4. \A k : KeepUnknown(s, k).ok = k.ok
    BY DEF KeepUnknown, Turn
  <2>5. x.ok
    BY <1>0, <2>2, <2>3, <2>4, Zenon
  <2> QED
    BY <2>2, <2>5, Zenon
<1>2. /\ Leaves(s, q) /\ Len(q) < Len(s)
      /\ \A r \in Bytes : ReadVarint(s \o r, 5) = Read(tag, x.any, q \o r)
  BY <1>0, <1>1, ReadVarintMore
<1> HIDE DEF x, q, tag
<1>3. turn.ok = skipped.ok /\ turn.rest = rest /\ turn.how = AddUnknown
      /\ (skipped.ok => turn.value = Written(FrontOf(s, rest)))
  <2> HIDE DEF turn, skipped
  <2> QED
    BY <1>1 DEF KeepUnknown, Turn
<1>4. skipped.ok
  <2>1. turn.ok
    OBVIOUS
  <2> HIDE DEF turn
  <2> QED
    BY <1>3, <2>1
<1>5. q \in Bytes
  BY <1>2 DEF Leaves
<1>6. /\ Leaves(q, rest)
      /\ \A r \in Bytes : SkipField(tag, q \o r).ok /\ SkipField(tag, q \o r).rest = rest \o r
  BY <1>4, <1>5, SkipMore
<1> HIDE DEF skipped
<1>7. Leaves(s, rest) /\ rest \in Bytes /\ Len(rest) < Len(s)
  <2>1. Leaves(s, rest)
    BY <1>2, <1>6, LeavesOn
  <2>2. Len(rest) <= Len(q) /\ Len(rest) \in Nat /\ Len(q) \in Nat /\ Len(s) \in Nat /\ rest \in Bytes
    BY <1>5, <1>6, LeavesLess, BytesAre
  <2> QED
    BY <1>2, <2>1, <2>2
<1>8. PICK p \in Bytes : s = p \o rest
  BY <1>7 DEF Leaves
<1>9. \A r \in Bytes : /\ SubSeq(p \o r, 1, Len(p \o r) - Len(r)) = p
  <2> SUFFICES ASSUME NEW r \in Bytes PROVE SubSeq(p \o r, 1, Len(p \o r) - Len(r)) = p
    OBVIOUS
  <2>1. Len(p \o r) = Len(p) + Len(r) /\ Len(p) \in Nat /\ Len(r) \in Nat
    BY BytesJoined, BytesAre
  <2>2. Len(p \o r) - Len(r) = Len(p)
    BY <2>1
  <2>3. SubSeq(p \o r, 1, Len(p)) = p
    BY CutBehind
  <2> QED
    BY <2>2, <2>3, Zenon
<1>10. FrontOf(s, rest) = p
  <2> HIDE DEF turn, rest
  <2>1. SubSeq(p \o rest, 1, Len(p \o rest) - Len(rest)) = p
    BY <1>7, <1>9
  <2> QED
    BY <1>8, <2>1, Zenon DEF FrontOf
<1>11. ASSUME NEW r \in Bytes PROVE Takes(TurnOf(cases, s \o r), AddUnknown, Written(p), rest \o r)
  <2> DEFINE u == s \o r
             y == ReadVarint(u, 5)
             k == SkipField(tag, q \o r)
  <2>1. y.ok /\ y.value = tag /\ y.rest = q \o r
    BY <1>2 DEF Read
  <2> HIDE DEF y
  <2>2. tag \notin DOMAIN cases
    BY <1>1 DEF x, tag
  <2>3. TurnOf(cases, u) = KeepUnknown(u, k)
    BY <2>1, <2>2, Zenon DEF TurnOf, AtTag, y
  <2>4. k.ok /\ k.rest = rest \o r
    BY <1>6
  <2> HIDE DEF k
  <2>5. rest \o r \in Bytes /\ u = p \o (rest \o r)
    <3>1. (p \o rest) \o r = p \o (rest \o r)
      BY <1>7, Joins
    <3>2. rest \o r \in Bytes
      BY <1>7, BytesJoined
    <3> QED
      BY <1>8, <3>1, <3>2, Zenon
  <2> HIDE DEF u
  <2>6. FrontOf(u, k.rest) = p
    <3>1. SubSeq(p \o (rest \o r), 1, Len(p \o (rest \o r)) - Len(rest \o r)) = p
      BY <1>9, <2>5
    <3> QED
      BY <2>4, <2>5, <3>1, Zenon DEF FrontOf
  <2>7. Takes(KeepUnknown(u, k), AddUnknown, Written(p), rest \o r)
    BY <2>4, <2>6 DEF KeepUnknown, Turn, Takes
  <2> QED
    BY <2>3, <2>7, Zenon DEF u
<1> HIDE DEF turn, rest
<1>12. /\ p = FrontOf(s, turn.rest) /\ turn.rest \in Bytes /\ s = p \o turn.rest
       /\ Len(turn.rest) < Len(s)
       /\ turn.how = AddUnknown
       /\ \A r \in Bytes :
             Takes(TurnOf(cases, s \o r), AddUnknown, turn.value, turn.rest \o r)
  BY <1>3, <1>4, <1>7, <1>8, <1>10, <1>11
<1> QED
  BY <1>12, Zenon DEF turn

(* A turn goes on behind what it has read.                                 *)
LEMMA TurnLess ==
  ASSUME NEW cases, NEW s \in Bytes, TurnOf(cases, s).ok
  PROVE  TurnOf(cases, s).rest \in Bytes /\ Len(TurnOf(cases, s).rest) < Len(s)
<1> DEFINE x == ReadVarint(s, 5)
           q == x.rest
           turn == TurnOf(cases, s)
<1>1. CASE x.ok => x.value \notin DOMAIN cases
  BY <1>1, StrangeTurn
<1>2. CASE x.ok /\ x.value \in DOMAIN cases
  <2> DEFINE how == cases[x.value]
  <2>1. turn = ReadField(how, q)
    BY <1>2, Zenon DEF TurnOf, AtTag
  <2>2. Leaves(s, q) /\ Len(q) < Len(s) /\ q \in Bytes
    <3>1. 5 \in Nat
      OBVIOUS
    <3> QED
      BY <1>2, <3>1, ReadVarintMore DEF Leaves
  <2>3. turn.ok
    OBVIOUS
  <2> HIDE DEF x, q, turn, how
  <2>4. \A h, read, value : Turn(h, read, value).ok = read.ok /\ Turn(h, read, value).rest = read.rest
    BY DEF Turn
  <2>5. Leaves(q, turn.rest)
    <3>1. CASE how.kind \in {"number", "bool"}
      <4>1. turn.ok = ReadVarint(q, 10).ok /\ turn.rest = ReadVarint(q, 10).rest
        <5>1. turn = Turn(how, ReadVarint(q, 10),
                          IF how.kind = "bool" THEN ReadVarint(q, 10).any ELSE ReadVarint(q, 10).value)
          BY <2>1, <3>1, Zenon DEF ReadField, ReadValue
        <5> QED
          BY <5>1 DEF Turn
      <4>2. 10 \in Nat /\ ReadVarint(q, 10).ok
        BY <2>3, <4>1
      <4> QED
        BY <2>2, <4>1, <4>2, ReadVarintMore
    <3>2. CASE ~(how.kind \in {"number", "bool"})
      <4>1. turn.ok = ReadBytes(q).ok /\ turn.rest = ReadBytes(q).rest
        <5>1. turn = Turn(how, ReadBytes(q), ReadBytes(q).value)
          BY <2>1, <3>2, Zenon DEF ReadField, ReadString
        <5> QED
          BY <5>1 DEF Turn
      <4>2. ReadBytes(q).ok
        BY <2>3, <4>1
      <4> QED
        BY <2>2, <4>1, <4>2, ReadBytesMore
    <3> QED
      BY <3>1, <3>2
  <2>6. turn.rest \in Bytes /\ Len(turn.rest) <= Len(q) /\ Len(turn.rest) \in Nat /\ Len(q) \in Nat
        /\ Len(s) \in Nat
    BY <2>2, <2>5, LeavesLess, BytesAre
  <2>7. turn.rest \in Bytes /\ Len(turn.rest) < Len(s)
    BY <2>2, <2>6
  <2> QED
    BY <2>7 DEF turn
<1> QED
  BY <1>1, <1>2

-----------------------------------------------------------------------------
(* All turns                                                               *)

(* One turn, and those behind it.                                          *)
TurnsFrom(cases, r, behind) ==
    IF r = <<>> THEN <<>>
    ELSE <<TurnOf(cases, r)>> \o (IF TurnOf(cases, r).ok THEN behind ELSE <<>>)

(* The turns of the loop over r are its first turn and those over what     *)
(* that leaves; it is the equation of a function that each turn calls for  *)
(* a shorter string.                                                       *)
LEMMA TurnsIs ==
  ASSUME NEW cases
  PROVE  \A r \in Bytes : Turns(cases, r) = TurnsFrom(cases, r, Turns(cases, TurnOf(cases, r).rest))
<1> DEFINE T == {TurnOf(cases, r) : r \in Bytes}
           R == Seq(T)
           ends == {r \in Bytes : r = <<>> \/ ~TurnOf(cases, r).ok}
           down == [r \in Bytes |-> IF r \in ends THEN r ELSE TurnOf(cases, r).rest]
           first == [r \in Bytes |-> IF r = <<>> THEN <<>> ELSE <<TurnOf(cases, r)>>]
           step == [r \in Bytes |-> [t \in R |-> <<TurnOf(cases, r)>> \o t]]
           size == [r \in Bytes |-> Len(r)]
<1>1. size \in [Bytes -> Nat]
  BY BytesAre
<1>2. down \in [Bytes -> Bytes]
  <2> SUFFICES ASSUME NEW r \in Bytes, r \notin ends PROVE TurnOf(cases, r).rest \in Bytes
    OBVIOUS
  <2>1. TurnOf(cases, r).ok
    OBVIOUS
  <2> HIDE DEF ends
  <2> QED
    BY <2>1, TurnLess
<1>3. first \in [Bytes -> R]
  <2> SUFFICES ASSUME NEW r \in Bytes PROVE <<>> \in R /\ <<TurnOf(cases, r)>> \in R
    OBVIOUS
  <2>1. TurnOf(cases, r) \in T
    OBVIOUS
  <2> HIDE DEF T
  <2> QED
    BY <2>1
<1>4. step \in [Bytes -> [R -> R]]
  <2> SUFFICES ASSUME NEW r \in Bytes, NEW t \in R PROVE <<TurnOf(cases, r)>> \o t \in R
    OBVIOUS
  <2>1. <<TurnOf(cases, r)>> \in R
    OBVIOUS
  <2> QED
    BY <2>1, ConcatProperties
<1>5. ASSUME NEW r \in Bytes, r \notin ends PROVE size[down[r]] < size[r]
  <2>1. down[r] = TurnOf(cases, r).rest
    BY <1>5
  <2>2. TurnOf(cases, r).rest \in Bytes /\ Len(TurnOf(cases, r).rest) < Len(r)
    BY <1>5, TurnLess
  <2> QED
    BY <2>1, <2>2
<1> DEFINE Given(f) == f = [r \in Bytes |-> IF r = <<>> THEN <<>>
                                          ELSE LET turn == AtTag(cases, r, ReadVarint(r, 5))
                                               IN <<turn>> \o (IF turn.ok THEN f[turn.rest] ELSE <<>>)]
           table == CHOOSE f : Given(f)
<1>6. /\ \A r \in Bytes : down[r] = IF r \in ends THEN r ELSE TurnOf(cases, r).rest
      /\ \A r \in Bytes : first[r] = IF r = <<>> THEN <<>> ELSE <<TurnOf(cases, r)>>
      /\ \A r \in Bytes, t \in R : step[r][t] = <<TurnOf(cases, r)>> \o t
      /\ \A r \in Bytes : r \in ends <=> r = <<>> \/ ~TurnOf(cases, r).ok
  OBVIOUS
<1>7. \E f : Given(f)
  <2> HIDE DEF T, R, ends, down, first, step, size
  <2>1. UnfoldedOn(Bytes, R, ends, down, first, step)
    BY <1>1, <1>2, <1>3, <1>4, <1>5, UnfoldingOn
  <2>2. PICK f \in [Bytes -> R] :
            \A r \in Bytes : f[r] = IF r \in ends THEN first[r] ELSE step[r][f[down[r]]]
    BY <2>1 DEF UnfoldedOn
  <2>3. ASSUME NEW r \in Bytes PROVE f[r] = TurnsFrom(cases, r, f[TurnOf(cases, r).rest])
    <3>1. CASE r = <<>>
      BY <1>6, <2>2, <3>1 DEF TurnsFrom
    <3>2. CASE r # <<>> /\ ~TurnOf(cases, r).ok
      <4>1. f[r] = <<TurnOf(cases, r)>>
        BY <1>6, <2>2, <3>2
      <4>2. <<TurnOf(cases, r)>> \o <<>> = <<TurnOf(cases, r)>>
        OBVIOUS
      <4> QED
        BY <3>2, <4>1, <4>2, Zenon DEF TurnsFrom
    <3>3. CASE r # <<>> /\ TurnOf(cases, r).ok
      <4>1. r \notin ends /\ down[r] = TurnOf(cases, r).rest /\ down[r] \in Bytes
        BY <1>2, <1>6, <3>3
      <4>2. f[r] = step[r][f[down[r]]] /\ f[down[r]] \in R
        BY <2>2, <4>1
      <4>3. f[r] = <<TurnOf(cases, r)>> \o f[TurnOf(cases, r).rest]
        BY <1>6, <4>1, <4>2
      <4> QED
        BY <3>3, <4>3, Zenon DEF TurnsFrom
    <3> QED
      BY <3>1, <3>2, <3>3
  <2> DEFINE g == [r \in Bytes |-> TurnsFrom(cases, r, f[TurnOf(cases, r).rest])]
  <2>4. f = g
    BY <2>3
  <2>5. Given(f)
    BY <2>4, Zenon DEF TurnsFrom, TurnOf
  <2> QED
    BY <2>5
<1>8. Given(table)
  <2> HIDE DEF Given
  <2> QED
    BY <1>7
<1>9. \A s : Turns(cases, s) = table[s]
  BY Zenon DEF Turns
<1> HIDE DEF table
<1>10. ASSUME NEW r \in Bytes PROVE table[r] = TurnsFrom(cases, r, table[TurnOf(cases, r).rest])
  BY <1>8, Zenon DEF TurnsFrom, TurnOf
<1> QED
  BY <1>9, <1>10

AllTurns(cases) == {TurnOf(cases, r) : r \in Bytes}

(* The turns are a sequence.                                               *)
LEMMA TurnsSeq ==
  ASSUME NEW cases
  PROVE  \A r \in Bytes : Turns(cases, r) \in Seq(AllTurns(cases))
<1> DEFINE R == Seq(AllTurns(cases))
           S == {n \in Nat : \A r \in Bytes : Len(r) = n => Turns(cases, r) \in R}
<1>1. ASSUME NEW n \in Nat, \A m \in 0..(n - 1) : m \in S PROVE n \in S
  <2> SUFFICES ASSUME NEW r \in Bytes, Len(r) = n PROVE Turns(cases, r) \in R
    OBVIOUS
  <2> DEFINE turn == TurnOf(cases, r)
             behind == IF turn.ok THEN Turns(cases, turn.rest) ELSE <<>>
  <2>1. behind \in R
    <3>1. CASE turn.ok
      <4>1. turn.rest \in Bytes /\ Len(turn.rest) < n
        BY <3>1, TurnLess
      <4>2. Len(turn.rest) \in 0..(n - 1)
        BY <4>1, BytesAre
      <4>3. Len(turn.rest) \in S
        BY <1>1, <4>2
      <4>4. Turns(cases, turn.rest) \in R
        <5> HIDE DEF R, turn
        <5> QED
          BY <4>1, <4>3
      <4> QED
        BY <3>1, <4>4
    <3>2. CASE ~turn.ok
      BY <3>2
    <3> QED
      BY <3>1, <3>2
  <2>2. <<turn>> \in R
    <3>1. turn \in AllTurns(cases)
      BY DEF AllTurns
    <3> HIDE DEF turn
    <3> QED
      BY <3>1
  <2>3. <<turn>> \o behind \in R
    <3> HIDE DEF turn, behind
    <3> QED
      BY <2>1, <2>2, ConcatProperties
  <2>4. <<>> \in R
    OBVIOUS
  <2>5. Turns(cases, r) = IF r = <<>> THEN <<>> ELSE <<turn>> \o behind
    <3>1. Turns(cases, r) = TurnsFrom(cases, r, Turns(cases, TurnOf(cases, r).rest))
      BY TurnsIs
    <3> QED
      BY <3>1, Zenon DEF TurnsFrom
  <2> HIDE DEF R, turn, behind
  <2> QED
    BY <2>3, <2>4, <2>5
<1> HIDE DEF S
<1>2. \A n \in Nat : n \in S
  BY <1>1, StrongInduction
<1> QED
  BY <1>2, BytesAre DEF S

-----------------------------------------------------------------------------
(* Parsing                                                                 *)

(* The two loops of Wire in one: deep for that of messages that may have   *)
(* one inside.                                                             *)
After(deep, before, turn) ==
    Continue(before, turn, IF deep THEN Inner(before.msg, turn) ELSE NoMessage)

Parse(deep, cases, m, s) == IF deep THEN ParseLoop(cases, m, s) ELSE ParseNested(cases, m, s)

(* f[i] is what i turns make of it.                                        *)
Folds(f, deep, begin, turns) ==
    f[0] = begin /\ \A i \in 1..Len(turns) : f[i] = After(deep, f[i - 1], turns[i])

FoldTable(f, deep, begin, turns, n) ==
    f = [i \in 0..n |-> IF i = 0 THEN begin ELSE After(deep, f[i - 1], turns[i])]

(* The messages after each of n turns exist.                               *)
LEMMA FoldThere ==
  ASSUME NEW deep, NEW begin, NEW turns, NEW n \in Nat
  PROVE  \E f : FoldTable(f, deep, begin, turns, n)
<1> DEFINE S == {k \in 0..n : \E f : FoldTable(f, deep, begin, turns, k)}
<1>1. 0 \in S
  <2> DEFINE f == [i \in 0..0 |-> begin]
             g == [i \in 0..0 |-> IF i = 0 THEN begin ELSE After(deep, f[i - 1], turns[i])]
  <2>1. f = g
    OBVIOUS
  <2>2. FoldTable(f, deep, begin, turns, 0)
    BY <2>1, Zenon DEF FoldTable
  <2> HIDE DEF f
  <2> QED
    BY <2>2
<1>2. ASSUME NEW k \in 1..n, k - 1 \in S PROVE k \in S
  <2>1. PICK f : FoldTable(f, deep, begin, turns, k - 1)
    BY <1>2
  <2>2. \A i \in 0..(k - 1) : f[i] = IF i = 0 THEN begin ELSE After(deep, f[i - 1], turns[i])
    BY <2>1, Zenon DEF FoldTable
  <2> DEFINE g == [i \in 0..k |-> IF i = k THEN After(deep, f[k - 1], turns[k]) ELSE f[i]]
             h == [i \in 0..k |-> IF i = 0 THEN begin ELSE After(deep, g[i - 1], turns[i])]
  <2>3. g[k] = After(deep, f[k - 1], turns[k]) /\ \A i \in 0..(k - 1) : g[i] = f[i]
    OBVIOUS
  <2>4. ASSUME NEW i \in 0..k PROVE g[i] = IF i = 0 THEN begin ELSE After(deep, g[i - 1], turns[i])
    <3> HIDE DEF g
    <3>1. CASE i = k
      <4>1. k # 0 /\ k - 1 \in 0..(k - 1)
        OBVIOUS
      <4>2. g[k - 1] = f[k - 1]
        BY <2>3, <4>1
      <4>3. g[k] = After(deep, g[k - 1], turns[k])
        BY <2>3, <4>2, Zenon
      <4> QED
        BY <3>1, <4>1, <4>3
    <3>2. CASE i # k
      <4>1. i \in 0..(k - 1) /\ (i # 0 => i - 1 \in 0..(k - 1))
        BY <3>2
      <4>2. g[i] = f[i] /\ (i # 0 => g[i - 1] = f[i - 1])
        BY <2>3, <4>1
      <4>3. f[i] = IF i = 0 THEN begin ELSE After(deep, f[i - 1], turns[i])
        BY <2>2, <4>1
      <4> QED
        BY <4>2, <4>3, Zenon
    <3> QED
      BY <3>1, <3>2
  <2>5. g = h
    <3>1. \A i \in 0..k : g[i] = h[i]
      BY <2>4
    <3> QED
      BY <3>1
  <2>6. FoldTable(g, deep, begin, turns, k)
    BY <2>5, Zenon DEF FoldTable
  <2> HIDE DEF g
  <2> QED
    BY <2>6
<1> HIDE DEF S
<1>3. \A k \in 0..n : k \in S
  BY <1>1, <1>2, Induction
<1> QED
  BY <1>3 DEF S

Begin(m) == [ok |-> TRUE, msg |-> m]

(* The parser goes through the turns one after the other, and its answer   *)
(* is that of the last.                                                    *)
LEMMA ParseIs ==
  ASSUME NEW deep \in BOOLEAN, NEW cases, NEW m, NEW s \in Bytes
  PROVE  \E f : /\ Folds(f, deep, Begin(m), Turns(cases, s))
                /\ Parse(deep, cases, m, s) = f[Len(Turns(cases, s))]
<1> DEFINE turns == Turns(cases, s)
           n == Len(turns)
<1>1. n \in Nat
  BY TurnsSeq, LenProperties
<1>2. \E f : FoldTable(f, deep, Begin(m), turns, n)
  <2> HIDE DEF turns, n
  <2> QED
    BY <1>1, FoldThere
<1>3. \E f : FoldTable(f, deep, Begin(m), turns, n) /\ Parse(deep, cases, m, s) = f[n]
  <2>1. CASE deep
    <3> DEFINE Loop(g) == g = [i \in 0..n |->
                                  IF i = 0 THEN [ok |-> TRUE, msg |-> m]
                                  ELSE Continue(g[i - 1], turns[i], Inner(g[i - 1].msg, turns[i]))]
               f == CHOOSE g : Loop(g)
    <3>1. Parse(deep, cases, m, s) = f[n]
      BY <2>1, Zenon DEF Parse, ParseLoop
    <3>2. \A before, turn : After(deep, before, turn) = Continue(before, turn, Inner(before.msg, turn))
      BY <2>1 DEF After
    <3>3. \A g : FoldTable(g, deep, Begin(m), turns, n) <=> Loop(g)
      BY <3>2, Zenon DEF FoldTable, Begin
    <3> HIDE DEF Loop
    <3>4. Loop(f)
      BY <1>2, <3>3, Zenon
    <3> HIDE DEF f
    <3> QED
      BY <3>1, <3>3, <3>4, Zenon
  <2>2. CASE ~deep
    <3> DEFINE Loop(g) == g = [i \in 0..n |->
                                  IF i = 0 THEN [ok |-> TRUE, msg |-> m]
                                  ELSE Continue(g[i - 1], turns[i], NoMessage)]
               f == CHOOSE g : Loop(g)
    <3>1. Parse(deep, cases, m, s) = f[n]
      BY <2>2, Zenon DEF Parse, ParseNested
    <3>2. \A before, turn : After(deep, before, turn) = Continue(before, turn, NoMessage)
      BY <2>2 DEF After
    <3>3. \A g : FoldTable(g, deep, Begin(m), turns, n) <=> Loop(g)
      BY <3>2, Zenon DEF FoldTable, Begin
    <3> HIDE DEF Loop
    <3>4. Loop(f)
      BY <1>2, <3>3, Zenon
    <3> HIDE DEF f
    <3> QED
      BY <3>1, <3>3, <3>4, Zenon
  <2> QED
    BY <2>1, <2>2
<1>4. PICK f : FoldTable(f, deep, Begin(m), turns, n) /\ Parse(deep, cases, m, s) = f[n]
  BY <1>3
<1>5. Folds(f, deep, Begin(m), turns)
  <2> HIDE DEF turns
  <2>1. \A i \in 0..n : f[i] = IF i = 0 THEN Begin(m) ELSE After(deep, f[i - 1], turns[i])
    BY <1>4, Zenon DEF FoldTable
  <2>2. 0 \in 0..n /\ \A i \in 1..n : i \in 0..n /\ i # 0
    BY <1>1
  <2> QED
    BY <2>1, <2>2, Zenon DEF Folds
<1> QED
  BY <1>4, <1>5

(* The first turn first.                                                   *)
LEMMA FoldStep ==
  ASSUME NEW deep, NEW begin, NEW turn, NEW T, NEW behind \in Seq(T), NEW f, NEW g,
         Folds(f, deep, begin, <<turn>> \o behind), Folds(g, deep, After(deep, begin, turn), behind)
  PROVE  f[Len(<<turn>> \o behind)] = g[Len(behind)]
<1> DEFINE all == <<turn>> \o behind
           n == Len(behind)
<1>1. /\ n \in Nat /\ Len(all) = n + 1 /\ all[1] = turn
      /\ \A i \in 1..n : all[i + 1] = behind[i]
  OBVIOUS
<1> HIDE DEF all
<1> DEFINE S == {i \in 0..n : f[i + 1] = g[i]}
<1>2. 0 \in S
  <2>1. 1 \in 1..Len(all) /\ 0 + 1 = 1 /\ 1 - 1 = 0 /\ 0 \in 0..n
    BY <1>1
  <2>2. f[1] = After(deep, f[1 - 1], all[1])
    BY <2>1 DEF Folds, all
  <2>3. f[1] = g[0]
    BY <1>1, <2>1, <2>2 DEF Folds
  <2> QED
    BY <2>1, <2>3
<1>3. ASSUME NEW i \in 1..n, i - 1 \in S PROVE i \in S
  <2>1. i + 1 \in 1..Len(all) /\ (i + 1) - 1 = i /\ (i - 1) + 1 = i /\ i \in 0..n
    BY <1>1
  <2>2. f[i + 1] = After(deep, f[(i + 1) - 1], all[i + 1])
    BY <2>1 DEF Folds, all
  <2>3. g[i] = After(deep, g[i - 1], behind[i])
    BY DEF Folds
  <2>4. f[i] = g[i - 1]
    BY <1>3, <2>1
  <2>5. f[i + 1] = g[i]
    BY <1>1, <2>1, <2>2, <2>3, <2>4
  <2> QED
    BY <2>1, <2>5
<1>4. \A i \in 0..n : i \in S
  <2> HIDE DEF S
  <2> QED
    BY <1>1, <1>2, <1>3, Induction
<1>5. f[n + 1] = g[n]
  BY <1>1, <1>4
<1> QED
  BY <1>1, <1>5 DEF all

(* At the end of the input the message stays as it is.                     *)
LEMMA ParseEnd ==
  ASSUME NEW deep \in BOOLEAN, NEW cases, NEW m
  PROVE  Parse(deep, cases, m, <<>>) = Begin(m)
<1>1. <<>> \in Bytes
  BY DEF Bytes
<1>2. Turns(cases, <<>>) = <<>>
  <2>1. Turns(cases, <<>>) = TurnsFrom(cases, <<>>, Turns(cases, TurnOf(cases, <<>>).rest))
    BY <1>1, TurnsIs
  <2> QED
    BY <2>1, Zenon DEF TurnsFrom
<1>3. \E f : /\ Folds(f, deep, Begin(m), Turns(cases, <<>>))
             /\ Parse(deep, cases, m, <<>>) = f[Len(Turns(cases, <<>>))]
  BY <1>1, ParseIs
<1>4. Len(<<>>) = 0
  OBVIOUS
<1> QED
  BY <1>2, <1>3, <1>4, Zenon DEF Folds

(* A turn that has succeeded, and the rest.                                *)
LEMMA ParseTurn ==
  ASSUME NEW deep \in BOOLEAN, NEW cases, NEW m, NEW s \in Bytes, s # <<>>, TurnOf(cases, s).ok,
         NEW m1, After(deep, Begin(m), TurnOf(cases, s)) = Begin(m1)
  PROVE  Parse(deep, cases, m, s) = Parse(deep, cases, m1, TurnOf(cases, s).rest)
<1> DEFINE turn == TurnOf(cases, s)
           behind == Turns(cases, turn.rest)
           T == AllTurns(cases)
<1>1. turn.rest \in Bytes
  BY TurnLess
<1>2. behind \in Seq(T)
  BY <1>1, TurnsSeq
<1>3. Turns(cases, s) = <<turn>> \o behind
  <2>1. Turns(cases, s) = TurnsFrom(cases, s, Turns(cases, TurnOf(cases, s).rest))
    BY TurnsIs
  <2> QED
    BY <2>1, Zenon DEF TurnsFrom
<1>4. PICK f : /\ Folds(f, deep, Begin(m), Turns(cases, s))
               /\ Parse(deep, cases, m, s) = f[Len(Turns(cases, s))]
  BY ParseIs
<1>5. PICK g : /\ Folds(g, deep, Begin(m1), behind)
               /\ Parse(deep, cases, m1, turn.rest) = g[Len(behind)]
  BY <1>1, ParseIs
<1> HIDE DEF behind, T
<1>6. f[Len(<<turn>> \o behind)] = g[Len(behind)]
  <2>1. Folds(f, deep, Begin(m), <<turn>> \o behind)
    BY <1>3, <1>4, Zenon
  <2>2. Folds(g, deep, After(deep, Begin(m), turn), behind)
    BY <1>5, Zenon
  <2> HIDE DEF turn
  <2> QED
    BY <1>2, <2>1, <2>2, FoldStep
<1> QED
  BY <1>3, <1>4, <1>5, <1>6, Zenon

(* Reading t makes m1 of m, whatever follows.                              *)
Reads(deep, cases, t, m, m1) ==
    t \in Bytes /\ \A r \in Bytes : Parse(deep, cases, m, t \o r) = Parse(deep, cases, m1, r)

(* No bytes read leave the message as it is.                               *)
LEMMA ReadsNothing == ASSUME NEW deep, NEW cases, NEW m PROVE Reads(deep, cases, <<>>, m, m)
<1>1. <<>> \in Bytes
  BY DEF Bytes
<1>2. \A r \in Bytes : <<>> \o r = r
  BY Joins
<1> QED
  BY <1>1, <1>2, Zenon DEF Reads

(* Bytes that take m to m1, and bytes behind them that take m1 to m2, take *)
(* m to m2 together.                                                       *)
LEMMA ReadsBoth ==
  ASSUME NEW deep, NEW cases, NEW t, NEW u, NEW m, NEW m1, NEW m2,
         Reads(deep, cases, t, m, m1), Reads(deep, cases, u, m1, m2)
  PROVE  Reads(deep, cases, t \o u, m, m2)
<1>1. t \in Bytes /\ u \in Bytes
  BY DEF Reads
<1>2. t \o u \in Bytes
  BY <1>1, BytesJoined
<1>3. ASSUME NEW r \in Bytes PROVE Parse(deep, cases, m, (t \o u) \o r) = Parse(deep, cases, m2, r)
  <2>1. (t \o u) \o r = t \o (u \o r)
    BY <1>1, Joins
  <2>2. u \o r \in Bytes
    BY <1>1, BytesJoined
  <2>3. Parse(deep, cases, m, t \o (u \o r)) = Parse(deep, cases, m1, u \o r)
    BY <2>2 DEF Reads
  <2>4. Parse(deep, cases, m1, u \o r) = Parse(deep, cases, m2, r)
    BY DEF Reads
  <2> QED
    BY <2>1, <2>3, <2>4, Zenon
<1> QED
  BY <1>2, <1>3 DEF Reads

(* A field that is written under a condition.                              *)
LEMMA ReadsWhen ==
  ASSUME NEW deep, NEW cases, NEW condition \in BOOLEAN, NEW t, NEW m, NEW m1,
         condition => Reads(deep, cases, t, m, m1), ~condition => m1 = m
  PROVE  Reads(deep, cases, When(condition, t), m, m1)
<1>1. CASE condition
  BY <1>1 DEF When
<1>2. CASE ~condition
  <2>1. Reads(deep, cases, <<>>, m, m)
    BY ReadsNothing
  <2>2. When(condition, t) = <<>>
    BY <1>2 DEF When
  <2> QED
    BY <1>2, <2>1, <2>2, Zenon
<1> QED
  BY <1>1, <1>2

(* What is written stands in front of what follows.                        *)
LEMMA InFront ==
  ASSUME NEW a \in Bytes, NEW b \in Bytes
  PROVE  /\ a \o b \in Bytes /\ (a # <<>> => a \o b # <<>>)
         /\ \A r \in Bytes : (a \o b) \o r = a \o (b \o r)
<1>1. a \o b \in Bytes /\ Len(a \o b) = Len(a) + Len(b) /\ Len(a) \in Nat /\ Len(b) \in Nat
  BY BytesJoined, BytesAre
<1>2. a # <<>> => a \o b # <<>>
  <2> SUFFICES ASSUME a # <<>> PROVE a \o b # <<>>
    OBVIOUS
  <2>1. Len(a) # 0
    BY EmptySeq DEF Bytes
  <2>2. Len(a \o b) # 0
    BY <1>1, <2>1
  <2>3. Len(<<>>) = 0
    OBVIOUS
  <2> QED
    BY <2>2, <2>3, Zenon
<1>3. \A r \in Bytes : (a \o b) \o r = a \o (b \o r)
  BY Joins
<1> QED
  BY <1>1, <1>2, <1>3

(* What a turn stores, when m is what has been read before.                *)
InnerOf(m, how, value) ==
    ParseNested(how.cases, IF m[how.field] = <<>> THEN how.new ELSE m[how.field][1], value)

(* Where a turn takes a value and stores it, the parser goes on behind it  *)
(* with the message stored.                                                *)
LEMMA TurnParsed ==
  ASSUME NEW deep \in BOOLEAN, NEW cases, NEW s \in Bytes, s # <<>>, NEW how, NEW v, NEW r,
         NEW m, NEW m1,
         Takes(TurnOf(cases, s), how, v, r),
         Store(m, how, v, IF deep THEN InnerOf(m, how, v) ELSE NoMessage) = Begin(m1)
  PROVE  Parse(deep, cases, m, s) = Parse(deep, cases, m1, r)
<1> DEFINE turn == TurnOf(cases, s)
<1>1. turn.ok /\ turn.how = how /\ turn.value = v /\ turn.rest = r
  BY DEF Takes
<1>2. After(deep, Begin(m), turn) = Begin(m1)
  <2> HIDE DEF turn
  <2>1. Begin(m).ok /\ Begin(m).msg = m
    BY DEF Begin
  <2>2. After(deep, Begin(m), turn)
        = Store(m, how, v, IF deep THEN Inner(m, turn) ELSE NoMessage)
    BY <1>1, <2>1, Zenon DEF After, Continue
  <2>3. Inner(m, turn) = InnerOf(m, how, v)
    BY <1>1, Zenon DEF Inner, InnerOf
  <2> DEFINE inner == IF deep THEN InnerOf(m, how, v) ELSE NoMessage
  <2>4. (IF deep THEN Inner(m, turn) ELSE NoMessage) = inner
    BY <2>3
  <2>5. Store(m, how, v, inner) = Begin(m1)
    OBVIOUS
  <2> HIDE DEF inner
  <2> QED
    BY <2>2, <2>4, <2>5, Zenon
<1>3. Parse(deep, cases, m, s) = Parse(deep, cases, m1, turn.rest)
  BY <1>1, <1>2, ParseTurn
<1> QED
  BY <1>1, <1>3, Zenon

(* Bytes of one turn, whatever follows them, take m to what the turn       *)
(* stores.                                                                 *)
LEMMA ReadsTurn ==
  ASSUME NEW deep \in BOOLEAN, NEW cases, NEW t \in Bytes, t # <<>>, NEW how, NEW v, NEW m, NEW m1,
         \A r \in Bytes : Takes(TurnOf(cases, t \o r), how, v, r),
         Store(m, how, v, IF deep THEN InnerOf(m, how, v) ELSE NoMessage) = Begin(m1)
  PROVE  Reads(deep, cases, t, m, m1)
<1> SUFFICES ASSUME NEW r \in Bytes
             PROVE  Parse(deep, cases, m, t \o r) = Parse(deep, cases, m1, r)
  BY DEF Reads
<1> DEFINE s == t \o r
<1>1. s \in Bytes /\ s # <<>>
  BY InFront
<1>2. Takes(TurnOf(cases, s), how, v, r)
  OBVIOUS
<1> HIDE DEF s
<1>3. Parse(deep, cases, m, s) = Parse(deep, cases, m1, r)
  BY <1>1, <1>2, TurnParsed
<1> QED
  BY <1>3 DEF s

-----------------------------------------------------------------------------
(* Fields                                                                  *)

Tags == {8, 10, 16, 18, 24, 26}

(* A tag is a varint.                                                      *)
LEMMA TagsFit == \A tag \in Tags : tag \in Int31 /\ Varint[tag] \in Bytes /\ Varint[tag] # <<>>
<1> SUFFICES ASSUME NEW tag \in Tags
             PROVE  tag \in Int31 /\ Varint[tag] \in Bytes /\ Varint[tag] # <<>>
  OBVIOUS
<1>1. tag \in Int31
  BY SMT DEF Tags, Int31
<1>2. Varint[tag] \in Bytes /\ Len(Varint[tag]) \in 1..5
  BY <1>1, VarintLen, SizeIs
<1>3. Len(<<>>) = 0 /\ 0 \notin 1..5
  OBVIOUS
<1> QED
  BY <1>1, <1>2, <1>3, Zenon

(* A string with one byte at least stays so with others behind it.         *)
LEMMA InFrontTwo ==
  ASSUME NEW a \in Bytes, NEW b \in Bytes, NEW c \in Bytes, a # <<>>
  PROVE  (a \o b) \o c \in Bytes /\ (a \o b) \o c # <<>>
<1>1. a \o b \in Bytes /\ a \o b # <<>>
  BY InFront
<1> QED
  BY <1>1, InFront

(* A field of a length and as many bytes ...                               *)
LEMMA LengthFront ==
  ASSUME NEW tag \in Tags, NEW v \in Strings
  PROVE  /\ (Varint[tag] \o Varint[Len(v)]) \o v \in Bytes
         /\ (Varint[tag] \o Varint[Len(v)]) \o v # <<>>
         /\ \A r \in Bytes :
               ((Varint[tag] \o Varint[Len(v)]) \o v) \o r = Varint[tag] \o (Varint[Len(v)] \o (v \o r))
<1> DEFINE a == Varint[tag]
           b == Varint[Len(v)]
<1>1. v \in Bytes /\ Len(v) \in Int31
  BY DEF Strings
<1>2. a \in Bytes /\ a # <<>> /\ b \in Bytes
  BY <1>1, TagsFit, VarintLen
<1> HIDE DEF a, b
<1>3. (a \o b) \o v \in Bytes /\ (a \o b) \o v # <<>>
  <2>1. \A w \in Bytes : (a \o b) \o w \in Bytes /\ (a \o b) \o w # <<>>
    BY <1>2, InFrontTwo
  <2> QED
    BY <1>1, <2>1
<1>4. \A r \in Bytes : ((a \o b) \o v) \o r = a \o (b \o (v \o r))
  <2> SUFFICES ASSUME NEW r \in Bytes PROVE ((a \o b) \o v) \o r = a \o (b \o (v \o r))
    OBVIOUS
  <2> DEFINE ab == a \o b
             vr == v \o r
  <2>1. (ab \o v) \o r = ab \o vr
    <3>1. ab \in Bytes
      BY <1>2, InFront
    <3> HIDE DEF ab
    <3> QED
      BY <1>1, <3>1, Joins
  <2>2. (a \o b) \o vr = a \o (b \o vr)
    <3>1. vr \in Bytes
      BY <1>1, BytesJoined
    <3> HIDE DEF vr
    <3> QED
      BY <1>2, <3>1, Joins
  <2> QED
    BY <2>1, <2>2, SMT
<1> USE DEF a, b
<1>5. \A r \in Bytes :
         ((Varint[tag] \o Varint[Len(v)]) \o v) \o r = Varint[tag] \o (Varint[Len(v)] \o (v \o r))
  BY <1>4
<1> QED
  BY <1>3, <1>5

(* A tag, a length and as many bytes are one turn, with those bytes as its *)
(* value.                                                                  *)
LEMMA ReadsLength ==
  ASSUME NEW deep \in BOOLEAN, NEW cases, NEW tag \in Tags, tag \in DOMAIN cases,
         NEW how, cases[tag] = how, how.kind \notin {"number", "bool"}, NEW v \in Strings,
         NEW m, NEW m1,
         Store(m, how, v, IF deep THEN InnerOf(m, how, v) ELSE NoMessage) = Begin(m1)
  PROVE  Reads(deep, cases, Varint[tag] \o Varint[Len(v)] \o v, m, m1)
<1> DEFINE a == Varint[tag]
           b == Varint[Len(v)]
           t == (a \o b) \o v
<1>1. v \in Bytes /\ Len(v) \in Int31
  BY DEF Strings
<1>2. tag \in Int31
  BY TagsFit
<1>3. ASSUME NEW r \in Bytes PROVE Takes(TurnOf(cases, a \o (b \o (v \o r))), how, v, r)
  BY <1>1, <1>2, BytesTurn
<1>4. /\ t \in Bytes /\ t # <<>>
      /\ \A r \in Bytes : t \o r = a \o (b \o (v \o r))
  BY LengthFront
<1> HIDE DEF a, b, t
<1>5. \A r \in Bytes : Takes(TurnOf(cases, t \o r), how, v, r)
  <2> SUFFICES ASSUME NEW r \in Bytes PROVE Takes(TurnOf(cases, t \o r), how, v, r)
    OBVIOUS
  <2>1. t \o r = a \o (b \o (v \o r))
    BY <1>4
  <2>2. Takes(TurnOf(cases, a \o (b \o (v \o r))), how, v, r)
    BY <1>3
  <2> QED
    BY <2>1, <2>2, Zenon
<1>6. Reads(deep, cases, t, m, m1)
  BY <1>4, <1>5, ReadsTurn
<1> QED
  BY <1>6 DEF t, a, b

(* ... which may be a string ...                                           *)
LEMMA ReadsBytes ==
  ASSUME NEW deep \in BOOLEAN, NEW cases, NEW number \in 1..3, NEW tag \in Tags, tag = 8 * number + 2,
         tag \in DOMAIN cases, NEW field, cases[tag] = AsBytes(field), NEW v \in Strings, NEW m
  PROVE  Reads(deep, cases, WriteBytes(number, v), m, [m EXCEPT ![field] = v])
<1> DEFINE how == AsBytes(field)
           m1 == [m EXCEPT ![field] = v]
<1>1. how.kind = "bytes" /\ how.field = field
  BY DEF AsBytes
<1>2. how.kind \notin {"number", "bool"}
  BY <1>1
<1> HIDE DEF how
<1>3. \A inner : Store(m, how, v, inner) = Begin(m1)
  BY <1>1 DEF Store, Begin
<1> HIDE DEF m1
<1>4. Reads(deep, cases, Varint[tag] \o Varint[Len(v)] \o v, m, m1)
  <2>1. cases[tag] = how
    BY DEF how
  <2> QED
    BY <1>2, <1>3, <2>1, ReadsLength
<1> QED
  BY <1>4 DEF WriteBytes, m1

(* ... or one more of a repeated field.                                    *)
LEMMA ReadsOneMore ==
  ASSUME NEW deep \in BOOLEAN, NEW cases, NEW number \in 1..3, NEW tag \in Tags, tag = 8 * number + 2,
         tag \in DOMAIN cases, NEW field, cases[tag] = AddBytes(field), NEW v \in Strings, NEW m
  PROVE  Reads(deep, cases, WriteBytes(number, v), m, [m EXCEPT ![field] = Append(m[field], v)])
<1> DEFINE how == AddBytes(field)
           m1 == [m EXCEPT ![field] = Append(m[field], v)]
<1>1. how.kind = "repeated" /\ how.field = field
  BY DEF AddBytes
<1>2. how.kind \notin {"number", "bool"}
  BY <1>1
<1> HIDE DEF how
<1>3. \A inner : Store(m, how, v, inner) = Begin(m1)
  BY <1>1 DEF Store, Begin
<1> HIDE DEF m1
<1>4. Reads(deep, cases, Varint[tag] \o Varint[Len(v)] \o v, m, m1)
  <2>1. cases[tag] = how
    BY DEF how
  <2> QED
    BY <1>2, <1>3, <2>1, ReadsLength
<1> QED
  BY <1>4 DEF WriteBytes, m1

(* Numbers.                                                                *)
LEMMA ReadsNumber ==
  ASSUME NEW deep \in BOOLEAN, NEW cases, NEW tag \in Tags, tag \in DOMAIN cases, NEW field,
         cases[tag] = AsNumber(field), NEW t \in Bytes, NEW v, NEW m,
         \A r \in Bytes : Gives(ReadVarint(t \o r, 10), v, r)
  PROVE  Reads(deep, cases, Varint[tag] \o t, m, [m EXCEPT ![field] = v])
<1> DEFINE how == AsNumber(field)
           m1 == [m EXCEPT ![field] = v]
           a == Varint[tag]
           u == a \o t
<1>1. how.kind = "number" /\ how.field = field
  BY DEF AsNumber
<1>2. tag \in Int31 /\ a \in Bytes /\ a # <<>>
  BY TagsFit
<1>3. ASSUME NEW r \in Bytes PROVE Takes(TurnOf(cases, a \o (t \o r)), how, v, r)
  <2>1. cases[tag] = how
    OBVIOUS
  <2> HIDE DEF how
  <2> QED
    BY <1>1, <1>2, <2>1, NumberTurn
<1>4. cases[tag] = how
  OBVIOUS
<1> HIDE DEF how
<1>5. \A inner : Store(m, how, v, inner) = Begin(m1)
  BY <1>1 DEF Store, Begin
<1> HIDE DEF m1, a
<1>6. u \in Bytes /\ u # <<>> /\ \A r \in Bytes : u \o r = a \o (t \o r)
  BY <1>2, InFront
<1> HIDE DEF u
<1>7. \A r \in Bytes : Takes(TurnOf(cases, u \o r), how, v, r)
  BY <1>3, <1>6, Zenon
<1>8. Reads(deep, cases, u, m, m1)
  BY <1>5, <1>6, <1>7, ReadsTurn
<1> QED
  BY <1>8 DEF m1, u, a

(* An int32 written, read back into its field.                             *)
LEMMA ReadsInt32 ==
  ASSUME NEW deep \in BOOLEAN, NEW cases, NEW number \in 1..3, NEW tag \in Tags, tag = 8 * number,
         tag \in DOMAIN cases, NEW field, cases[tag] = AsNumber(field), NEW v \in Int32, NEW m
  PROVE  Reads(deep, cases, WriteInt32(number, v), m, [m EXCEPT ![field] = v])
<1> DEFINE t == Int32Bytes(v)
<1>1. t \in Bytes /\ \A r \in Bytes : Gives(ReadVarint(t \o r, 10), v, r)
  BY Int32Back
<1> HIDE DEF t
<1>2. Reads(deep, cases, Varint[tag] \o t, m, [m EXCEPT ![field] = v])
  BY <1>1, ReadsNumber
<1> QED
  BY <1>2 DEF WriteInt32, t

(* A uint32 written, read back into its field.                             *)
LEMMA ReadsUInt32 ==
  ASSUME NEW deep \in BOOLEAN, NEW cases, NEW number \in 1..3, NEW tag \in Tags, tag = 8 * number,
         tag \in DOMAIN cases, NEW field, cases[tag] = AsNumber(field), NEW v \in Int32, NEW m
  PROVE  Reads(deep, cases, WriteUInt32(number, v), m, [m EXCEPT ![field] = v])
<1> DEFINE t == UInt32Bytes(v)
<1>1. t \in Bytes /\ \A r \in Bytes : Gives(ReadVarint(t \o r, 10), v, r)
  BY UInt32Back
<1> HIDE DEF t
<1>2. Reads(deep, cases, Varint[tag] \o t, m, [m EXCEPT ![field] = v])
  BY <1>1, ReadsNumber
<1> QED
  BY <1>2 DEF WriteUInt32, t

(* A bool that is true.                                                    *)
LEMMA ReadsBool ==
  ASSUME NEW deep \in BOOLEAN, NEW cases, NEW number \in 1..3, NEW tag \in Tags, tag = 8 * number,
         tag \in DOMAIN cases, NEW field, cases[tag] = AsBool(field), NEW m
  PROVE  Reads(deep, cases, WriteBool(number, TRUE), m, [m EXCEPT ![field] = TRUE])
<1> DEFINE how == AsBool(field)
           m1 == [m EXCEPT ![field] = TRUE]
           a == Varint[tag]
           t == <<1>>
           u == a \o t
<1> HIDE DEF m1, a, t, u
<1>1. how.kind = "bool" /\ how.field = field
  BY DEF AsBool
<1>2. tag \in Int31 /\ a \in Bytes /\ a # <<>> /\ t \in Bytes
  <2>1. tag \in Int31 /\ a \in Bytes /\ a # <<>>
    BY TagsFit DEF a
  <2>2. 1 \in 0..255
    OBVIOUS
  <2>3. t \in Bytes
    BY <2>2, Byte DEF t
  <2> QED
    BY <2>1, <2>3
<1> USE DEF m1, a, t, u
<1>3. cases[tag] = how
  OBVIOUS
<1> HIDE DEF how
<1>4. ASSUME NEW r \in Bytes PROVE Takes(TurnOf(cases, a \o (t \o r)), how, TRUE, r)
  BY <1>1, <1>2, <1>3, BoolTurn
<1> HIDE DEF a, t, u
<1> DEFINE true == TRUE
<1>5. \A inner : Store(m, how, true, inner) = Begin(m1)
  <2>1. m1 = [m EXCEPT ![field] = true]
    OBVIOUS
  <2> HIDE DEF true, m1
  <2> QED
    BY <1>1, <2>1 DEF Store, Begin
<1> HIDE DEF m1
<1> USE DEF u
<1>6. u \in Bytes /\ u # <<>> /\ \A r \in Bytes : u \o r = a \o (t \o r)
  BY <1>2, InFront
<1>7. WriteBool(number, TRUE) = u
  <2>1. (IF TRUE THEN 1 ELSE 0) = 1
    OBVIOUS
  <2> QED
    BY <2>1, Zenon DEF WriteBool, t, a
<1> HIDE DEF u
<1>8. \A r \in Bytes : Takes(TurnOf(cases, u \o r), how, true, r)
  BY <1>4, <1>6, Zenon
<1> HIDE DEF true
<1>9. Reads(deep, cases, u, m, m1)
  BY <1>5, <1>6, <1>8, ReadsTurn
<1> QED
  BY <1>7, <1>9 DEF m1

(* Bytes that hold fields which are not among the cases, and nothing else. *)
LEMMA StrangeSplit ==
  ASSUME NEW cases, \A tag \in DOMAIN cases : cases[tag].kind # "unknown",
         NEW u \in Strange(cases), u # <<>>
  PROVE  \E p, q \in Bytes :
            /\ u = p \o q /\ q \in Strange(cases) /\ Len(q) < Len(u)
            /\ \A r \in Bytes : Takes(TurnOf(cases, u \o r), AddUnknown, p, q \o r)
<1> DEFINE turn == TurnOf(cases, u)
           q == turn.rest
           behind == Turns(cases, q)
           T == AllTurns(cases)
           x == ReadVarint(u, 5)
<1>1. /\ u \in Bytes
      /\ \A i \in DOMAIN Turns(cases, u) :
            /\ Turns(cases, u)[i].ok /\ Turns(cases, u)[i].how = AddUnknown
            /\ Turns(cases, u)[i].value
               = FrontOf(BeginOf(u, Turns(cases, u), i), Turns(cases, u)[i].rest)
  BY DEF Strange
<1>2. Turns(cases, u) = <<turn>> \o (IF turn.ok THEN behind ELSE <<>>)
  <2>1. Turns(cases, u) = TurnsFrom(cases, u, Turns(cases, TurnOf(cases, u).rest))
    BY <1>1, TurnsIs
  <2> QED
    BY <2>1, Zenon DEF TurnsFrom
<1>3. turn.ok => q \in Bytes /\ behind \in Seq(T)
  BY <1>1, TurnLess, TurnsSeq
<1>4. turn.ok /\ turn.how = AddUnknown /\ turn.value = FrontOf(u, turn.rest)
  <2> DEFINE b == IF turn.ok THEN behind ELSE <<>>
  <2>1. b \in Seq(T)
    <3> HIDE DEF turn, behind
    <3> QED
      BY <1>3
  <2> HIDE DEF turn, b
  <2>2. (<<turn>> \o b)[1] = turn /\ 1 \in DOMAIN (<<turn>> \o b)
    BY <2>1
  <2>3. Turns(cases, u) = <<turn>> \o b
    BY <1>2 DEF b
  <2>4. BeginOf(u, Turns(cases, u), 1) = u
    BY DEF BeginOf
  <2> QED
    BY <1>1, <2>2, <2>3, <2>4, Zenon
<1>5. x.ok => x.value \notin DOMAIN cases
  <2> SUFFICES ASSUME x.ok, x.value \in DOMAIN cases PROVE FALSE
    OBVIOUS
  <2>1. turn = ReadField(cases[x.value], x.rest)
    BY Zenon DEF TurnOf, AtTag
  <2>2. cases[x.value].kind # "unknown"
    OBVIOUS
  <2> HIDE DEF turn, x
  <2>3. turn.how = cases[x.value]
    BY <2>1 DEF ReadField, ReadValue, ReadString, Turn
  <2>4. turn.how.kind = "unknown"
    BY <1>4 DEF AddUnknown
  <2> QED
    BY <2>2, <2>3, <2>4
<1> HIDE DEF x
<1>6. /\ turn.value \in Bytes /\ q \in Bytes /\ u = turn.value \o q
      /\ Len(q) < Len(u)
      /\ \A r \in Bytes : Takes(TurnOf(cases, u \o r), AddUnknown, turn.value, q \o r)
  <2> DEFINE p == FrontOf(u, q)
  <2>1. /\ p \in Bytes /\ q \in Bytes /\ u = p \o q
        /\ Len(q) < Len(u)
        /\ \A r \in Bytes : Takes(TurnOf(cases, u \o r), AddUnknown, turn.value, q \o r)
    BY <1>1, <1>4, <1>5, StrangeTurn DEF x
  <2> QED
    BY <1>4, <2>1, Zenon
<1>7. q \in Strange(cases)
  <2> HIDE DEF turn, behind, q
  <2>1. behind \in Seq(T) /\ Turns(cases, u) = <<turn>> \o behind
    BY <1>2, <1>3, <1>4
  <2>2. ASSUME NEW i \in DOMAIN behind
        PROVE  /\ behind[i].ok /\ behind[i].how = AddUnknown
               /\ behind[i].value = FrontOf(BeginOf(q, behind, i), behind[i].rest)
    <3> DEFINE all == <<turn>> \o behind
    <3>1. /\ i \in Nat \ {0} /\ i + 1 \in DOMAIN all /\ all[i + 1] = behind[i]
          /\ all[i] = IF i = 1 THEN turn ELSE behind[i - 1]
      BY <2>1
    <3> HIDE DEF all
    <3>2. BeginOf(u, all, i + 1) = BeginOf(q, behind, i)
      <4>1. (i + 1) - 1 = i /\ i + 1 # 1
        BY <3>1
      <4>2. BeginOf(u, all, i + 1) = all[i].rest
        BY <4>1 DEF BeginOf
      <4> QED
        BY <3>1, <4>2 DEF BeginOf, q
    <3> QED
      BY <1>1, <2>1, <3>1, <3>2, Zenon DEF all
  <2> QED
    BY <1>6, <2>2 DEF Strange, behind
<1> HIDE DEF turn, q
<1> QED
  BY <1>6, <1>7

(* Such bytes are kept, all of them and in their order.  msgs[x] is the    *)
(* message with the unknown bytes x.                                       *)
LEMMA ReadsUnknown ==
  ASSUME NEW deep \in BOOLEAN, NEW cases, \A tag \in DOMAIN cases : cases[tag].kind # "unknown",
         NEW msgs,
         \A x, y \in Bytes : msgs[x].unknown = x /\ [msgs[x] EXCEPT !.unknown = y] = msgs[y]
  PROVE  \A u \in Strange(cases), x \in Bytes : Reads(deep, cases, u, msgs[x], msgs[x \o u])
<1> DEFINE S == {n \in Nat : \A u \in Strange(cases) :
                    Len(u) = n => \A x \in Bytes : Reads(deep, cases, u, msgs[x], msgs[x \o u])}
<1>0. \A u \in Strange(cases) : u \in Bytes /\ Len(u) \in Nat
  BY BytesAre DEF Strange
<1>1. ASSUME NEW n \in Nat, \A m \in 0..(n - 1) : m \in S PROVE n \in S
  <2> SUFFICES ASSUME NEW u \in Strange(cases), Len(u) = n, NEW x \in Bytes
               PROVE  Reads(deep, cases, u, msgs[x], msgs[x \o u])
    OBVIOUS
  <2>1. CASE u = <<>>
    <3>1. x \o u = x
      BY <2>1, Joins
    <3>2. Reads(deep, cases, <<>>, msgs[x], msgs[x])
      BY ReadsNothing
    <3> QED
      BY <2>1, <3>1, <3>2, Zenon
  <2>2. CASE u # <<>>
    <3>1. PICK p \in Bytes, q \in Bytes :
              /\ u = p \o q /\ q \in Strange(cases) /\ Len(q) < Len(u)
              /\ \A r \in Bytes : Takes(TurnOf(cases, u \o r), AddUnknown, p, q \o r)
      BY <2>2, StrangeSplit
    <3>2. Len(q) \in 0..(n - 1)
      BY <1>0, <3>1
    <3>3. Len(q) \in S
      BY <1>1, <3>2
    <3> DEFINE w == x \o p
    <3>4. w \in Bytes
      BY BytesJoined
    <3>5. Reads(deep, cases, q, msgs[w], msgs[w \o q])
      <4> HIDE DEF w
      <4> QED
        BY <3>1, <3>3, <3>4
    <3>6. w \o q = x \o u
      BY <3>1, Joins
    <3> DEFINE how == AddUnknown
    <3>7. \A inner : Store(msgs[x], how, p, inner) = Begin(msgs[w])
      <4>1. how.kind = "unknown"
        BY DEF AddUnknown
      <4> HIDE DEF how
      <4>2. \A inner : Store(msgs[x], how, p, inner)
                       = [ok |-> TRUE, msg |-> [msgs[x] EXCEPT !.unknown = msgs[x].unknown \o p]]
        BY <4>1 DEF Store
      <4>3. [msgs[x] EXCEPT !.unknown = msgs[x].unknown \o p] = msgs[w]
        BY <3>4
      <4> QED
        BY <4>2, <4>3, Zenon DEF Begin
    <3> HIDE DEF how
    <3>8. ASSUME NEW r \in Bytes
          PROVE  Parse(deep, cases, msgs[x], u \o r) = Parse(deep, cases, msgs[x \o u], r)
      <4> DEFINE s == u \o r
      <4>1. s \in Bytes /\ s # <<>>
        BY <1>0, <2>2, InFront
      <4>2. Takes(TurnOf(cases, s), how, p, q \o r)
        BY <3>1 DEF how
      <4> HIDE DEF s, w
      <4>3. Parse(deep, cases, msgs[x], s) = Parse(deep, cases, msgs[w], q \o r)
        BY <3>7, <4>1, <4>2, TurnParsed
      <4>4. Parse(deep, cases, msgs[w], q \o r) = Parse(deep, cases, msgs[w \o q], r)
        BY <3>5 DEF Reads
      <4> QED
        BY <3>6, <4>3, <4>4, Zenon DEF s
    <3> QED
      BY <1>0, <3>8 DEF Reads
  <2> QED
    BY <2>1, <2>2
<1> HIDE DEF S
<1>2. \A n \in Nat : n \in S
  BY <1>1, StrongInduction
<1> QED
  BY <1>0, <1>2 DEF S

(* Fields that are written only when they are not what a new message has.  *)
LEMMA MaybeBytes ==
  ASSUME NEW deep \in BOOLEAN, NEW cases, NEW number \in 1..3, NEW tag \in Tags, tag = 8 * number + 2,
         tag \in DOMAIN cases, NEW field, cases[tag] = AsBytes(field), NEW v \in Strings,
         NEW m, NEW m1,
         Len(v) > 0 => [m EXCEPT ![field] = v] = m1, ~(Len(v) > 0) => m1 = m
  PROVE  Reads(deep, cases, When(Len(v) > 0, WriteBytes(number, v)), m, m1)
<1> DEFINE there == Len(v) > 0
           t == WriteBytes(number, v)
<1>1. there \in BOOLEAN
  OBVIOUS
<1>2. Reads(deep, cases, t, m, [m EXCEPT ![field] = v])
  BY ReadsBytes
<1>3. there => [m EXCEPT ![field] = v] = m1
  OBVIOUS
<1>4. ~there => m1 = m
  OBVIOUS
<1> HIDE DEF there, t
<1>5. Reads(deep, cases, When(there, t), m, m1)
  <2>1. there => Reads(deep, cases, t, m, m1)
    BY <1>2, <1>3, Zenon
  <2> QED
    BY <1>1, <1>4, <2>1, ReadsWhen
<1> QED
  BY <1>5, Zenon DEF there, t

(* An int32 that is written only when it is not 0.                         *)
LEMMA MaybeInt32 ==
  ASSUME NEW deep \in BOOLEAN, NEW cases, NEW number \in 1..3, NEW tag \in Tags, tag = 8 * number,
         tag \in DOMAIN cases, NEW field, cases[tag] = AsNumber(field), NEW v \in Int32,
         NEW m, NEW m1,
         v # 0 => [m EXCEPT ![field] = v] = m1, ~(v # 0) => m1 = m
  PROVE  Reads(deep, cases, When(v # 0, WriteInt32(number, v)), m, m1)
<1> DEFINE there == v # 0
           t == WriteInt32(number, v)
<1>1. there \in BOOLEAN
  OBVIOUS
<1>2. Reads(deep, cases, t, m, [m EXCEPT ![field] = v])
  BY ReadsInt32
<1>3. there => [m EXCEPT ![field] = v] = m1
  OBVIOUS
<1>4. ~there => m1 = m
  OBVIOUS
<1> HIDE DEF there, t
<1>5. Reads(deep, cases, When(there, t), m, m1)
  <2>1. there => Reads(deep, cases, t, m, m1)
    BY <1>2, <1>3, Zenon
  <2> QED
    BY <1>1, <1>4, <2>1, ReadsWhen
<1> QED
  BY <1>5, Zenon DEF there, t

(* A uint32 that is written only when it is not 0.                         *)
LEMMA MaybeUInt32 ==
  ASSUME NEW deep \in BOOLEAN, NEW cases, NEW number \in 1..3, NEW tag \in Tags, tag = 8 * number,
         tag \in DOMAIN cases, NEW field, cases[tag] = AsNumber(field), NEW v \in Int32,
         NEW m, NEW m1,
         v # 0 => [m EXCEPT ![field] = v] = m1, ~(v # 0) => m1 = m
  PROVE  Reads(deep, cases, When(v # 0, WriteUInt32(number, v)), m, m1)
<1> DEFINE there == v # 0
           t == WriteUInt32(number, v)
<1>1. there \in BOOLEAN
  OBVIOUS
<1>2. Reads(deep, cases, t, m, [m EXCEPT ![field] = v])
  BY ReadsUInt32
<1>3. there => [m EXCEPT ![field] = v] = m1
  OBVIOUS
<1>4. ~there => m1 = m
  OBVIOUS
<1> HIDE DEF there, t
<1>5. Reads(deep, cases, When(there, t), m, m1)
  <2>1. there => Reads(deep, cases, t, m, m1)
    BY <1>2, <1>3, Zenon
  <2> QED
    BY <1>1, <1>4, <2>1, ReadsWhen
<1> QED
  BY <1>5, Zenon DEF there, t

(* A bool that is written only when it is true.                            *)
LEMMA MaybeBool ==
  ASSUME NEW deep \in BOOLEAN, NEW cases, NEW number \in 1..3, NEW tag \in Tags, tag = 8 * number,
         tag \in DOMAIN cases, NEW field, cases[tag] = AsBool(field), NEW v \in BOOLEAN,
         NEW m, NEW m1,
         v => [m EXCEPT ![field] = TRUE] = m1, ~v => m1 = m
  PROVE  Reads(deep, cases, When(v, WriteBool(number, v)), m, m1)
<1> DEFINE t == WriteBool(number, TRUE)
<1>1. Reads(deep, cases, t, m, [m EXCEPT ![field] = TRUE])
  BY ReadsBool
<1>2. v => WriteBool(number, v) = t
  <2> SUFFICES ASSUME v PROVE WriteBool(number, v) = WriteBool(number, TRUE)
    OBVIOUS
  <2> QED
    BY DEF WriteBool
<1> HIDE DEF t
<1>3. When(v, WriteBool(number, v)) = When(v, t)
  BY <1>2 DEF When
<1>4. Reads(deep, cases, When(v, t), m, m1)
  <2>1. v => Reads(deep, cases, t, m, m1)
    BY <1>1, Zenon
  <2> QED
    BY <2>1, ReadsWhen
<1> QED
  BY <1>3, <1>4, Zenon

-----------------------------------------------------------------------------
(* Classes                                                                 *)

(* What is proved of a class: cases is its switch, s and t what it writes  *)
(* of a and b, c what Clear leaves of a, ab the merge of b into a.         *)
Codec(cases, a, b, c, s, t, ab) ==
    Reads(TRUE, cases, s, c, a) /\ Reads(TRUE, cases, t, c, b) /\ Reads(TRUE, cases, t, a, ab)

(* Whole messages: b comes out of its bytes, and ab out of both.           *)
LEMMA TwoMessages ==
  ASSUME NEW cases, NEW c, NEW a, NEW b, NEW ab, NEW s, NEW t, Codec(cases, a, b, c, s, t, ab)
  PROVE  ParseLoop(cases, c, t) = Begin(b) /\ ParseLoop(cases, c, s \o t) = Begin(ab)
<1> DEFINE yes == TRUE
<1>1. yes \in BOOLEAN /\ \A m, r : Parse(yes, cases, m, r) = ParseLoop(cases, m, r)
  BY DEF Parse
<1>2. Reads(yes, cases, s, c, a) /\ Reads(yes, cases, t, c, b) /\ Reads(yes, cases, t, a, ab)
  BY Zenon DEF Codec
<1> HIDE DEF yes
<1>3. ASSUME NEW u, NEW m, Reads(yes, cases, u, c, m) PROVE ParseLoop(cases, c, u) = Begin(m)
  <2>1. u \in Bytes /\ <<>> \in Bytes
    BY <1>3, Joins DEF Reads
  <2>2. Parse(yes, cases, c, u \o <<>>) = Parse(yes, cases, m, <<>>)
    BY <1>3, <2>1 DEF Reads
  <2>3. u \o <<>> = u
    BY <2>1, Joins
  <2>4. Parse(yes, cases, m, <<>>) = Begin(m)
    BY <1>1, ParseEnd
  <2> QED
    BY <1>1, <2>2, <2>3, <2>4, Zenon
<1>4. Reads(yes, cases, s \o t, c, ab)
  BY <1>2, ReadsBoth
<1> QED
  BY <1>2, <1>3, <1>4

(* No unknown fields at all are unknown fields.                            *)
LEMMA NothingStrange == \A cases : <<>> \in Strange(cases)
<1> SUFFICES ASSUME NEW cases PROVE <<>> \in Strange(cases)
  OBVIOUS
<1>1. <<>> \in Bytes
  BY Joins
<1>2. Turns(cases, <<>>) = <<>>
  <2>1. Turns(cases, <<>>) = TurnsFrom(cases, <<>>, Turns(cases, TurnOf(cases, <<>>).rest))
    BY <1>1, TurnsIs
  <2> QED
    BY <2>1, Zenon DEF TurnsFrom
<1>3. DOMAIN <<>> = {}
  OBVIOUS
<1> QED
  BY <1>1, <1>2, <1>3, Zenon DEF Strange

Either(condition, v, w) == IF condition THEN v ELSE w

(* The values of an empty message are values of its fields.                *)
LEMMA NothingFits == <<>> \in Strings /\ 0 \in Int32 /\ 0 \in Int31
<1>1. <<>> \in Bytes /\ Len(<<>>) = 0
  BY Joins
<1>2. 0 \in Int31 /\ 0 \in Int32
  BY SMT DEF Int31, Int32
<1> QED
  BY <1>1, <1>2 DEF Strings

(* What is not longer than nothing is nothing.                             *)
LEMMA NotLonger == \A s \in Strings : ~(Len(s) > 0) => s = <<>>
<1> SUFFICES ASSUME NEW s \in Strings, ~(Len(s) > 0) PROVE s = <<>>
  OBVIOUS
<1>1. s \in Seq(0..255) /\ Len(s) \in Nat
  BY BytesAre DEF Strings, Bytes
<1>2. Len(s) = 0
  BY <1>1
<1> QED
  BY <1>1, <1>2, EmptySeq

(* What is written has the length that is announced.                       *)
LEMMA WhenLen ==
  \A condition, t, k :
     t \in Bytes /\ Len(t) = k
     => When(condition, t) \in Bytes /\ Len(When(condition, t)) = SizeWhen(condition, k)
<1> SUFFICES ASSUME NEW condition, NEW t \in Bytes
             PROVE  When(condition, t) \in Bytes /\ Len(When(condition, t)) = SizeWhen(condition, Len(t))
  OBVIOUS
<1>1. <<>> \in Bytes /\ Len(<<>>) = 0
  BY Joins
<1> QED
  BY <1>1 DEF When, SizeWhen

(* A tag takes one byte.                                                   *)
LEMMA TagLen == \A tag \in Tags : Varint[tag] \in Bytes /\ Len(Varint[tag]) = 1
<1> SUFFICES ASSUME NEW tag \in Tags PROVE Varint[tag] \in Bytes /\ Len(Varint[tag]) = 1
  OBVIOUS
<1>1. tag \in Int31
  BY TagsFit
<1>2. VarintSize(tag) \in 1..5 /\ InSize(tag, VarintSize(tag))
  BY <1>1, SizeIs
<1>3. \A n \in 2..5 : PlaceIs(n) >= 128
  BY SMT DEF PlaceIs
<1>4. tag < 128 /\ tag \in Nat
  BY DEF Tags
<1>5. \A n \in 2..5 : n > 1 /\ PlaceIs(n) \in Int
  BY SMT DEF PlaceIs
<1>6. VarintSize(tag) = 1
  BY <1>2, <1>3, <1>4, <1>5 DEF InSize
<1> QED
  BY <1>1, <1>6, VarintLen

(* A string takes its tag and the size announced for it.                   *)
LEMMA BytesLen ==
  ASSUME NEW number \in 1..3, NEW v \in Strings
  PROVE  WriteBytes(number, v) \in Bytes /\ Len(WriteBytes(number, v)) = 1 + BytesSize(v)
<1> DEFINE a == Varint[8 * number + 2]
           b == Varint[Len(v)]
<1>1. a \in Bytes /\ Len(a) = 1
  <2>1. 8 * number + 2 \in Tags
    BY DEF Tags
  <2> QED
    BY <2>1, TagLen
<1>2. v \in Bytes /\ Len(v) \in Nat /\ b \in Bytes /\ Len(b) = VarintSize(Len(v))
  BY BytesAre, VarintLen DEF Strings
<1>3. WriteBytes(number, v) = (a \o b) \o v
  BY DEF WriteBytes
<1>4. BytesSize(v) = Len(b) + Len(v) /\ Len(b) \in Nat
  BY <1>2, BytesAre DEF BytesSize
<1> HIDE DEF a, b
<1>5. a \o b \in Bytes /\ Len(a \o b) = Len(a) + Len(b)
  BY <1>1, <1>2, BytesJoined
<1> DEFINE ab == a \o b
<1>6. ab \in Bytes /\ Len(ab) = 1 + Len(b)
  BY <1>1, <1>5
<1> HIDE DEF ab
<1>7. ab \o v \in Bytes /\ Len(ab \o v) = Len(ab) + Len(v)
  BY <1>2, <1>6, BytesJoined
<1>8. WriteBytes(number, v) = ab \o v
  BY <1>3 DEF ab
<1> QED
  BY <1>2, <1>4, <1>6, <1>7, <1>8

(* A number takes its tag and its bytes.                                   *)
LEMMA NumberLen ==
  ASSUME NEW number \in 1..3, NEW t \in Bytes
  PROVE  Varint[8 * number] \o t \in Bytes /\ Len(Varint[8 * number] \o t) = 1 + Len(t)
<1> DEFINE a == Varint[8 * number]
<1>1. a \in Bytes /\ Len(a) = 1
  <2>1. 8 * number \in Tags
    BY DEF Tags
  <2> QED
    BY <2>1, TagLen
<1> HIDE DEF a
<1>2. a \o t \in Bytes /\ Len(a \o t) = Len(a) + Len(t)
  BY <1>1, BytesJoined
<1> QED
  BY <1>1, <1>2 DEF a

(* An int32 takes its tag and the size announced for it.                   *)
LEMMA Int32Len ==
  ASSUME NEW number \in 1..3, NEW v \in Int32
  PROVE  WriteInt32(number, v) \in Bytes /\ Len(WriteInt32(number, v)) = 1 + Int32Size(v)
BY Int32Back, NumberLen DEF WriteInt32

(* A uint32 takes its tag and the size announced for it.                   *)
LEMMA UInt32Len ==
  ASSUME NEW number \in 1..3, NEW v \in Int32
  PROVE  WriteUInt32(number, v) \in Bytes /\ Len(WriteUInt32(number, v)) = 1 + VarintSize(v)
BY UInt32Back, NumberLen DEF WriteUInt32

(* LoginRequest.                                                            *)
LoginRequestOf(n, p, u) ==
    [type |-> "LoginRequest", name |-> n, pwd |-> p, unknown |-> u]

(* A LoginRequest is its fields, and a field set is that field changed.    *)
LEMMA LoginRequestIs ==
  /\ \A m \in LoginRequests : m = LoginRequestOf(m.name, m.pwd, m.unknown)
  /\ \A n, p, u, x :
        LET m == LoginRequestOf(n, p, u)
        IN /\ m.name = n /\ m.pwd = p /\ m.unknown = u
           /\ [m EXCEPT !["name"] = x] = LoginRequestOf(x, p, u)
           /\ [m EXCEPT !["pwd"] = x] = LoginRequestOf(n, x, u)
           /\ [m EXCEPT !.unknown = x] = LoginRequestOf(n, p, x)
  BY DEF LoginRequestOf, LoginRequests

(* The cases of the switch of LoginRequest.                                *)
LEMMA LoginRequestCases ==
  LET cases == LoginRequest_InternalParse
  IN /\ 10 \in DOMAIN cases /\ cases[10] = AsBytes("name")
     /\ 18 \in DOMAIN cases /\ cases[18] = AsBytes("pwd")
     /\ \A tag \in DOMAIN cases : cases[tag].kind # "unknown"
  BY DEF LoginRequest_InternalParse, AsBytes

(* MergeFrom of LoginRequest, field by field.                              *)
LEMMA LoginRequestMerged ==
  ASSUME NEW n, NEW p, NEW u, NEW b
  PROVE  LoginRequest_MergeFrom(LoginRequestOf(n, p, u), b)
         = LoginRequestOf(Either(Len(b.name) > 0, b.name, n),
                          Either(Len(b.pwd) > 0, b.pwd, p),
                          u \o b.unknown)
<1> DEFINE m == LoginRequestOf(n, p, u)
           n1 == Either(Len(b.name) > 0, b.name, n)
           p1 == Either(Len(b.pwd) > 0, b.pwd, p)
           u1 == u \o b.unknown
<1>1. m.name = n /\ m.pwd = p /\ m.unknown = u
  BY LoginRequestIs
<1>2. LoginRequest_MergeFrom(m, b) = [m EXCEPT !.unknown = u1, !.name = n1, !.pwd = p1]
  <2> HIDE DEF m
  <2> QED
    BY <1>1, Zenon DEF LoginRequest_MergeFrom, Either
<1> HIDE DEF m, n1, p1, u1
<1>3. LoginRequest_MergeFrom(m, b)
      = [[[m EXCEPT !.unknown = u1] EXCEPT !.name = n1] EXCEPT !.pwd = p1]
  BY <1>2
<1>4. [m EXCEPT !.unknown = u1] = LoginRequestOf(n, p, u1)
  BY LoginRequestIs DEF m
<1>5. [LoginRequestOf(n, p, u1) EXCEPT !.name = n1] = LoginRequestOf(n1, p, u1)
  BY LoginRequestIs
<1>6. [LoginRequestOf(n1, p, u1) EXCEPT !.pwd = p1] = LoginRequestOf(n1, p1, u1)
  BY LoginRequestIs
<1>7. LoginRequest_MergeFrom(m, b) = LoginRequestOf(n1, p1, u1)
  BY <1>3, <1>4, <1>5, <1>6, Zenon
<1> QED
  BY <1>7, Zenon DEF m, n1, p1, u1

(* The bytes of a LoginRequest take any other to the merge of the two.     *)
LEMMA LoginRequestReads ==
  ASSUME NEW deep \in BOOLEAN, NEW m \in LoginRequests, NEW b \in LoginRequests
  PROVE  Reads(deep, LoginRequest_InternalParse,
               LoginRequest_InternalSerialize(b), m, LoginRequest_MergeFrom(m, b))
<1> DEFINE cases == LoginRequest_InternalParse
           n == m.name
           p == m.pwd
           u == m.unknown
           n1 == Either(Len(b.name) > 0, b.name, n)
           p1 == Either(Len(b.pwd) > 0, b.pwd, p)
           u1 == u \o b.unknown
           w1 == When(Len(b.name) > 0, WriteBytes(1, b.name))
           w2 == When(Len(b.pwd) > 0, WriteBytes(2, b.pwd))
<1>1. /\ m = LoginRequestOf(n, p, u) /\ u \in Bytes
      /\ b.name \in Strings /\ b.pwd \in Strings
      /\ b.unknown \in Strange(cases) /\ b.unknown \in Bytes
  BY LoginRequestIs DEF LoginRequests, Strange
<1>2. LoginRequest_InternalSerialize(b) = w1 \o w2 \o b.unknown
  BY DEF LoginRequest_InternalSerialize
<1>3. LoginRequest_MergeFrom(m, b) = LoginRequestOf(n1, p1, u1)
  BY <1>1, LoginRequestMerged
<1> HIDE DEF cases, u, u1
<1>4. Reads(deep, cases, w1, LoginRequestOf(n, p, u), LoginRequestOf(n1, p, u))
  <2>1. 1 \in 1..3 /\ 10 \in Tags /\ 10 = 8 * 1 + 2
    BY DEF Tags
  <2>2. 10 \in DOMAIN cases /\ cases[10] = AsBytes("name")
    BY LoginRequestCases DEF cases
  <2>3. Len(b.name) > 0 => [LoginRequestOf(n, p, u) EXCEPT !["name"] = b.name] = LoginRequestOf(n1, p, u)
    BY LoginRequestIs DEF Either
  <2>4. ~(Len(b.name) > 0) => LoginRequestOf(n1, p, u) = LoginRequestOf(n, p, u)
    BY DEF Either
  <2> HIDE DEF n, p, n1, p1
  <2> QED
    BY <1>1, <2>1, <2>2, <2>3, <2>4, MaybeBytes
<1>5. Reads(deep, cases, w2, LoginRequestOf(n1, p, u), LoginRequestOf(n1, p1, u))
  <2>1. 2 \in 1..3 /\ 18 \in Tags /\ 18 = 8 * 2 + 2
    BY DEF Tags
  <2>2. 18 \in DOMAIN cases /\ cases[18] = AsBytes("pwd")
    BY LoginRequestCases DEF cases
  <2>3. Len(b.pwd) > 0 => [LoginRequestOf(n1, p, u) EXCEPT !["pwd"] = b.pwd] = LoginRequestOf(n1, p1, u)
    BY LoginRequestIs DEF Either
  <2>4. ~(Len(b.pwd) > 0) => LoginRequestOf(n1, p1, u) = LoginRequestOf(n1, p, u)
    BY DEF Either
  <2> HIDE DEF n, p, n1, p1
  <2> QED
    BY <1>1, <2>1, <2>2, <2>3, <2>4, MaybeBytes
<1> HIDE DEF w1, w2, n, p, n1, p1
<1>6. Reads(deep, cases, b.unknown, LoginRequestOf(n1, p1, u), LoginRequestOf(n1, p1, u1))
  <2> DEFINE msgs == [x \in Bytes |-> LoginRequestOf(n1, p1, x)]
  <2>1. \A x \in Bytes : msgs[x] = LoginRequestOf(n1, p1, x)
    OBVIOUS
  <2>2. \A x, y \in Bytes : msgs[x].unknown = x /\ [msgs[x] EXCEPT !.unknown = y] = msgs[y]
    BY <2>1, LoginRequestIs
  <2> HIDE DEF msgs
  <2>3. Reads(deep, cases, b.unknown, msgs[u], msgs[u1])
    BY <1>1, <2>2, ReadsUnknown, LoginRequestCases DEF cases, u1
  <2>4. u1 \in Bytes
    BY <1>1, BytesJoined DEF u1
  <2> QED
    BY <1>1, <2>1, <2>3, <2>4
<1>7. Reads(deep, cases, w1 \o w2 \o b.unknown, LoginRequestOf(n, p, u), LoginRequestOf(n1, p1, u1))
  <2>1. Reads(deep, cases, w1 \o w2, LoginRequestOf(n, p, u), LoginRequestOf(n1, p1, u))
    BY <1>4, <1>5, ReadsBoth
  <2> QED
    BY <2>1, <1>6, ReadsBoth
<1> QED
  BY <1>1, <1>2, <1>3, <1>7 DEF cases

(* Clear leaves an empty LoginRequest, into which another is merged as it  *)
(* is.                                                                     *)
LEMMA LoginRequestCopies ==
  ASSUME NEW a \in LoginRequests, NEW b \in LoginRequests
  PROVE  /\ LoginRequest_Clear(a) = LoginRequestOf(<<>>, <<>>, <<>>)
         /\ LoginRequest_Clear(a) \in LoginRequests
         /\ LoginRequest_MergeFrom(LoginRequest_Clear(a), b) = b
<1> DEFINE e == <<>>
           c == LoginRequestOf(e, e, e)
<1>1. LoginRequest_Clear(a) = c
  <2>1. LoginRequest_Clear(a) = [a EXCEPT !.name = e, !.pwd = e, !.unknown = e]
    BY DEF LoginRequest_Clear
  <2> HIDE DEF e, c
  <2>2. LoginRequest_Clear(a)
        = [[[a EXCEPT !.name = e] EXCEPT !.pwd = e] EXCEPT !.unknown = e]
    BY <2>1
  <2>3. a = LoginRequestOf(a.name, a.pwd, a.unknown)
    BY LoginRequestIs
  <2>4. [LoginRequestOf(a.name, a.pwd, a.unknown) EXCEPT !.name = e]
        = LoginRequestOf(e, a.pwd, a.unknown)
    BY LoginRequestIs
  <2>5. [LoginRequestOf(e, a.pwd, a.unknown) EXCEPT !.pwd = e]
        = LoginRequestOf(e, e, a.unknown)
    BY LoginRequestIs
  <2>6. [LoginRequestOf(e, e, a.unknown) EXCEPT !.unknown = e] = c
    BY LoginRequestIs DEF c
  <2> QED
    BY <2>2, <2>3, <2>4, <2>5, <2>6, Zenon
<1>2. c \in LoginRequests
  <2>1. e \in Strings /\ 0 \in Int32 /\ e \in Strange(LoginRequest_InternalParse)
    BY NothingFits, NothingStrange
  <2> HIDE DEF e
  <2> QED
    BY <2>1 DEF LoginRequests, LoginRequestOf
<1>3. LoginRequest_MergeFrom(c, b) = b
  <2> DEFINE n1 == Either(Len(b.name) > 0, b.name, e)
             p1 == Either(Len(b.pwd) > 0, b.pwd, e)
  <2>1. LoginRequest_MergeFrom(c, b) = LoginRequestOf(n1, p1, e \o b.unknown)
    <3> HIDE DEF e
    <3> QED
      BY LoginRequestMerged
  <2>2. b.name \in Strings /\ b.pwd \in Strings /\ b.unknown \in Bytes
    BY DEF LoginRequests, Strange
  <2>3. n1 = b.name /\ p1 = b.pwd
    BY <2>2, NotLonger DEF Either
  <2>4. e \o b.unknown = b.unknown
    BY <2>2, Joins
  <2> HIDE DEF c, n1, p1
  <2>5. b = LoginRequestOf(b.name, b.pwd, b.unknown)
    BY LoginRequestIs
  <2> QED
    BY <2>1, <2>3, <2>4, <2>5, Zenon
<1> QED
  BY <1>1, <1>2, <1>3

(* A LoginRequest announces the number of bytes it writes.                 *)
LEMMA LoginRequestSize ==
  ASSUME NEW b \in LoginRequests
  PROVE  /\ LoginRequest_ByteSizeLong(b) = Len(LoginRequest_InternalSerialize(b))
         /\ LoginRequest_InternalSerialize(b) \in Bytes
<1> DEFINE w1 == When(Len(b.name) > 0, WriteBytes(1, b.name))
           w2 == When(Len(b.pwd) > 0, WriteBytes(2, b.pwd))
           k1 == SizeWhen(Len(b.name) > 0, 1 + BytesSize(b.name))
           k2 == SizeWhen(Len(b.pwd) > 0, 1 + BytesSize(b.pwd))
<1>1. b.name \in Strings /\ b.pwd \in Strings /\ b.unknown \in Bytes
  BY DEF LoginRequests, Strange
<1>2. w1 \in Bytes /\ Len(w1) = k1
  <2>1. 1 \in 1..3
    OBVIOUS
  <2>2. WriteBytes(1, b.name) \in Bytes /\ Len(WriteBytes(1, b.name)) = 1 + BytesSize(b.name)
    BY <1>1, <2>1, BytesLen
  <2> QED
    BY <2>2, WhenLen, Zenon
<1>3. w2 \in Bytes /\ Len(w2) = k2
  <2>1. 2 \in 1..3
    OBVIOUS
  <2>2. WriteBytes(2, b.pwd) \in Bytes /\ Len(WriteBytes(2, b.pwd)) = 1 + BytesSize(b.pwd)
    BY <1>1, <2>1, BytesLen
  <2> QED
    BY <2>2, WhenLen, Zenon
<1>4. LoginRequest_InternalSerialize(b) = w1 \o w2 \o b.unknown
  BY DEF LoginRequest_InternalSerialize
<1>5. LoginRequest_ByteSizeLong(b) = k1 + k2 + Len(b.unknown)
  BY DEF LoginRequest_ByteSizeLong
<1> HIDE DEF w1, w2, k1, k2
<1>6. w1 \o w2 \in Bytes /\ Len(w1 \o w2) = k1 + k2
  BY <1>2, <1>3, BytesJoined
<1>7. w1 \o w2 \o b.unknown \in Bytes /\ Len(w1 \o w2 \o b.unknown) = k1 + k2 + Len(b.unknown)
  BY <1>1, <1>6, BytesJoined
<1>8. Len(b.unknown) \in Nat /\ k1 \in Nat /\ k2 \in Nat
  BY <1>1, <1>2, <1>3, BytesAre
<1>9. k1 + k2 + Len(b.unknown) = k1 + k2 + Len(b.unknown)
  <2> DEFINE l == Len(b.unknown)
  <2>1. l \in Nat
    BY <1>8
  <2> HIDE DEF l
  <2>2. k1 + k2 + l = k1 + k2 + l
    BY <1>8, <2>1
  <2> QED
    BY <2>2 DEF l
<1> QED
  BY <1>4, <1>5, <1>7, <1>9, Zenon

(* RpcHeader.                                                               *)
RpcHeaderOf(s, t, n, u) ==
    [type |-> "RpcHeader", servicename |-> s, methodname |-> t, argssize |-> n, unknown |-> u]

(* A RpcHeader is its fields, and a field set is that field changed.       *)
LEMMA RpcHeaderIs ==
  /\ \A m \in RpcHeaders : m = RpcHeaderOf(m.servicename, m.methodname, m.argssize, m.unknown)
  /\ \A s, t, n, u, x :
        LET m == RpcHeaderOf(s, t, n, u)
        IN /\ m.servicename = s /\ m.methodname = t /\ m.argssize = n /\ m.unknown = u
           /\ [m EXCEPT !["servicename"] = x] = RpcHeaderOf(x, t, n, u)
           /\ [m EXCEPT !["methodname"] = x] = RpcHeaderOf(s, x, n, u)
           /\ [m EXCEPT !["argssize"] = x] = RpcHeaderOf(s, t, x, u)
           /\ [m EXCEPT !.unknown = x] = RpcHeaderOf(s, t, n, x)
  BY DEF RpcHeaderOf, RpcHeaders

(* The cases of the switch of RpcHeader.                                   *)
LEMMA RpcHeaderCases ==
  LET cases == RpcHeader_InternalParse
  IN /\ 10 \in DOMAIN cases /\ cases[10] = AsBytes("servicename")
     /\ 18 \in DOMAIN cases /\ cases[18] = AsBytes("methodname")
     /\ 24 \in DOMAIN cases /\ cases[24] = AsNumber("argssize")
     /\ \A tag \in DOMAIN cases : cases[tag].kind # "unknown"
  BY DEF RpcHeader_InternalParse, AsBytes, AsNumber

(* MergeFrom of RpcHeader, field by field.                                 *)
LEMMA RpcHeaderMerged ==
  ASSUME NEW s, NEW t, NEW n, NEW u, NEW b
  PROVE  RpcHeader_MergeFrom(RpcHeaderOf(s, t, n, u), b)
         = RpcHeaderOf(Either(Len(b.servicename) > 0, b.servicename, s),
                       Either(Len(b.methodname) > 0, b.methodname, t),
                       Either(b.argssize # 0, b.argssize, n),
                       u \o b.unknown)
<1> DEFINE m == RpcHeaderOf(s, t, n, u)
           s1 == Either(Len(b.servicename) > 0, b.servicename, s)
           t1 == Either(Len(b.methodname) > 0, b.methodname, t)
           n1 == Either(b.argssize # 0, b.argssize, n)
           u1 == u \o b.unknown
<1>1. m.servicename = s /\ m.methodname = t /\ m.argssize = n /\ m.unknown = u
  BY RpcHeaderIs
<1>2. RpcHeader_MergeFrom(m, b)
      = [m EXCEPT !.unknown = u1, !.servicename = s1, !.methodname = t1, !.argssize = n1]
  <2> HIDE DEF m
  <2> QED
    BY <1>1, Zenon DEF RpcHeader_MergeFrom, Either
<1> HIDE DEF m, s1, t1, n1, u1
<1>3. RpcHeader_MergeFrom(m, b)
      = [[[[m EXCEPT !.unknown = u1] EXCEPT !.servicename = s1] EXCEPT !.methodname = t1] EXCEPT !.argssize = n1]
  BY <1>2
<1>4. [m EXCEPT !.unknown = u1] = RpcHeaderOf(s, t, n, u1)
  BY RpcHeaderIs DEF m
<1>5. [RpcHeaderOf(s, t, n, u1) EXCEPT !.servicename = s1] = RpcHeaderOf(s1, t, n, u1)
  BY RpcHeaderIs
<1>6. [RpcHeaderOf(s1, t, n, u1) EXCEPT !.methodname = t1] = RpcHeaderOf(s1, t1, n, u1)
  BY RpcHeaderIs
<1>7. [RpcHeaderOf(s1, t1, n, u1) EXCEPT !.argssize = n1] = RpcHeaderOf(s1, t1, n1, u1)
  BY RpcHeaderIs
<1>8. RpcHeader_MergeFrom(m, b) = RpcHeaderOf(s1, t1, n1, u1)
  BY <1>3, <1>4, <1>5, <1>6, <1>7, Zenon
<1> QED
  BY <1>8, Zenon DEF m, s1, t1, n1, u1

(* The bytes of a RpcHeader take any other to the merge of the two.        *)
LEMMA RpcHeaderReads ==
  ASSUME NEW deep \in BOOLEAN, NEW m \in RpcHeaders, NEW b \in RpcHeaders
  PROVE  Reads(deep, RpcHeader_InternalParse,
               RpcHeader_InternalSerialize(b), m, RpcHeader_MergeFrom(m, b))
<1> DEFINE cases == RpcHeader_InternalParse
           s == m.servicename
           t == m.methodname
           n == m.argssize
           u == m.unknown
           s1 == Either(Len(b.servicename) > 0, b.servicename, s)
           t1 == Either(Len(b.methodname) > 0, b.methodname, t)
           n1 == Either(b.argssize # 0, b.argssize, n)
           u1 == u \o b.unknown
           w1 == When(Len(b.servicename) > 0, WriteBytes(1, b.servicename))
           w2 == When(Len(b.methodname) > 0, WriteBytes(2, b.methodname))
           w3 == When(b.argssize # 0, WriteUInt32(3, b.argssize))
<1>1. /\ m = RpcHeaderOf(s, t, n, u) /\ u \in Bytes
      /\ b.servicename \in Strings /\ b.methodname \in Strings /\ b.argssize \in Int32
      /\ b.unknown \in Strange(cases) /\ b.unknown \in Bytes
  BY RpcHeaderIs DEF RpcHeaders, Strange
<1>2. RpcHeader_InternalSerialize(b) = w1 \o w2 \o w3 \o b.unknown
  BY DEF RpcHeader_InternalSerialize
<1>3. RpcHeader_MergeFrom(m, b) = RpcHeaderOf(s1, t1, n1, u1)
  BY <1>1, RpcHeaderMerged
<1> HIDE DEF cases, u, u1
<1>4. Reads(deep, cases, w1, RpcHeaderOf(s, t, n, u), RpcHeaderOf(s1, t, n, u))
  <2>1. 1 \in 1..3 /\ 10 \in Tags /\ 10 = 8 * 1 + 2
    BY DEF Tags
  <2>2. 10 \in DOMAIN cases /\ cases[10] = AsBytes("servicename")
    BY RpcHeaderCases DEF cases
  <2>3. Len(b.servicename) > 0 => [RpcHeaderOf(s, t, n, u) EXCEPT !["servicename"] = b.servicename] = RpcHeaderOf(s1, t, n, u)
    BY RpcHeaderIs DEF Either
  <2>4. ~(Len(b.servicename) > 0) => RpcHeaderOf(s1, t, n, u) = RpcHeaderOf(s, t, n, u)
    BY DEF Either
  <2> HIDE DEF s, t, n, s1, t1, n1
  <2> QED
    BY <1>1, <2>1, <2>2, <2>3, <2>4, MaybeBytes
<1>5. Reads(deep, cases, w2, RpcHeaderOf(s1, t, n, u), RpcHeaderOf(s1, t1, n, u))
  <2>1. 2 \in 1..3 /\ 18 \in Tags /\ 18 = 8 * 2 + 2
    BY DEF Tags
  <2>2. 18 \in DOMAIN cases /\ cases[18] = AsBytes("methodname")
    BY RpcHeaderCases DEF cases
  <2>3. Len(b.methodname) > 0 => [RpcHeaderOf(s1, t, n, u) EXCEPT !["methodname"] = b.methodname] = RpcHeaderOf(s1, t1, n, u)
    BY RpcHeaderIs DEF Either
  <2>4. ~(Len(b.methodname) > 0) => RpcHeaderOf(s1, t1, n, u) = RpcHeaderOf(s1, t, n, u)
    BY DEF Either
  <2> HIDE DEF s, t, n, s1, t1, n1
  <2> QED
    BY <1>1, <2>1, <2>2, <2>3, <2>4, MaybeBytes
<1>6. Reads(deep, cases, w3, RpcHeaderOf(s1, t1, n, u), RpcHeaderOf(s1, t1, n1, u))
  <2>1. 3 \in 1..3 /\ 24 \in Tags /\ 24 = 8 * 3
    BY DEF Tags
  <2>2. 24 \in DOMAIN cases /\ cases[24] = AsNumber("argssize")
    BY RpcHeaderCases DEF cases
  <2>3. b.argssize # 0 => [RpcHeaderOf(s1, t1, n, u) EXCEPT !["argssize"] = b.argssize] = RpcHeaderOf(s1, t1, n1, u)
    BY RpcHeaderIs DEF Either
  <2>4. ~(b.argssize # 0) => RpcHeaderOf(s1, t1, n1, u) = RpcHeaderOf(s1, t1, n, u)
    BY DEF Either
  <2> HIDE DEF s, t, n, s1, t1, n1
  <2> QED
    BY <1>1, <2>1, <2>2, <2>3, <2>4, MaybeUInt32
<1> HIDE DEF w1, w2, w3, s, t, n, s1, t1, n1
<1>7. Reads(deep, cases, b.unknown, RpcHeaderOf(s1, t1, n1, u), RpcHeaderOf(s1, t1, n1, u1))
  <2> DEFINE msgs == [x \in Bytes |-> RpcHeaderOf(s1, t1, n1, x)]
  <2>1. \A x \in Bytes : msgs[x] = RpcHeaderOf(s1, t1, n1, x)
    OBVIOUS
  <2>2. \A x, y \in Bytes : msgs[x].unknown = x /\ [msgs[x] EXCEPT !.unknown = y] = msgs[y]
    BY <2>1, RpcHeaderIs
  <2> HIDE DEF msgs
  <2>3. Reads(deep, cases, b.unknown, msgs[u], msgs[u1])
    BY <1>1, <2>2, ReadsUnknown, RpcHeaderCases DEF cases, u1
  <2>4. u1 \in Bytes
    BY <1>1, BytesJoined DEF u1
  <2> QED
    BY <1>1, <2>1, <2>3, <2>4
<1>8. Reads(deep, cases, w1 \o w2 \o w3 \o b.unknown,
             RpcHeaderOf(s, t, n, u), RpcHeaderOf(s1, t1, n1, u1))
  <2>1. Reads(deep, cases, w1 \o w2, RpcHeaderOf(s, t, n, u), RpcHeaderOf(s1, t1, n, u))
    BY <1>4, <1>5, ReadsBoth
  <2>2. Reads(deep, cases, w1 \o w2 \o w3, RpcHeaderOf(s, t, n, u), RpcHeaderOf(s1, t1, n1, u))
    BY <2>1, <1>6, ReadsBoth
  <2> QED
    BY <2>2, <1>7, ReadsBoth
<1> QED
  BY <1>1, <1>2, <1>3, <1>8 DEF cases

(* Clear leaves an empty RpcHeader, into which another is merged as it is. *)
LEMMA RpcHeaderCopies ==
  ASSUME NEW a \in RpcHeaders, NEW b \in RpcHeaders
  PROVE  /\ RpcHeader_Clear(a) = RpcHeaderOf(<<>>, <<>>, 0, <<>>)
         /\ RpcHeader_Clear(a) \in RpcHeaders
         /\ RpcHeader_MergeFrom(RpcHeader_Clear(a), b) = b
<1> DEFINE e == <<>>
           c == RpcHeaderOf(e, e, 0, e)
<1>1. RpcHeader_Clear(a) = c
  <2>1. RpcHeader_Clear(a) = [a EXCEPT !.servicename = e, !.methodname = e, !.argssize = 0, !.unknown = e]
    BY DEF RpcHeader_Clear
  <2> HIDE DEF e, c
  <2>2. RpcHeader_Clear(a)
        = [[[[a EXCEPT !.servicename = e] EXCEPT !.methodname = e] EXCEPT !.argssize = 0] EXCEPT !.unknown = e]
    BY <2>1
  <2>3. a = RpcHeaderOf(a.servicename, a.methodname, a.argssize, a.unknown)
    BY RpcHeaderIs
  <2>4. [RpcHeaderOf(a.servicename, a.methodname, a.argssize, a.unknown) EXCEPT !.servicename = e]
        = RpcHeaderOf(e, a.methodname, a.argssize, a.unknown)
    BY RpcHeaderIs
  <2>5. [RpcHeaderOf(e, a.methodname, a.argssize, a.unknown) EXCEPT !.methodname = e]
        = RpcHeaderOf(e, e, a.argssize, a.unknown)
    BY RpcHeaderIs
  <2>6. [RpcHeaderOf(e, e, a.argssize, a.unknown) EXCEPT !.argssize = 0]
        = RpcHeaderOf(e, e, 0, a.unknown)
    BY RpcHeaderIs
  <2>7. [RpcHeaderOf(e, e, 0, a.unknown) EXCEPT !.unknown = e] = c
    BY RpcHeaderIs DEF c
  <2> QED
    BY <2>2, <2>3, <2>4, <2>5, <2>6, <2>7, Zenon
<1>2. c \in RpcHeaders
  <2>1. e \in Strings /\ 0 \in Int32 /\ e \in Strange(RpcHeader_InternalParse)
    BY NothingFits, NothingStrange
  <2> HIDE DEF e
  <2> QED
    BY <2>1 DEF RpcHeaders, RpcHeaderOf
<1>3. RpcHeader_MergeFrom(c, b) = b
  <2> DEFINE s1 == Either(Len(b.servicename) > 0, b.servicename, e)
             t1 == Either(Len(b.methodname) > 0, b.methodname, e)
             n1 == Either(b.argssize # 0, b.argssize, 0)
  <2>1. RpcHeader_MergeFrom(c, b) = RpcHeaderOf(s1, t1, n1, e \o b.unknown)
    <3> HIDE DEF e
    <3> QED
      BY RpcHeaderMerged
  <2>2. b.servicename \in Strings /\ b.methodname \in Strings /\ b.argssize \in Int32 /\ b.unknown \in Bytes
    BY DEF RpcHeaders, Strange
  <2>3. s1 = b.servicename /\ t1 = b.methodname /\ n1 = b.argssize
    BY <2>2, NotLonger DEF Either
  <2>4. e \o b.unknown = b.unknown
    BY <2>2, Joins
  <2> HIDE DEF c, s1, t1, n1
  <2>5. b = RpcHeaderOf(b.servicename, b.methodname, b.argssize, b.unknown)
    BY RpcHeaderIs
  <2> QED
    BY <2>1, <2>3, <2>4, <2>5, Zenon
<1> QED
  BY <1>1, <1>2, <1>3

(* A RpcHeader announces the number of bytes it writes.                    *)
LEMMA RpcHeaderSize ==
  ASSUME NEW b \in RpcHeaders
  PROVE  /\ RpcHeader_ByteSizeLong(b) = Len(RpcHeader_InternalSerialize(b))
         /\ RpcHeader_InternalSerialize(b) \in Bytes
<1> DEFINE w1 == When(Len(b.servicename) > 0, WriteBytes(1, b.servicename))
           w2 == When(Len(b.methodname) > 0, WriteBytes(2, b.methodname))
           w3 == When(b.argssize # 0, WriteUInt32(3, b.argssize))
           k1 == SizeWhen(Len(b.servicename) > 0, 1 + BytesSize(b.servicename))
           k2 == SizeWhen(Len(b.methodname) > 0, 1 + BytesSize(b.methodname))
           k3 == SizeWhen(b.argssize # 0, 1 + VarintSize(b.argssize))
<1>1. b.servicename \in Strings /\ b.methodname \in Strings /\ b.argssize \in Int32 /\ b.unknown \in Bytes
  BY DEF RpcHeaders, Strange
<1>2. w1 \in Bytes /\ Len(w1) = k1
  <2>1. 1 \in 1..3
    OBVIOUS
  <2>2. WriteBytes(1, b.servicename) \in Bytes /\ Len(WriteBytes(1, b.servicename)) = 1 + BytesSize(b.servicename)
    BY <1>1, <2>1, BytesLen
  <2> QED
    BY <2>2, WhenLen, Zenon
<1>3. w2 \in Bytes /\ Len(w2) = k2
  <2>1. 2 \in 1..3
    OBVIOUS
  <2>2. WriteBytes(2, b.methodname) \in Bytes /\ Len(WriteBytes(2, b.methodname)) = 1 + BytesSize(b.methodname)
    BY <1>1, <2>1, BytesLen
  <2> QED
    BY <2>2, WhenLen, Zenon
<1>4. w3 \in Bytes /\ Len(w3) = k3
  <2>1. 3 \in 1..3
    OBVIOUS
  <2>2. WriteUInt32(3, b.argssize) \in Bytes /\ Len(WriteUInt32(3, b.argssize)) = 1 + VarintSize(b.argssize)
    BY <1>1, <2>1, UInt32Len
  <2> QED
    BY <2>2, WhenLen, Zenon
<1>5. RpcHeader_InternalSerialize(b) = w1 \o w2 \o w3 \o b.unknown
  BY DEF RpcHeader_InternalSerialize
<1>6. RpcHeader_ByteSizeLong(b) = k1 + k2 + k3 + Len(b.unknown)
  BY DEF RpcHeader_ByteSizeLong
<1> HIDE DEF w1, w2, w3, k1, k2, k3
<1>7. w1 \o w2 \in Bytes /\ Len(w1 \o w2) = k1 + k2
  BY <1>2, <1>3, BytesJoined
<1>8. w1 \o w2 \o w3 \in Bytes /\ Len(w1 \o w2 \o w3) = k1 + k2 + k3
  BY <1>7, <1>4, BytesJoined
<1>9. /\ w1 \o w2 \o w3 \o b.unknown \in Bytes
      /\ Len(w1 \o w2 \o w3 \o b.unknown) = k1 + k2 + k3 + Len(b.unknown)
  BY <1>1, <1>8, BytesJoined
<1>10. Len(b.unknown) \in Nat /\ k1 \in Nat /\ k2 \in Nat /\ k3 \in Nat
  BY <1>1, <1>2, <1>3, <1>4, BytesAre
<1>11. k1 + k2 + k3 + Len(b.unknown) = k1 + k2 + k3 + Len(b.unknown)
  <2> DEFINE l == Len(b.unknown)
  <2>1. l \in Nat
    BY <1>10
  <2> HIDE DEF l
  <2>2. k1 + k2 + k3 + l = k1 + k2 + k3 + l
    BY <1>10, <2>1
  <2> QED
    BY <2>2 DEF l
<1> QED
  BY <1>5, <1>6, <1>9, <1>11, Zenon

(* RegisterRequest.                                                         *)
RegisterRequestOf(i, n, p, u) ==
    [type |-> "RegisterRequest", id |-> i, name |-> n, pwd |-> p, unknown |-> u]

(* A RegisterRequest is its fields, and a field set is that field changed. *)
LEMMA RegisterRequestIs ==
  /\ \A m \in RegisterRequests : m = RegisterRequestOf(m.id, m.name, m.pwd, m.unknown)
  /\ \A i, n, p, u, x :
        LET m == RegisterRequestOf(i, n, p, u)
        IN /\ m.id = i /\ m.name = n /\ m.pwd = p /\ m.unknown = u
           /\ [m EXCEPT !["id"] = x] = RegisterRequestOf(x, n, p, u)
           /\ [m EXCEPT !["name"] = x] = RegisterRequestOf(i, x, p, u)
           /\ [m EXCEPT !["pwd"] = x] = RegisterRequestOf(i, n, x, u)
           /\ [m EXCEPT !.unknown = x] = RegisterRequestOf(i, n, p, x)
  BY DEF RegisterRequestOf, RegisterRequests

(* The cases of the switch of RegisterRequest.                             *)
LEMMA RegisterRequestCases ==
  LET cases == RegisterRequest_InternalParse
  IN /\ 8 \in DOMAIN cases /\ cases[8] = AsNumber("id")
     /\ 18 \in DOMAIN cases /\ cases[18] = AsBytes("name")
     /\ 26 \in DOMAIN cases /\ cases[26] = AsBytes("pwd")
     /\ \A tag \in DOMAIN cases : cases[tag].kind # "unknown"
  BY DEF RegisterRequest_InternalParse, AsBytes, AsNumber

(* MergeFrom of RegisterRequest, field by field.                           *)
LEMMA RegisterRequestMerged ==
  ASSUME NEW i, NEW n, NEW p, NEW u, NEW b
  PROVE  RegisterRequest_MergeFrom(RegisterRequestOf(i, n, p, u), b)
         = RegisterRequestOf(Either(b.id # 0, b.id, i),
                             Either(Len(b.name) > 0, b.name, n),
                             Either(Len(b.pwd) > 0, b.pwd, p),
                             u \o b.unknown)
<1> DEFINE m == RegisterRequestOf(i, n, p, u)
           i1 == Either(b.id # 0, b.id, i)
           n1 == Either(Len(b.name) > 0, b.name, n)
           p1 == Either(Len(b.pwd) > 0, b.pwd, p)
           u1 == u \o b.unknown
<1>1. m.id = i /\ m.name = n /\ m.pwd = p /\ m.unknown = u
  BY RegisterRequestIs
<1>2. RegisterRequest_MergeFrom(m, b)
      = [m EXCEPT !.unknown = u1, !.name = n1, !.pwd = p1, !.id = i1]
  <2> HIDE DEF m
  <2> QED
    BY <1>1, Zenon DEF RegisterRequest_MergeFrom, Either
<1> HIDE DEF m, i1, n1, p1, u1
<1>3. RegisterRequest_MergeFrom(m, b)
      = [[[[m EXCEPT !.unknown = u1] EXCEPT !.name = n1] EXCEPT !.pwd = p1] EXCEPT !.id = i1]
  BY <1>2
<1>4. [m EXCEPT !.unknown = u1] = RegisterRequestOf(i, n, p, u1)
  BY RegisterRequestIs DEF m
<1>5. [RegisterRequestOf(i, n, p, u1) EXCEPT !.name = n1] = RegisterRequestOf(i, n1, p, u1)
  BY RegisterRequestIs
<1>6. [RegisterRequestOf(i, n1, p, u1) EXCEPT !.pwd = p1] = RegisterRequestOf(i, n1, p1, u1)
  BY RegisterRequestIs
<1>7. [RegisterRequestOf(i, n1, p1, u1) EXCEPT !.id = i1] = RegisterRequestOf(i1, n1, p1, u1)
  BY RegisterRequestIs
<1>8. RegisterRequest_MergeFrom(m, b) = RegisterRequestOf(i1, n1, p1, u1)
  BY <1>3, <1>4, <1>5, <1>6, <1>7, Zenon
<1> QED
  BY <1>8, Zenon DEF m, i1, n1, p1, u1

(* The bytes of a RegisterRequest take any other to the merge of the two.  *)
LEMMA RegisterRequestReads ==
  ASSUME NEW deep \in BOOLEAN, NEW m \in RegisterRequests, NEW b \in RegisterRequests
  PROVE  Reads(deep, RegisterRequest_InternalParse,
               RegisterRequest_InternalSerialize(b), m, RegisterRequest_MergeFrom(m, b))
<1> DEFINE cases == RegisterRequest_InternalParse
           i == m.id
           n == m.name
           p == m.pwd
           u == m.unknown
           i1 == Either(b.id # 0, b.id, i)
           n1 == Either(Len(b.name) > 0, b.name, n)
           p1 == Either(Len(b.pwd) > 0, b.pwd, p)
           u1 == u \o b.unknown
           w1 == When(b.id # 0, WriteUInt32(1, b.id))
           w2 == When(Len(b.name) > 0, WriteBytes(2, b.name))
           w3 == When(Len(b.pwd) > 0, WriteBytes(3, b.pwd))
<1>1. /\ m = RegisterRequestOf(i, n, p, u) /\ u \in Bytes
      /\ b.id \in Int32 /\ b.name \in Strings /\ b.pwd \in Strings
      /\ b.unknown \in Strange(cases) /\ b.unknown \in Bytes
  BY RegisterRequestIs DEF RegisterRequests, Strange
<1>2. RegisterRequest_InternalSerialize(b) = w1 \o w2 \o w3 \o b.unknown
  BY DEF RegisterRequest_InternalSerialize
<1>3. RegisterRequest_MergeFrom(m, b) = RegisterRequestOf(i1, n1, p1, u1)
  BY <1>1, RegisterRequestMerged
<1> HIDE DEF cases, u, u1
<1>4. Reads(deep, cases, w1, RegisterRequestOf(i, n, p, u), RegisterRequestOf(i1, n, p, u))
  <2>1. 1 \in 1..3 /\ 8 \in Tags /\ 8 = 8 * 1
    BY DEF Tags
  <2>2. 8 \in DOMAIN cases /\ cases[8] = AsNumber("id")
    BY RegisterRequestCases DEF cases
  <2>3. b.id # 0 => [RegisterRequestOf(i, n, p, u) EXCEPT !["id"] = b.id] = RegisterRequestOf(i1, n, p, u)
    BY RegisterRequestIs DEF Either
  <2>4. ~(b.id # 0) => RegisterRequestOf(i1, n, p, u) = RegisterRequestOf(i, n, p, u)
    BY DEF Either
  <2> HIDE DEF i, n, p, i1, n1, p1
  <2> QED
    BY <1>1, <2>1, <2>2, <2>3, <2>4, MaybeUInt32
<1>5. Reads(deep, cases, w2, RegisterRequestOf(i1, n, p, u), RegisterRequestOf(i1, n1, p, u))
  <2>1. 2 \in 1..3 /\ 18 \in Tags /\ 18 = 8 * 2 + 2
    BY DEF Tags
  <2>2. 18 \in DOMAIN cases /\ cases[18] = AsBytes("name")
    BY RegisterRequestCases DEF cases
  <2>3. Len(b.name) > 0 => [RegisterRequestOf(i1, n, p, u) EXCEPT !["name"] = b.name] = RegisterRequestOf(i1, n1, p, u)
    BY RegisterRequestIs DEF Either
  <2>4. ~(Len(b.name) > 0) => RegisterRequestOf(i1, n1, p, u) = RegisterRequestOf(i1, n, p, u)
    BY DEF Either
  <2> HIDE DEF i, n, p, i1, n1, p1
  <2> QED
    BY <1>1, <2>1, <2>2, <2>3, <2>4, MaybeBytes
<1>6. Reads(deep, cases, w3, RegisterRequestOf(i1, n1, p, u), RegisterRequestOf(i1, n1, p1, u))
  <2>1. 3 \in 1..3 /\ 26 \in Tags /\ 26 = 8 * 3 + 2
    BY DEF Tags
  <2>2. 26 \in DOMAIN cases /\ cases[26] = AsBytes("pwd")
    BY RegisterRequestCases DEF cases
  <2>3. Len(b.pwd) > 0 => [RegisterRequestOf(i1, n1, p, u) EXCEPT !["pwd"] = b.pwd] = RegisterRequestOf(i1, n1, p1, u)
    BY RegisterRequestIs DEF Either
  <2>4. ~(Len(b.pwd) > 0) => RegisterRequestOf(i1, n1, p1, u) = RegisterRequestOf(i1, n1, p, u)
    BY DEF Either
  <2> HIDE DEF i, n, p, i1, n1, p1
  <2> QED
    BY <1>1, <2>1, <2>2, <2>3, <2>4, MaybeBytes
<1> HIDE DEF w1, w2, w3, i, n, p, i1, n1, p1
<1>7. Reads(deep, cases, b.unknown,
             RegisterRequestOf(i1, n1, p1, u), RegisterRequestOf(i1, n1, p1, u1))
  <2> DEFINE msgs == [x \in Bytes |-> RegisterRequestOf(i1, n1, p1, x)]
  <2>1. \A x \in Bytes : msgs[x] = RegisterRequestOf(i1, n1, p1, x)
    OBVIOUS
  <2>2. \A x, y \in Bytes : msgs[x].unknown = x /\ [msgs[x] EXCEPT !.unknown = y] = msgs[y]
    BY <2>1, RegisterRequestIs
  <2> HIDE DEF msgs
  <2>3. Reads(deep, cases, b.unknown, msgs[u], msgs[u1])
    BY <1>1, <2>2, ReadsUnknown, RegisterRequestCases DEF cases, u1
  <2>4. u1 \in Bytes
    BY <1>1, BytesJoined DEF u1
  <2> QED
    BY <1>1, <2>1, <2>3, <2>4
<1>8. Reads(deep, cases, w1 \o w2 \o w3 \o b.unknown,
             RegisterRequestOf(i, n, p, u), RegisterRequestOf(i1, n1, p1, u1))
  <2>1. Reads(deep, cases, w1 \o w2, RegisterRequestOf(i, n, p, u), RegisterRequestOf(i1, n1, p, u))
    BY <1>4, <1>5, ReadsBoth
  <2>2. Reads(deep, cases, w1 \o w2 \o w3, RegisterRequestOf(i, n, p, u), RegisterRequestOf(i1, n1, p1, u))
    BY <2>1, <1>6, ReadsBoth
  <2> QED
    BY <2>2, <1>7, ReadsBoth
<1> QED
  BY <1>1, <1>2, <1>3, <1>8 DEF cases

(* Clear leaves an empty RegisterRequest, into which another is merged as  *)
(* it is.                                                                  *)
LEMMA RegisterRequestCopies ==
  ASSUME NEW a \in RegisterRequests, NEW b \in RegisterRequests
  PROVE  /\ RegisterRequest_Clear(a) = RegisterRequestOf(0, <<>>, <<>>, <<>>)
         /\ RegisterRequest_Clear(a) \in RegisterRequests
         /\ RegisterRequest_MergeFrom(RegisterRequest_Clear(a), b) = b
<1> DEFINE e == <<>>
           c == RegisterRequestOf(0, e, e, e)
<1>1. RegisterRequest_Clear(a) = c
  <2>1. RegisterRequest_Clear(a) = [a EXCEPT !.name = e, !.pwd = e, !.id = 0, !.unknown = e]
    BY DEF RegisterRequest_Clear
  <2> HIDE DEF e, c
  <2>2. RegisterRequest_Clear(a)
        = [[[[a EXCEPT !.name = e] EXCEPT !.pwd = e] EXCEPT !.id = 0] EXCEPT !.unknown = e]
    BY <2>1
  <2>3. a = RegisterRequestOf(a.id, a.name, a.pwd, a.unknown)
    BY RegisterRequestIs
  <2>4. [RegisterRequestOf(a.id, a.name, a.pwd, a.unknown) EXCEPT !.name = e]
        = RegisterRequestOf(a.id, e, a.pwd, a.unknown)
    BY RegisterRequestIs
  <2>5. [RegisterRequestOf(a.id, e, a.pwd, a.unknown) EXCEPT !.pwd = e]
        = RegisterRequestOf(a.id, e, e, a.unknown)
    BY RegisterRequestIs
  <2>6. [RegisterRequestOf(a.id, e, e, a.unknown) EXCEPT !.id = 0]
        = RegisterRequestOf(0, e, e, a.unknown)
    BY RegisterRequestIs
  <2>7. [RegisterRequestOf(0, e, e, a.unknown) EXCEPT !.unknown = e] = c
    BY RegisterRequestIs DEF c
  <2> QED
    BY <2>2, <2>3, <2>4, <2>5, <2>6, <2>7, Zenon
<1>2. c \in RegisterRequests
  <2>1. e \in Strings /\ 0 \in Int32 /\ e \in Strange(RegisterRequest_InternalParse)
    BY NothingFits, NothingStrange
  <2> HIDE DEF e
  <2> QED
    BY <2>1 DEF RegisterRequests, RegisterRequestOf
<1>3. RegisterRequest_MergeFrom(c, b) = b
  <2> DEFINE i1 == Either(b.id # 0, b.id, 0)
             n1 == Either(Len(b.name) > 0, b.name, e)
             p1 == Either(Len(b.pwd) > 0, b.pwd, e)
  <2>1. RegisterRequest_MergeFrom(c, b) = RegisterRequestOf(i1, n1, p1, e \o b.unknown)
    <3> HIDE DEF e
    <3> QED
      BY RegisterRequestMerged
  <2>2. b.id \in Int32 /\ b.name \in Strings /\ b.pwd \in Strings /\ b.unknown \in Bytes
    BY DEF RegisterRequests, Strange
  <2>3. i1 = b.id /\ n1 = b.name /\ p1 = b.pwd
    BY <2>2, NotLonger DEF Either
  <2>4. e \o b.unknown = b.unknown
    BY <2>2, Joins
  <2> HIDE DEF c, i1, n1, p1
  <2>5. b = RegisterRequestOf(b.id, b.name, b.pwd, b.unknown)
    BY RegisterRequestIs
  <2> QED
    BY <2>1, <2>3, <2>4, <2>5, Zenon
<1> QED
  BY <1>1, <1>2, <1>3

(* A RegisterRequest announces the number of bytes it writes.              *)
LEMMA RegisterRequestSize ==
  ASSUME NEW b \in RegisterRequests
  PROVE  /\ RegisterRequest_ByteSizeLong(b) = Len(RegisterRequest_InternalSerialize(b))
         /\ RegisterRequest_InternalSerialize(b) \in Bytes
<1> DEFINE w1 == When(b.id # 0, WriteUInt32(1, b.id))
           w2 == When(Len(b.name) > 0, WriteBytes(2, b.name))
           w3 == When(Len(b.pwd) > 0, WriteBytes(3, b.pwd))
           k1 == SizeWhen(b.id # 0, 1 + VarintSize(b.id))
           k2 == SizeWhen(Len(b.name) > 0, 1 + BytesSize(b.name))
           k3 == SizeWhen(Len(b.pwd) > 0, 1 + BytesSize(b.pwd))
<1>1. b.id \in Int32 /\ b.name \in Strings /\ b.pwd \in Strings /\ b.unknown \in Bytes
  BY DEF RegisterRequests, Strange
<1>2. w1 \in Bytes /\ Len(w1) = k1
  <2>1. 1 \in 1..3
    OBVIOUS
  <2>2. WriteUInt32(1, b.id) \in Bytes /\ Len(WriteUInt32(1, b.id)) = 1 + VarintSize(b.id)
    BY <1>1, <2>1, UInt32Len
  <2> QED
    BY <2>2, WhenLen, Zenon
<1>3. w2 \in Bytes /\ Len(w2) = k2
  <2>1. 2 \in 1..3
    OBVIOUS
  <2>2. WriteBytes(2, b.name) \in Bytes /\ Len(WriteBytes(2, b.name)) = 1 + BytesSize(b.name)
    BY <1>1, <2>1, BytesLen
  <2> QED
    BY <2>2, WhenLen, Zenon
<1>4. w3 \in Bytes /\ Len(w3) = k3
  <2>1. 3 \in 1..3
    OBVIOUS
  <2>2. WriteBytes(3, b.pwd) \in Bytes /\ Len(WriteBytes(3, b.pwd)) = 1 + BytesSize(b.pwd)
    BY <1>1, <2>1, BytesLen
  <2> QED
    BY <2>2, WhenLen, Zenon
<1>5. RegisterRequest_InternalSerialize(b) = w1 \o w2 \o w3 \o b.unknown
  BY DEF RegisterRequest_InternalSerialize
<1>6. RegisterRequest_ByteSizeLong(b) = k2 + k3 + k1 + Len(b.unknown)
  BY DEF RegisterRequest_ByteSizeLong
<1> HIDE DEF w1, w2, w3, k1, k2, k3
<1>7. w1 \o w2 \in Bytes /\ Len(w1 \o w2) = k1 + k2
  BY <1>2, <1>3, BytesJoined
<1>8. w1 \o w2 \o w3 \in Bytes /\ Len(w1 \o w2 \o w3) = k1 + k2 + k3
  BY <1>7, <1>4, BytesJoined
<1>9. /\ w1 \o w2 \o w3 \o b.unknown \in Bytes
      /\ Len(w1 \o w2 \o w3 \o b.unknown) = k1 + k2 + k3 + Len(b.unknown)
  BY <1>1, <1>8, BytesJoined
<1>10. Len(b.unknown) \in Nat /\ k1 \in Nat /\ k2 \in Nat /\ k3 \in Nat
  BY <1>1, <1>2, <1>3, <1>4, BytesAre
<1>11. k2 + k3 + k1 + Len(b.unknown) = k1 + k2 + k3 + Len(b.unknown)
  <2> DEFINE l == Len(b.unknown)
  <2>1. l \in Nat
    BY <1>10
  <2> HIDE DEF l
  <2>2. k2 + k3 + k1 + l = k1 + k2 + k3 + l
    BY <1>10, <2>1
  <2> QED
    BY <2>2 DEF l
<1> QED
  BY <1>5, <1>6, <1>9, <1>11, Zenon

(* GetFriendListRequest.                                                    *)
GetFriendListRequestOf(i, u) ==
    [type |-> "GetFriendListRequest", userid |-> i, unknown |-> u]

(* A GetFriendListRequest is its fields, and a field set is that field     *)
(* changed.                                                                *)
LEMMA GetFriendListRequestIs ==
  /\ \A m \in GetFriendListRequests : m = GetFriendListRequestOf(m.userid, m.unknown)
  /\ \A i, u, x :
        LET m == GetFriendListRequestOf(i, u)
        IN /\ m.userid = i /\ m.unknown = u
           /\ [m EXCEPT !["userid"] = x] = GetFriendListRequestOf(x, u)
           /\ [m EXCEPT !.unknown = x] = GetFriendListRequestOf(i, x)
  BY DEF GetFriendListRequestOf, GetFriendListRequests

(* The cases of the switch of GetFriendListRequest.                        *)
LEMMA GetFriendListRequestCases ==
  LET cases == GetFriendListRequest_InternalParse
  IN /\ 8 \in DOMAIN cases /\ cases[8] = AsNumber("userid")
     /\ \A tag \in DOMAIN cases : cases[tag].kind # "unknown"
  BY DEF GetFriendListRequest_InternalParse, AsNumber

(* MergeFrom of GetFriendListRequest, field by field.                      *)
LEMMA GetFriendListRequestMerged ==
  ASSUME NEW i, NEW u, NEW b
  PROVE  GetFriendListRequest_MergeFrom(GetFriendListRequestOf(i, u), b)
         = GetFriendListRequestOf(Either(b.userid # 0, b.userid, i),
                                  u \o b.unknown)
<1> DEFINE m == GetFriendListRequestOf(i, u)
           i1 == Either(b.userid # 0, b.userid, i)
           u1 == u \o b.unknown
<1>1. m.userid = i /\ m.unknown = u
  BY GetFriendListRequestIs
<1>2. GetFriendListRequest_MergeFrom(m, b) = [m EXCEPT !.unknown = u1, !.userid = i1]
  <2> HIDE DEF m
  <2> QED
    BY <1>1, Zenon DEF GetFriendListRequest_MergeFrom, Either
<1> HIDE DEF m, i1, u1
<1>3. GetFriendListRequest_MergeFrom(m, b)
      = [[m EXCEPT !.unknown = u1] EXCEPT !.userid = i1]
  BY <1>2
<1>4. [m EXCEPT !.unknown = u1] = GetFriendListRequestOf(i, u1)
  BY GetFriendListRequestIs DEF m
<1>5. [GetFriendListRequestOf(i, u1) EXCEPT !.userid = i1] = GetFriendListRequestOf(i1, u1)
  BY GetFriendListRequestIs
<1>6. GetFriendListRequest_MergeFrom(m, b) = GetFriendListRequestOf(i1, u1)
  BY <1>3, <1>4, <1>5, Zenon
<1> QED
  BY <1>6, Zenon DEF m, i1, u1

(* The bytes of a GetFriendListRequest take any other to the merge of the  *)
(* two.                                                                    *)
LEMMA GetFriendListRequestReads ==
  ASSUME NEW deep \in BOOLEAN, NEW m \in GetFriendListRequests, NEW b \in GetFriendListRequests
  PROVE  Reads(deep, GetFriendListRequest_InternalParse,
               GetFriendListRequest_InternalSerialize(b), m, GetFriendListRequest_MergeFrom(m, b))
<1> DEFINE cases == GetFriendListRequest_InternalParse
           i == m.userid
           u == m.unknown
           i1 == Either(b.userid # 0, b.userid, i)
           u1 == u \o b.unknown
           w1 == When(b.userid # 0, WriteUInt32(1, b.userid))
<1>1. /\ m = GetFriendListRequestOf(i, u) /\ u \in Bytes
      /\ b.userid \in Int32
      /\ b.unknown \in Strange(cases) /\ b.unknown \in Bytes
  BY GetFriendListRequestIs DEF GetFriendListRequests, Strange
<1>2. GetFriendListRequest_InternalSerialize(b) = w1 \o b.unknown
  BY DEF GetFriendListRequest_InternalSerialize
<1>3. GetFriendListRequest_MergeFrom(m, b) = GetFriendListRequestOf(i1, u1)
  BY <1>1, GetFriendListRequestMerged
<1> HIDE DEF cases, u, u1
<1>4. Reads(deep, cases, w1, GetFriendListRequestOf(i, u), GetFriendListRequestOf(i1, u))
  <2>1. 1 \in 1..3 /\ 8 \in Tags /\ 8 = 8 * 1
    BY DEF Tags
  <2>2. 8 \in DOMAIN cases /\ cases[8] = AsNumber("userid")
    BY GetFriendListRequestCases DEF cases
  <2>3. b.userid # 0 => [GetFriendListRequestOf(i, u) EXCEPT !["userid"] = b.userid] = GetFriendListRequestOf(i1, u)
    BY GetFriendListRequestIs DEF Either
  <2>4. ~(b.userid # 0) => GetFriendListRequestOf(i1, u) = GetFriendListRequestOf(i, u)
    BY DEF Either
  <2> HIDE DEF i, i1
  <2> QED
    BY <1>1, <2>1, <2>2, <2>3, <2>4, MaybeUInt32
<1> HIDE DEF w1, i, i1
<1>5. Reads(deep, cases, b.unknown, GetFriendListRequestOf(i1, u), GetFriendListRequestOf(i1, u1))
  <2> DEFINE msgs == [x \in Bytes |-> GetFriendListRequestOf(i1, x)]
  <2>1. \A x \in Bytes : msgs[x] = GetFriendListRequestOf(i1, x)
    OBVIOUS
  <2>2. \A x, y \in Bytes : msgs[x].unknown = x /\ [msgs[x] EXCEPT !.unknown = y] = msgs[y]
    BY <2>1, GetFriendListRequestIs
  <2> HIDE DEF msgs
  <2>3. Reads(deep, cases, b.unknown, msgs[u], msgs[u1])
    BY <1>1, <2>2, ReadsUnknown, GetFriendListRequestCases DEF cases, u1
  <2>4. u1 \in Bytes
    BY <1>1, BytesJoined DEF u1
  <2> QED
    BY <1>1, <2>1, <2>3, <2>4
<1>6. Reads(deep, cases, w1 \o b.unknown,
             GetFriendListRequestOf(i, u), GetFriendListRequestOf(i1, u1))
  BY <1>4, <1>5, ReadsBoth
<1> QED
  BY <1>1, <1>2, <1>3, <1>6 DEF cases

(* Clear leaves an empty GetFriendListRequest, into which another is       *)
(* merged as it is.                                                        *)
LEMMA GetFriendListRequestCopies ==
  ASSUME NEW a \in GetFriendListRequests, NEW b \in GetFriendListRequests
  PROVE  /\ GetFriendListRequest_Clear(a) = GetFriendListRequestOf(0, <<>>)
         /\ GetFriendListRequest_Clear(a) \in GetFriendListRequests
         /\ GetFriendListRequest_MergeFrom(GetFriendListRequest_Clear(a), b) = b
<1> DEFINE e == <<>>
           c == GetFriendListRequestOf(0, e)
<1>1. GetFriendListRequest_Clear(a) = c
  <2>1. GetFriendListRequest_Clear(a) = [a EXCEPT !.userid = 0, !.unknown = e]
    BY DEF GetFriendListRequest_Clear
  <2> HIDE DEF e, c
  <2>2. GetFriendListRequest_Clear(a)
        = [[a EXCEPT !.userid = 0] EXCEPT !.unknown = e]
    BY <2>1
  <2>3. a = GetFriendListRequestOf(a.userid, a.unknown)
    BY GetFriendListRequestIs
  <2>4. [GetFriendListRequestOf(a.userid, a.unknown) EXCEPT !.userid = 0]
        = GetFriendListRequestOf(0, a.unknown)
    BY GetFriendListRequestIs
  <2>5. [GetFriendListRequestOf(0, a.unknown) EXCEPT !.unknown = e] = c
    BY GetFriendListRequestIs DEF c
  <2> QED
    BY <2>2, <2>3, <2>4, <2>5, Zenon
<1>2. c \in GetFriendListRequests
  <2>1. e \in Strings /\ 0 \in Int32 /\ e \in Strange(GetFriendListRequest_InternalParse)
    BY NothingFits, NothingStrange
  <2> HIDE DEF e
  <2> QED
    BY <2>1 DEF GetFriendListRequests, GetFriendListRequestOf
<1>3. GetFriendListRequest_MergeFrom(c, b) = b
  <2> DEFINE i1 == Either(b.userid # 0, b.userid, 0)
  <2>1. GetFriendListRequest_MergeFrom(c, b) = GetFriendListRequestOf(i1, e \o b.unknown)
    <3> HIDE DEF e
    <3> QED
      BY GetFriendListRequestMerged
  <2>2. b.userid \in Int32 /\ b.unknown \in Bytes
    BY DEF GetFriendListRequests, Strange
  <2>3. i1 = b.userid
    BY <2>2, NotLonger DEF Either
  <2>4. e \o b.unknown = b.unknown
    BY <2>2, Joins
  <2> HIDE DEF c, i1
  <2>5. b = GetFriendListRequestOf(b.userid, b.unknown)
    BY GetFriendListRequestIs
  <2> QED
    BY <2>1, <2>3, <2>4, <2>5, Zenon
<1> QED
  BY <1>1, <1>2, <1>3

(* A GetFriendListRequest announces the number of bytes it writes.         *)
LEMMA GetFriendListRequestSize ==
  ASSUME NEW b \in GetFriendListRequests
  PROVE  /\ GetFriendListRequest_ByteSizeLong(b) = Len(GetFriendListRequest_InternalSerialize(b))
         /\ GetFriendListRequest_InternalSerialize(b) \in Bytes
<1> DEFINE w1 == When(b.userid # 0, WriteUInt32(1, b.userid))
           k1 == SizeWhen(b.userid # 0, 1 + VarintSize(b.userid))
<1>1. b.userid \in Int32 /\ b.unknown \in Bytes
  BY DEF GetFriendListRequests, Strange
<1>2. w1 \in Bytes /\ Len(w1) = k1
  <2>1. 1 \in 1..3
    OBVIOUS
  <2>2. WriteUInt32(1, b.userid) \in Bytes /\ Len(WriteUInt32(1, b.userid)) = 1 + VarintSize(b.userid)
    BY <1>1, <2>1, UInt32Len
  <2> QED
    BY <2>2, WhenLen, Zenon
<1>3. GetFriendListRequest_InternalSerialize(b) = w1 \o b.unknown
  BY DEF GetFriendListRequest_InternalSerialize
<1>4. GetFriendListRequest_ByteSizeLong(b) = k1 + Len(b.unknown)
  BY DEF GetFriendListRequest_ByteSizeLong
<1> HIDE DEF w1, k1
<1>5. w1 \o b.unknown \in Bytes /\ Len(w1 \o b.unknown) = k1 + Len(b.unknown)
  BY <1>1, <1>2, BytesJoined
<1>6. Len(b.unknown) \in Nat /\ k1 \in Nat
  BY <1>1, <1>2, BytesAre
<1>7. k1 + Len(b.unknown) = k1 + Len(b.unknown)
  <2> DEFINE l == Len(b.unknown)
  <2>1. l \in Nat
    BY <1>6
  <2> HIDE DEF l
  <2>2. k1 + l = k1 + l
    BY <1>6, <2>1
  <2> QED
    BY <2>2 DEF l
<1> QED
  BY <1>3, <1>4, <1>5, <1>7, Zenon

(* ResultCode.                                                              *)
ResultCodeOf(i, t, u) ==
    [type |-> "ResultCode", errcode |-> i, errmsg |-> t, unknown |-> u]

(* A ResultCode is its fields, and a field set is that field changed.      *)
LEMMA ResultCodeIs ==
  /\ \A m \in ResultCodes : m = ResultCodeOf(m.errcode, m.errmsg, m.unknown)
  /\ \A i, t, u, x :
        LET m == ResultCodeOf(i, t, u)
        IN /\ m.errcode = i /\ m.errmsg = t /\ m.unknown = u
           /\ [m EXCEPT !["errcode"] = x] = ResultCodeOf(x, t, u)
           /\ [m EXCEPT !["errmsg"] = x] = ResultCodeOf(i, x, u)
           /\ [m EXCEPT !.unknown = x] = ResultCodeOf(i, t, x)
  BY DEF ResultCodeOf, ResultCodes

(* The cases of the switch of ResultCode.                                  *)
LEMMA ResultCodeCases ==
  LET cases == ResultCode_InternalParse
  IN /\ 8 \in DOMAIN cases /\ cases[8] = AsNumber("errcode")
     /\ 18 \in DOMAIN cases /\ cases[18] = AsBytes("errmsg")
     /\ \A tag \in DOMAIN cases : cases[tag].kind # "unknown"
  BY DEF ResultCode_InternalParse, AsBytes, AsNumber

(* MergeFrom of ResultCode, field by field.                                *)
LEMMA ResultCodeMerged ==
  ASSUME NEW i, NEW t, NEW u, NEW b
  PROVE  ResultCode_MergeFrom(ResultCodeOf(i, t, u), b)
         = ResultCodeOf(Either(b.errcode # 0, b.errcode, i),
                        Either(Len(b.errmsg) > 0, b.errmsg, t),
                        u \o b.unknown)
<1> DEFINE m == ResultCodeOf(i, t, u)
           i1 == Either(b.errcode # 0, b.errcode, i)
           t1 == Either(Len(b.errmsg) > 0, b.errmsg, t)
           u1 == u \o b.unknown
<1>1. m.errcode = i /\ m.errmsg = t /\ m.unknown = u
  BY ResultCodeIs
<1>2. ResultCode_MergeFrom(m, b) = [m EXCEPT !.unknown = u1, !.errmsg = t1, !.errcode = i1]
  <2> HIDE DEF m
  <2> QED
    BY <1>1, Zenon DEF ResultCode_MergeFrom, Either
<1> HIDE DEF m, i1, t1, u1
<1>3. ResultCode_MergeFrom(m, b)
      = [[[m EXCEPT !.unknown = u1] EXCEPT !.errmsg = t1] EXCEPT !.errcode = i1]
  BY <1>2
<1>4. [m EXCEPT !.unknown = u1] = ResultCodeOf(i, t, u1)
  BY ResultCodeIs DEF m
<1>5. [ResultCodeOf(i, t, u1) EXCEPT !.errmsg = t1] = ResultCodeOf(i, t1, u1)
  BY ResultCodeIs
<1>6. [ResultCodeOf(i, t1, u1) EXCEPT !.errcode = i1] = ResultCodeOf(i1, t1, u1)
  BY ResultCodeIs
<1>7. ResultCode_MergeFrom(m, b) = ResultCodeOf(i1, t1, u1)
  BY <1>3, <1>4, <1>5, <1>6, Zenon
<1> QED
  BY <1>7, Zenon DEF m, i1, t1, u1

(* The bytes of a ResultCode take any other to the merge of the two.       *)
LEMMA ResultCodeReads ==
  ASSUME NEW deep \in BOOLEAN, NEW m \in ResultCodes, NEW b \in ResultCodes
  PROVE  Reads(deep, ResultCode_InternalParse,
               ResultCode_InternalSerialize(b), m, ResultCode_MergeFrom(m, b))
<1> DEFINE cases == ResultCode_InternalParse
           i == m.errcode
           t == m.errmsg
           u == m.unknown
           i1 == Either(b.errcode # 0, b.errcode, i)
           t1 == Either(Len(b.errmsg) > 0, b.errmsg, t)
           u1 == u \o b.unknown
           w1 == When(b.errcode # 0, WriteInt32(1, b.errcode))
           w2 == When(Len(b.errmsg) > 0, WriteBytes(2, b.errmsg))
<1>1. /\ m = ResultCodeOf(i, t, u) /\ u \in Bytes
      /\ b.errcode \in Int32 /\ b.errmsg \in Strings
      /\ b.unknown \in Strange(cases) /\ b.unknown \in Bytes
  BY ResultCodeIs DEF ResultCodes, Strange
<1>2. ResultCode_InternalSerialize(b) = w1 \o w2 \o b.unknown
  BY DEF ResultCode_InternalSerialize
<1>3. ResultCode_MergeFrom(m, b) = ResultCodeOf(i1, t1, u1)
  BY <1>1, ResultCodeMerged
<1> HIDE DEF cases, u, u1
<1>4. Reads(deep, cases, w1, ResultCodeOf(i, t, u), ResultCodeOf(i1, t, u))
  <2>1. 1 \in 1..3 /\ 8 \in Tags /\ 8 = 8 * 1
    BY DEF Tags
  <2>2. 8 \in DOMAIN cases /\ cases[8] = AsNumber("errcode")
    BY ResultCodeCases DEF cases
  <2>3. b.errcode # 0 => [ResultCodeOf(i, t, u) EXCEPT !["errcode"] = b.errcode] = ResultCodeOf(i1, t, u)
    BY ResultCodeIs DEF Either
  <2>4. ~(b.errcode # 0) => ResultCodeOf(i1, t, u) = ResultCodeOf(i, t, u)
    BY DEF Either
  <2> HIDE DEF i, t, i1, t1
  <2> QED
    BY <1>1, <2>1, <2>2, <2>3, <2>4, MaybeInt32
<1>5. Reads(deep, cases, w2, ResultCodeOf(i1, t, u), ResultCodeOf(i1, t1, u))
  <2>1. 2 \in 1..3 /\ 18 \in Tags /\ 18 = 8 * 2 + 2
    BY DEF Tags
  <2>2. 18 \in DOMAIN cases /\ cases[18] = AsBytes("errmsg")
    BY ResultCodeCases DEF cases
  <2>3. Len(b.errmsg) > 0 => [ResultCodeOf(i1, t, u) EXCEPT !["errmsg"] = b.errmsg] = ResultCodeOf(i1, t1, u)
    BY ResultCodeIs DEF Either
  <2>4. ~(Len(b.errmsg) > 0) => ResultCodeOf(i1, t1, u) = ResultCodeOf(i1, t, u)
    BY DEF Either
  <2> HIDE DEF i, t, i1, t1
  <2> QED
    BY <1>1, <2>1, <2>2, <2>3, <2>4, MaybeBytes
<1> HIDE DEF w1, w2, i, t, i1, t1
<1>6. Reads(deep, cases, b.unknown, ResultCodeOf(i1, t1, u), ResultCodeOf(i1, t1, u1))
  <2> DEFINE msgs == [x \in Bytes |-> ResultCodeOf(i1, t1, x)]
  <2>1. \A x \in Bytes : msgs[x] = ResultCodeOf(i1, t1, x)
    OBVIOUS
  <2>2. \A x, y \in Bytes : msgs[x].unknown = x /\ [msgs[x] EXCEPT !.unknown = y] = msgs[y]
    BY <2>1, ResultCodeIs
  <2> HIDE DEF msgs
  <2>3. Reads(deep, cases, b.unknown, msgs[u], msgs[u1])
    BY <1>1, <2>2, ReadsUnknown, ResultCodeCases DEF cases, u1
  <2>4. u1 \in Bytes
    BY <1>1, BytesJoined DEF u1
  <2> QED
    BY <1>1, <2>1, <2>3, <2>4
<1>7. Reads(deep, cases, w1 \o w2 \o b.unknown, ResultCodeOf(i, t, u), ResultCodeOf(i1, t1, u1))
  <2>1. Reads(deep, cases, w1 \o w2, ResultCodeOf(i, t, u), ResultCodeOf(i1, t1, u))
    BY <1>4, <1>5, ReadsBoth
  <2> QED
    BY <2>1, <1>6, ReadsBoth
<1> QED
  BY <1>1, <1>2, <1>3, <1>7 DEF cases

(* Clear leaves an empty ResultCode, into which another is merged as it    *)
(* is.                                                                     *)
LEMMA ResultCodeCopies ==
  ASSUME NEW a \in ResultCodes, NEW b \in ResultCodes
  PROVE  /\ ResultCode_Clear(a) = ResultCodeOf(0, <<>>, <<>>)
         /\ ResultCode_Clear(a) \in ResultCodes
         /\ ResultCode_MergeFrom(ResultCode_Clear(a), b) = b
<1> DEFINE e == <<>>
           c == ResultCodeOf(0, e, e)
<1>1. ResultCode_Clear(a) = c
  <2>1. ResultCode_Clear(a) = [a EXCEPT !.errmsg = e, !.errcode = 0, !.unknown = e]
    BY DEF ResultCode_Clear
  <2> HIDE DEF e, c
  <2>2. ResultCode_Clear(a)
        = [[[a EXCEPT !.errmsg = e] EXCEPT !.errcode = 0] EXCEPT !.unknown = e]
    BY <2>1
  <2>3. a = ResultCodeOf(a.errcode, a.errmsg, a.unknown)
    BY ResultCodeIs
  <2>4. [ResultCodeOf(a.errcode, a.errmsg, a.unknown) EXCEPT !.errmsg = e]
        = ResultCodeOf(a.errcode, e, a.unknown)
    BY ResultCodeIs
  <2>5. [ResultCodeOf(a.errcode, e, a.unknown) EXCEPT !.errcode = 0]
        = ResultCodeOf(0, e, a.unknown)
    BY ResultCodeIs
  <2>6. [ResultCodeOf(0, e, a.unknown) EXCEPT !.unknown = e] = c
    BY ResultCodeIs DEF c
  <2> QED
    BY <2>2, <2>3, <2>4, <2>5, <2>6, Zenon
<1>2. c \in ResultCodes
  <2>1. e \in Strings /\ 0 \in Int32 /\ e \in Strange(ResultCode_InternalParse)
    BY NothingFits, NothingStrange
  <2>2. ResultCode_InternalSerialize(c) = e
    <3>1. c.errcode = 0 /\ c.errmsg = e /\ c.unknown = e
      BY ResultCodeIs
    <3>2. ~(0 # 0) /\ ~(Len(e) > 0)
      BY DEF e
    <3> HIDE DEF c
    <3>3. ResultCode_InternalSerialize(c) = <<>> \o <<>> \o e
      BY <3>1, <3>2, Zenon DEF ResultCode_InternalSerialize, When
    <3>4. <<>> \o <<>> = <<>> /\ <<>> \o e = e
      BY Joins DEF e
    <3> QED
      BY <3>3, <3>4, Zenon
  <2>3. Len(e) \in Int31
    BY NothingFits DEF Strings
  <2> HIDE DEF e
  <2> QED
    BY <2>1, <2>2, <2>3 DEF ResultCodes, ResultCodeOf
<1>3. ResultCode_MergeFrom(c, b) = b
  <2> DEFINE i1 == Either(b.errcode # 0, b.errcode, 0)
             t1 == Either(Len(b.errmsg) > 0, b.errmsg, e)
  <2>1. ResultCode_MergeFrom(c, b) = ResultCodeOf(i1, t1, e \o b.unknown)
    <3> HIDE DEF e
    <3> QED
      BY ResultCodeMerged
  <2>2. b.errcode \in Int32 /\ b.errmsg \in Strings /\ b.unknown \in Bytes
    BY DEF ResultCodes, Strange
  <2>3. i1 = b.errcode /\ t1 = b.errmsg
    BY <2>2, NotLonger DEF Either
  <2>4. e \o b.unknown = b.unknown
    BY <2>2, Joins
  <2> HIDE DEF c, i1, t1
  <2>5. b = ResultCodeOf(b.errcode, b.errmsg, b.unknown)
    BY ResultCodeIs
  <2> QED
    BY <2>1, <2>3, <2>4, <2>5, Zenon
<1> QED
  BY <1>1, <1>2, <1>3

(* A ResultCode announces the number of bytes it writes.                   *)
LEMMA ResultCodeSize ==
  ASSUME NEW b \in ResultCodes
  PROVE  /\ ResultCode_ByteSizeLong(b) = Len(ResultCode_InternalSerialize(b))
         /\ ResultCode_InternalSerialize(b) \in Bytes
<1> DEFINE w1 == When(b.errcode # 0, WriteInt32(1, b.errcode))
           w2 == When(Len(b.errmsg) > 0, WriteBytes(2, b.errmsg))
           k1 == SizeWhen(b.errcode # 0, 1 + Int32Size(b.errcode))
           k2 == SizeWhen(Len(b.errmsg) > 0, 1 + BytesSize(b.errmsg))
<1>1. b.errcode \in Int32 /\ b.errmsg \in Strings /\ b.unknown \in Bytes
  BY DEF ResultCodes, Strange
<1>2. w1 \in Bytes /\ Len(w1) = k1
  <2>1. 1 \in 1..3
    OBVIOUS
  <2>2. WriteInt32(1, b.errcode) \in Bytes /\ Len(WriteInt32(1, b.errcode)) = 1 + Int32Size(b.errcode)
    BY <1>1, <2>1, Int32Len
  <2> QED
    BY <2>2, WhenLen, Zenon
<1>3. w2 \in Bytes /\ Len(w2) = k2
  <2>1. 2 \in 1..3
    OBVIOUS
  <2>2. WriteBytes(2, b.errmsg) \in Bytes /\ Len(WriteBytes(2, b.errmsg)) = 1 + BytesSize(b.errmsg)
    BY <1>1, <2>1, BytesLen
  <2> QED
    BY <2>2, WhenLen, Zenon
<1>4. ResultCode_InternalSerialize(b) = w1 \o w2 \o b.unknown
  BY DEF ResultCode_InternalSerialize
<1>5. ResultCode_ByteSizeLong(b) = k2 + k1 + Len(b.unknown)
  BY DEF ResultCode_ByteSizeLong
<1> HIDE DEF w1, w2, k1, k2
<1>6. w1 \o w2 \in Bytes /\ Len(w1 \o w2) = k1 + k2
  BY <1>2, <1>3, BytesJoined
<1>7. w1 \o w2 \o b.unknown \in Bytes /\ Len(w1 \o w2 \o b.unknown) = k1 + k2 + Len(b.unknown)
  BY <1>1, <1>6, BytesJoined
<1>8. Len(b.unknown) \in Nat /\ k1 \in Nat /\ k2 \in Nat
  BY <1>1, <1>2, <1>3, BytesAre
<1>9. k2 + k1 + Len(b.unknown) = k1 + k2 + Len(b.unknown)
  <2> DEFINE l == Len(b.unknown)
  <2>1. l \in Nat
    BY <1>8
  <2> HIDE DEF l
  <2>2. k2 + k1 + l = k1 + k2 + l
    BY <1>8, <2>1
  <2> QED
    BY <2>2 DEF l
<1> QED
  BY <1>4, <1>5, <1>7, <1>9, Zenon

-----------------------------------------------------------------------------
(* Messages inside messages                                                *)

(* Both classes of that name are the same.                                 *)
LEMMA FriendResultCodeIs ==
  /\ FriendResultCode = ResultCode /\ FriendResultCode_InternalParse = ResultCode_InternalParse
  /\ FriendResultCodes = ResultCodes
  /\ \A m : /\ FriendResultCode_InternalSerialize(m) = ResultCode_InternalSerialize(m)
            /\ FriendResultCode_ByteSizeLong(m) = ResultCode_ByteSizeLong(m)
  /\ \A m, from : FriendResultCode_MergeFrom(m, from) = ResultCode_MergeFrom(m, from)
<1>1. FriendResultCode = ResultCode
  BY DEF FriendResultCode, ResultCode
<1>2. FriendResultCode_InternalParse = ResultCode_InternalParse
  BY Zenon DEF FriendResultCode_InternalParse, ResultCode_InternalParse
<1>3. \A m : FriendResultCode_InternalSerialize(m) = ResultCode_InternalSerialize(m)
  BY Zenon DEF FriendResultCode_InternalSerialize, ResultCode_InternalSerialize
<1>4. \A m : FriendResultCode_ByteSizeLong(m) = ResultCode_ByteSizeLong(m)
  BY Zenon DEF FriendResultCode_ByteSizeLong, ResultCode_ByteSizeLong
<1>5. \A m, from : FriendResultCode_MergeFrom(m, from) = ResultCode_MergeFrom(m, from)
  BY Zenon DEF FriendResultCode_MergeFrom, ResultCode_MergeFrom
<1>6. FriendResultCodes = ResultCodes
  BY <1>2, <1>3, Zenon DEF FriendResultCodes, ResultCodes
<1> QED
  BY <1>1, <1>2, <1>3, <1>4, <1>5, <1>6

(* A ResultCode that has just been made takes what it is given.            *)
LEMMA ResultCodeNew ==
  ASSUME NEW c \in ResultCodes
  PROVE  ResultCode \in ResultCodes /\ ResultCode_MergeFrom(ResultCode, c) = c
<1>1. ResultCode = ResultCode_Clear(c)
  <2>1. ResultCode = ResultCodeOf(0, <<>>, <<>>)
    BY DEF ResultCode, ResultCodeOf
  <2> QED
    BY <2>1, ResultCodeCopies
<1> QED
  BY <1>1, ResultCodeCopies

(* A ResultCode as the field of another message: its bytes are merged into *)
(* what the field holds.                                                   *)
LEMMA ResultCodeInside ==
  ASSUME NEW there \in ResultCodes, NEW c \in ResultCodes
  PROVE  ParseNested(ResultCode_InternalParse, there, ResultCode_InternalSerialize(c))
         = Begin(ResultCode_MergeFrom(there, c))
<1> DEFINE no == FALSE
           cases == ResultCode_InternalParse
           t == ResultCode_InternalSerialize(c)
           m1 == ResultCode_MergeFrom(there, c)
<1>1. no \in BOOLEAN /\ ~no
  OBVIOUS
<1> HIDE DEF no
<1>2. Reads(no, cases, t, there, m1)
  BY <1>1, ResultCodeReads
<1> HIDE DEF cases, t, m1
<1>3. t \in Bytes /\ <<>> \in Bytes /\ t \o <<>> = t
  BY <1>2, Joins DEF Reads
<1>4. Parse(no, cases, there, t \o <<>>) = Parse(no, cases, m1, <<>>)
  BY <1>2, <1>3 DEF Reads
<1>5. Parse(no, cases, m1, <<>>) = Begin(m1)
  BY <1>1, ParseEnd
<1>6. Parse(no, cases, there, t) = ParseNested(cases, there, t)
  BY <1>1 DEF Parse
<1>7. ParseNested(cases, there, t) = Begin(m1)
  BY <1>3, <1>4, <1>5, <1>6, Zenon
<1> QED
  BY <1>7 DEF cases, t, m1

(* A field of a nested message: parsing goes on from what is there.        *)
ThereIn(m, field, new) == IF m[field] = <<>> THEN new ELSE m[field][1]

(* A message in a field: its length and its bytes are one turn, which      *)
(* merges them into the field's message or into a new one.                 *)
LEMMA ReadsMessage ==
  ASSUME NEW deep \in BOOLEAN, deep, NEW cases, NEW number \in 1..3, NEW tag \in Tags,
         tag = 8 * number + 2, tag \in DOMAIN cases, NEW field, NEW new, NEW inside,
         cases[tag] = AsMessage(field, new, inside), NEW t \in Strings, NEW m, NEW c,
         ParseNested(inside, ThereIn(m, field, new), t) = Begin(c)
  PROVE  Reads(deep, cases, WriteMessage(number, Len(t), t), m, [m EXCEPT ![field] = <<c>>])
<1> DEFINE how == AsMessage(field, new, inside)
           m1 == [m EXCEPT ![field] = <<c>>]
           inner == IF deep THEN InnerOf(m, how, t) ELSE NoMessage
<1>1. how.kind = "message" /\ how.field = field /\ how.new = new /\ how.cases = inside
  BY DEF AsMessage
<1>2. how.kind \notin {"number", "bool"}
  BY <1>1
<1> HIDE DEF how
<1>3. inner = Begin(c)
  BY <1>1, Zenon DEF InnerOf, ThereIn
<1> HIDE DEF inner
<1>4. Store(m, how, t, inner) = Begin(m1)
  <2>1. Begin(c).ok = TRUE /\ Begin(c).msg = c
    BY DEF Begin
  <2>2. Store(m, how, t, inner) = StoreMessage(m, field, inner)
    BY <1>1 DEF Store
  <2> QED
    BY <1>3, <2>1, <2>2, Zenon DEF StoreMessage, Begin
<1> USE DEF inner
<1> HIDE DEF m1
<1>5. Reads(deep, cases, Varint[tag] \o Varint[Len(t)] \o t, m, m1)
  <2>1. cases[tag] = how
    BY DEF how
  <2> QED
    BY <1>2, <1>4, <2>1, ReadsLength
<1> QED
  BY <1>5 DEF WriteMessage, m1

(* The result that a response points to, or the default.                   *)
There(r) == IF r = <<>> THEN ResultCode ELSE r[1]

(* A result is a ResultCode or none.                                       *)
LEMMA ResultsAre == \A r \in Results : r # <<>> => r[1] \in ResultCodes /\ r = <<r[1]>>
<1> SUFFICES ASSUME NEW r \in Results, r # <<>> PROVE r[1] \in ResultCodes /\ r = <<r[1]>>
  OBVIOUS
<1>1. r \in Seq(ResultCodes) /\ Len(r) <= 1 /\ Len(r) \in Nat
  BY DEF Results
<1>2. Len(r) = 1
  <2>1. Len(r) # 0
    BY <1>1, EmptySeq, Zenon
  <2> DEFINE l == Len(r)
  <2>2. l \in Nat /\ l <= 1 /\ l # 0
    BY <1>1, <2>1
  <2> HIDE DEF l
  <2>3. l = 1
    BY <2>2
  <2> QED
    BY <2>3 DEF l
<1> QED
  BY <1>1, <1>2

(* What is behind the pointer is merged, when there is something to merge. *)
MergedResult(r, from) ==
    Either(from # <<>>, <<ResultCode_MergeFrom(There(r), from[1])>>, r)

(* A result merged into none is that result.                               *)
LEMMA NewResult == \A r \in Results : MergedResult(<<>>, r) = r
<1> SUFFICES ASSUME NEW r \in Results PROVE MergedResult(<<>>, r) = r
  OBVIOUS
<1>1. CASE r = <<>>
  BY <1>1 DEF MergedResult, Either
<1>2. CASE r # <<>>
  <2>1. r[1] \in ResultCodes /\ r = <<r[1]>>
    BY <1>2, ResultsAre
  <2>2. ResultCode_MergeFrom(ResultCode, r[1]) = r[1]
    BY <2>1, ResultCodeNew
  <2>3. There(<<>>) = ResultCode
    BY DEF There
  <2>4. MergedResult(<<>>, r) = <<ResultCode_MergeFrom(There(<<>>), r[1])>>
    BY <1>2, Zenon DEF MergedResult, Either
  <2> QED
    BY <2>1, <2>2, <2>3, <2>4, Zenon
<1> QED
  BY <1>1, <1>2

WrittenResult(r) ==
    When(r # <<>>, WriteMessage(1, ResultCode_ByteSizeLong(There(r)), ResultCode_InternalSerialize(There(r))))

(* A ResultCode written into the field result, read back and merged into   *)
(* it.                                                                     *)
LEMMA ReadsResultCode ==
  ASSUME NEW deep \in BOOLEAN, deep, NEW cases, 10 \in DOMAIN cases,
         cases[10] = AsMessage("result", ResultCode, ResultCode_InternalParse),
         NEW c \in ResultCodes, NEW m, There(m["result"]) \in ResultCodes, NEW c1,
         c1 = ResultCode_MergeFrom(There(m["result"]), c)
  PROVE  Reads(deep, cases,
               WriteMessage(1, ResultCode_ByteSizeLong(c), ResultCode_InternalSerialize(c)),
               m, [m EXCEPT !["result"] = <<c1>>])
<1> DEFINE t == ResultCode_InternalSerialize(c)
           new == ResultCode
           inside == ResultCode_InternalParse
           field == "result"
           tag == 10
           number == 1
<1>1. t \in Strings /\ ResultCode_ByteSizeLong(c) = Len(t)
  BY ResultCodeSize DEF Strings, ResultCodes
<1>2. ParseNested(inside, There(m[field]), t) = Begin(c1)
  BY ResultCodeInside
<1>3. ThereIn(m, field, new) = There(m[field])
  BY Zenon DEF There, ThereIn
<1>4. ParseNested(inside, ThereIn(m, field, new), t) = Begin(c1)
  <2> HIDE DEF t, new, inside, field
  <2> QED
    BY <1>2, <1>3, Zenon
<1>5. tag \in Tags /\ tag = 8 * number + 2 /\ number \in 1..3
  BY DEF Tags
<1>6. tag \in DOMAIN cases /\ cases[tag] = AsMessage(field, new, inside)
  OBVIOUS
<1> HIDE DEF t, new, inside, field, tag, number
<1>7. Reads(deep, cases, WriteMessage(number, Len(t), t), m, [m EXCEPT ![field] = <<c1>>])
  BY <1>1, <1>4, <1>5, <1>6, ReadsMessage
<1> QED
  BY <1>1, <1>7, Zenon DEF t, field, number

(* The field result, written only when it is there.                        *)
LEMMA ReadsResult ==
  ASSUME NEW deep \in BOOLEAN, deep, NEW cases, 10 \in DOMAIN cases,
         cases[10] = AsMessage("result", ResultCode, ResultCode_InternalParse),
         NEW r \in Results, NEW m, NEW old \in Results, m["result"] = old, NEW m1,
         r # <<>> => [m EXCEPT !["result"] = MergedResult(old, r)] = m1, r = <<>> => m1 = m
  PROVE  Reads(deep, cases, WrittenResult(r), m, m1)
<1> DEFINE c == There(r)
           c1 == ResultCode_MergeFrom(There(old), c)
           w == WriteMessage(1, ResultCode_ByteSizeLong(c), ResultCode_InternalSerialize(c))
<1>1. ASSUME r # <<>> PROVE Reads(deep, cases, w, m, m1)
  <2>1. c \in ResultCodes /\ c = r[1]
    BY <1>1, ResultsAre DEF There
  <2>2. There(m["result"]) \in ResultCodes
    BY <2>1, ResultsAre, ResultCodeNew DEF There
  <2>3. MergedResult(old, r) = <<c1>>
    BY <1>1, <2>1, Zenon DEF MergedResult, Either
  <2>4. c1 = ResultCode_MergeFrom(There(m["result"]), c)
    OBVIOUS
  <2>5. [m EXCEPT !["result"] = <<c1>>] = m1
    <3> HIDE DEF c1
    <3> QED
      BY <1>1, <2>3, Zenon
  <2> HIDE DEF c, c1
  <2>6. Reads(deep, cases, w, m, [m EXCEPT !["result"] = <<c1>>])
    BY <2>1, <2>2, <2>4, ReadsResultCode, Zenon
  <2> QED
    BY <2>5, <2>6, Zenon
<1> HIDE DEF w
<1>2. (r # <<>>) \in BOOLEAN
  OBVIOUS
<1>3. Reads(deep, cases, When(r # <<>>, w), m, m1)
  BY <1>1, <1>2, ReadsWhen
<1> QED
  BY <1>3 DEF w, WrittenResult

(* The result takes its tag, its length and the size announced for it.     *)
LEMMA ResultLen ==
  ASSUME NEW r \in Results
  PROVE  LET size == ResultCode_ByteSizeLong(There(r))
         IN /\ WrittenResult(r) \in Bytes
            /\ Len(WrittenResult(r)) = SizeWhen(r # <<>>, 1 + VarintSize(size) + size)
<1> DEFINE c == There(r)
           t == ResultCode_InternalSerialize(c)
           size == ResultCode_ByteSizeLong(c)
           w == WriteMessage(1, size, t)
           k == 1 + VarintSize(size) + size
<1>1. CASE r # <<>>
  <2>1. c \in ResultCodes
    BY <1>1, ResultsAre DEF There
  <2>2. t \in Strings /\ size = Len(t)
    BY <2>1, ResultCodeSize DEF Strings, ResultCodes
  <2>3. WriteMessage(1, Len(t), t) = WriteBytes(1, t)
    BY DEF WriteMessage, WriteBytes
  <2>4. 1 \in 1..3
    OBVIOUS
  <2>5. w \in Bytes /\ Len(w) = 1 + BytesSize(t)
    <3> HIDE DEF t, size
    <3> QED
      BY <2>2, <2>3, <2>4, BytesLen
  <2>6. BytesSize(t) = VarintSize(size) + size
    BY <2>2, Zenon DEF BytesSize
  <2>7. VarintSize(size) \in 1..5 /\ size \in Nat
    <3>1. size \in Int31
      BY <2>2 DEF Strings
    <3> HIDE DEF size
    <3>2. size \in Nat
      BY <3>1, SMT DEF Int31
    <3> QED
      BY <3>1, <3>2, SizeIs
  <2>8. Len(w) = k
    <3> HIDE DEF size, t, w
    <3> QED
      BY <2>5, <2>6, <2>7
  <2> HIDE DEF w, k
  <2>9. When(r # <<>>, w) = w /\ SizeWhen(r # <<>>, k) = k
    BY <1>1 DEF When, SizeWhen
  <2> QED
    BY <2>5, <2>8, <2>9 DEF w, k, WrittenResult
<1>2. CASE r = <<>>
  <2>1. When(r # <<>>, w) = <<>> /\ SizeWhen(r # <<>>, k) = 0
    <3> HIDE DEF w, k
    <3> QED
      BY <1>2 DEF When, SizeWhen
  <2>2. <<>> \in Bytes /\ Len(<<>>) = 0
    BY Joins
  <2> QED
    BY <2>1, <2>2, Zenon DEF WrittenResult
<1> QED
  BY <1>1, <1>2

(* A bool takes its tag and one byte.                                      *)
LEMMA BoolLen ==
  ASSUME NEW v \in BOOLEAN
  PROVE  WriteBool(2, v) \in Bytes /\ Len(WriteBool(2, v)) = 1 + 1
<1> DEFINE t == <<IF v THEN 1 ELSE 0>>
<1>1. (IF v THEN 1 ELSE 0) \in 0..255
  OBVIOUS
<1>2. t \in Bytes /\ Len(t) = 1
  BY <1>1, Byte
<1>3. 2 \in 1..3
  OBVIOUS
<1> HIDE DEF t
<1>4. Varint[8 * 2] \o t \in Bytes /\ Len(Varint[8 * 2] \o t) = 1 + Len(t)
  BY <1>2, <1>3, NumberLen
<1> QED
  BY <1>2, <1>4 DEF WriteBool, t

(* LoginResponse.                                                           *)
LoginResponseOf(r, s, u) == [type |-> "LoginResponse", result |-> r, success |-> s, unknown |-> u]

(* A LoginResponse is its fields, and a field set is that field changed.   *)
LEMMA LoginResponseIs ==
  /\ \A m \in LoginResponses : m = LoginResponseOf(m.result, m.success, m.unknown)
  /\ \A r, s, u, x :
        LET m == LoginResponseOf(r, s, u)
        IN /\ m.result = r /\ m.success = s /\ m.unknown = u /\ m["result"] = r
           /\ [m EXCEPT !["result"] = x] = LoginResponseOf(x, s, u)
           /\ [m EXCEPT !["success"] = x] = LoginResponseOf(r, x, u)
           /\ [m EXCEPT !.unknown = x] = LoginResponseOf(r, s, x)
  BY DEF LoginResponseOf, LoginResponses

(* The cases of the switch of LoginResponse.                               *)
LEMMA LoginResponseCases ==
  LET cases == LoginResponse_InternalParse
  IN /\ 10 \in DOMAIN cases /\ cases[10] = AsMessage("result", ResultCode, ResultCode_InternalParse)
     /\ 16 \in DOMAIN cases /\ cases[16] = AsBool("success")
     /\ \A tag \in DOMAIN cases : cases[tag].kind # "unknown"
<1> DEFINE message == AsMessage("result", ResultCode, ResultCode_InternalParse)
<1>1. message.kind = "message"
  BY DEF AsMessage
<1> HIDE DEF message
<1>2. LoginResponse_InternalParse
      = [tag \in {10, 16} |-> CASE tag = 10 -> message [] tag = 16 -> AsBool("success")]
  BY Zenon DEF LoginResponse_InternalParse, message
<1> QED
  BY <1>1, <1>2 DEF AsBool, message

(* MergeFrom of LoginResponse, field by field.                             *)
LEMMA LoginResponseMerged ==
  ASSUME NEW r, NEW s, NEW u, NEW b
  PROVE  LoginResponse_MergeFrom(LoginResponseOf(r, s, u), b)
         = LoginResponseOf(MergedResult(r, b.result), Either(b.success, b.success, s), u \o b.unknown)
<1> DEFINE m == LoginResponseOf(r, s, u)
           r1 == MergedResult(r, b.result)
           s1 == Either(b.success, b.success, s)
           u1 == u \o b.unknown
<1>1. m.result = r /\ m.success = s /\ m.unknown = u
  BY LoginResponseIs
<1>2. LoginResponse_MergeFrom(m, b) = [m EXCEPT !.unknown = u1, !.result = r1, !.success = s1]
  <2> DEFINE there == LoginResponse_result(m)
  <2>1. there = There(r)
    <3> HIDE DEF m
    <3> QED
      BY <1>1, Zenon DEF LoginResponse_result, There
  <2>2. r1 = IF b.result = <<>> THEN m.result
             ELSE <<ResultCode_MergeFrom(there, b.result[1])>>
    <3> HIDE DEF m, there
    <3> QED
      BY <1>1, <2>1 DEF MergedResult, Either
  <2>3. s1 = IF b.success THEN b.success ELSE m.success
    BY <1>1 DEF Either
  <2> HIDE DEF m, r1, s1
  <2> QED
    BY <1>1, <2>2, <2>3, Zenon DEF LoginResponse_MergeFrom
<1> HIDE DEF m, r1, s1, u1
<1>3. LoginResponse_MergeFrom(m, b)
      = [[[m EXCEPT !.unknown = u1] EXCEPT !.result = r1] EXCEPT !.success = s1]
  BY <1>2
<1>4. [m EXCEPT !.unknown = u1] = LoginResponseOf(r, s, u1)
  BY LoginResponseIs DEF m
<1>5. [LoginResponseOf(r, s, u1) EXCEPT !.result = r1] = LoginResponseOf(r1, s, u1)
  BY LoginResponseIs
<1>6. [LoginResponseOf(r1, s, u1) EXCEPT !.success = s1] = LoginResponseOf(r1, s1, u1)
  BY LoginResponseIs
<1>7. LoginResponse_MergeFrom(m, b) = LoginResponseOf(r1, s1, u1)
  BY <1>3, <1>4, <1>5, <1>6, Zenon
<1> QED
  BY <1>7, Zenon DEF m, r1, s1, u1

(* The bytes of a LoginResponse, field after field.                        *)
LEMMA LoginResponseWritten ==
  ASSUME NEW b
  PROVE  LoginResponse_InternalSerialize(b)
         = WrittenResult(b.result) \o When(b.success, WriteBool(2, b.success)) \o b.unknown
<1>1. LoginResponse_result(b) = There(b.result)
  BY Zenon DEF LoginResponse_result, There
<1> QED
  BY <1>1, Zenon DEF LoginResponse_InternalSerialize, WrittenResult

(* The bytes of a LoginResponse take any other to the merge of the two.    *)
LEMMA LoginResponseReads ==
  ASSUME NEW deep \in BOOLEAN, deep, NEW m \in LoginResponses, NEW b \in LoginResponses
  PROVE  Reads(deep, LoginResponse_InternalParse,
               LoginResponse_InternalSerialize(b), m, LoginResponse_MergeFrom(m, b))
<1> DEFINE cases == LoginResponse_InternalParse
           r == m.result
           s == m.success
           u == m.unknown
           r1 == MergedResult(r, b.result)
           s1 == Either(b.success, b.success, s)
           u1 == u \o b.unknown
           w1 == WrittenResult(b.result)
           w2 == When(b.success, WriteBool(2, b.success))
<1>1. /\ m = LoginResponseOf(r, s, u) /\ u \in Bytes /\ r \in Results
      /\ b.result \in Results /\ b.success \in BOOLEAN
      /\ b.unknown \in Strange(cases) /\ b.unknown \in Bytes
  BY LoginResponseIs DEF LoginResponses, Strange
<1>2. LoginResponse_InternalSerialize(b) = w1 \o w2 \o b.unknown
  BY LoginResponseWritten
<1>3. LoginResponse_MergeFrom(m, b) = LoginResponseOf(r1, s1, u1)
  BY <1>1, LoginResponseMerged
<1> HIDE DEF cases, u, u1, r
<1>4. Reads(deep, cases, w1, LoginResponseOf(r, s, u), LoginResponseOf(r1, s, u))
  <2> DEFINE m0 == LoginResponseOf(r, s, u)
             m1 == LoginResponseOf(r1, s, u)
  <2>1. 10 \in DOMAIN cases /\ cases[10] = AsMessage("result", ResultCode, ResultCode_InternalParse)
    BY LoginResponseCases DEF cases
  <2>2. [m0 EXCEPT !["result"] = r1] = m1 /\ m0["result"] = r
    BY LoginResponseIs
  <2>3. b.result = <<>> => m1 = m0
    BY DEF MergedResult, Either
  <2> HIDE DEF s, m0, m1
  <2>4. Reads(deep, cases, w1, m0, m1)
    BY <1>1, <2>1, <2>2, <2>3, ReadsResult
  <2> QED
    BY <2>4 DEF m0, m1
<1> HIDE DEF r1
<1>5. Reads(deep, cases, w2, LoginResponseOf(r1, s, u), LoginResponseOf(r1, s1, u))
  <2> DEFINE number == 2
             tag == 16
             field == "success"
  <2>1. number \in 1..3 /\ tag \in Tags /\ tag = 8 * number
    BY DEF Tags
  <2>2. tag \in DOMAIN cases /\ cases[tag] = AsBool(field)
    BY LoginResponseCases DEF cases
  <2> DEFINE v == b.success
             yes == TRUE
             m0 == LoginResponseOf(r1, s, u)
             m1 == LoginResponseOf(r1, s1, u)
  <2>3. v => [m0 EXCEPT !["success"] = TRUE] = m1
    <3>1. v => s1 = yes
      BY <1>1 DEF Either
    <3> HIDE DEF yes, s, s1
    <3>2. [m0 EXCEPT !["success"] = yes] = LoginResponseOf(r1, yes, u)
      BY LoginResponseIs
    <3> HIDE DEF v, m0
    <3>3. v => [m0 EXCEPT !["success"] = yes] = m1
      BY <3>1, <3>2, Zenon
    <3> QED
      BY <3>3, Zenon DEF yes
  <2>4. ~v => m1 = m0
    BY DEF Either
  <2>5. v \in BOOLEAN
    BY <1>1
  <2>6. v => [m0 EXCEPT ![field] = TRUE] = m1
    BY <2>3
  <2> HIDE DEF m0, m1, v, number, tag, field
  <2>7. Reads(deep, cases, When(v, WriteBool(number, v)), m0, m1)
    BY <2>1, <2>2, <2>4, <2>5, <2>6, MaybeBool
  <2> QED
    BY <2>7, Zenon DEF v, m0, m1, number
<1> HIDE DEF w1, w2, s, s1
<1>6. Reads(deep, cases, b.unknown, LoginResponseOf(r1, s1, u), LoginResponseOf(r1, s1, u1))
  <2> DEFINE msgs == [x \in Bytes |-> LoginResponseOf(r1, s1, x)]
  <2>1. \A x \in Bytes : msgs[x] = LoginResponseOf(r1, s1, x)
    OBVIOUS
  <2>2. \A x, y \in Bytes : msgs[x].unknown = x /\ [msgs[x] EXCEPT !.unknown = y] = msgs[y]
    BY <2>1, LoginResponseIs
  <2> HIDE DEF msgs
  <2>3. Reads(deep, cases, b.unknown, msgs[u], msgs[u1])
    <3>1. \A tag \in DOMAIN cases : cases[tag].kind # "unknown"
      BY LoginResponseCases DEF cases
    <3> QED
      BY <1>1, <2>2, <3>1, ReadsUnknown DEF u1
  <2>4. u1 \in Bytes
    BY <1>1, BytesJoined DEF u1
  <2> QED
    BY <1>1, <2>1, <2>3, <2>4
<1>7. Reads(deep, cases, w1 \o w2 \o b.unknown,
             LoginResponseOf(r, s, u), LoginResponseOf(r1, s1, u1))
  <2>1. Reads(deep, cases, w1 \o w2, LoginResponseOf(r, s, u), LoginResponseOf(r1, s1, u))
    BY <1>4, <1>5, ReadsBoth
  <2> QED
    BY <2>1, <1>6, ReadsBoth
<1> QED
  BY <1>1, <1>2, <1>3, <1>7 DEF cases

(* Clear leaves an empty LoginResponse, into which another is merged as it *)
(* is.                                                                     *)
LEMMA LoginResponseCopies ==
  ASSUME NEW a \in LoginResponses, NEW b \in LoginResponses
  PROVE  /\ LoginResponse_Clear(a) \in LoginResponses
         /\ LoginResponse_MergeFrom(LoginResponse_Clear(a), b) = b
<1> DEFINE e == <<>>
           no == FALSE
           c == LoginResponseOf(e, no, e)
<1>1. LoginResponse_Clear(a) = c
  <2>1. LoginResponse_Clear(a) = [a EXCEPT !.result = e, !.success = no, !.unknown = e]
    BY DEF LoginResponse_Clear
  <2> HIDE DEF e, no, c
  <2>2. LoginResponse_Clear(a) = [[[a EXCEPT !.result = e] EXCEPT !.success = no] EXCEPT !.unknown = e]
    BY <2>1
  <2>3. a = LoginResponseOf(a.result, a.success, a.unknown)
    BY LoginResponseIs
  <2>4. [LoginResponseOf(a.result, a.success, a.unknown) EXCEPT !.result = e] = LoginResponseOf(e, a.success, a.unknown)
    BY LoginResponseIs
  <2>5. [LoginResponseOf(e, a.success, a.unknown) EXCEPT !.success = no] = LoginResponseOf(e, no, a.unknown)
    BY LoginResponseIs
  <2>6. [LoginResponseOf(e, no, a.unknown) EXCEPT !.unknown = e] = c
    BY LoginResponseIs DEF c
  <2> QED
    BY <2>2, <2>3, <2>4, <2>5, <2>6, Zenon
<1>2. c \in LoginResponses
  <2>1. e \in Results /\ no \in BOOLEAN /\ e \in Strange(LoginResponse_InternalParse)
    BY NothingStrange DEF Results
  <2> HIDE DEF e, no
  <2> QED
    BY <2>1 DEF LoginResponses, LoginResponseOf
<1>3. LoginResponse_MergeFrom(c, b) = b
  <2> DEFINE r1 == MergedResult(e, b.result)
             s1 == Either(b.success, b.success, no)
  <2>1. LoginResponse_MergeFrom(c, b) = LoginResponseOf(r1, s1, e \o b.unknown)
    <3> HIDE DEF e, no
    <3> QED
      BY LoginResponseMerged
  <2>2. b.result \in Results /\ b.success \in BOOLEAN /\ b.unknown \in Bytes
    BY DEF LoginResponses, Strange
  <2>3. r1 = b.result
    BY <2>2, NewResult
  <2>4. s1 = b.success
    BY <2>2 DEF Either
  <2>5. e \o b.unknown = b.unknown
    BY <2>2, Joins
  <2> HIDE DEF c, r1, s1
  <2>6. b = LoginResponseOf(b.result, b.success, b.unknown)
    BY LoginResponseIs
  <2> QED
    BY <2>1, <2>3, <2>4, <2>5, <2>6, Zenon
<1> QED
  BY <1>1, <1>2, <1>3

(* A LoginResponse announces the number of bytes it writes.                *)
LEMMA LoginResponseSize ==
  ASSUME NEW b \in LoginResponses
  PROVE  /\ LoginResponse_ByteSizeLong(b) = Len(LoginResponse_InternalSerialize(b))
         /\ LoginResponse_InternalSerialize(b) \in Bytes
<1> DEFINE size == ResultCode_ByteSizeLong(There(b.result))
           w1 == WrittenResult(b.result)
           w2 == When(b.success, WriteBool(2, b.success))
           k1 == SizeWhen(b.result # <<>>, 1 + VarintSize(size) + size)
           k2 == SizeWhen(b.success, 1 + 1)
           l == Len(b.unknown)
<1>1. b.result \in Results /\ b.success \in BOOLEAN /\ b.unknown \in Bytes
  BY DEF LoginResponses, Strange
<1>2. w1 \in Bytes /\ Len(w1) = k1
  BY <1>1, ResultLen
<1>3. w2 \in Bytes /\ Len(w2) = k2
  <2>1. WriteBool(2, b.success) \in Bytes /\ Len(WriteBool(2, b.success)) = 1 + 1
    BY <1>1, BoolLen
  <2> QED
    BY <2>1, WhenLen, Zenon
<1>4. LoginResponse_InternalSerialize(b) = w1 \o w2 \o b.unknown
  BY LoginResponseWritten
<1>5. LoginResponse_ByteSizeLong(b) = k1 + k2 + l
  <2>1. LoginResponse_result(b) = There(b.result)
    BY Zenon DEF LoginResponse_result, There
  <2> QED
    BY <2>1, Zenon DEF LoginResponse_ByteSizeLong
<1> HIDE DEF w1, w2, k1, k2
<1>6. w1 \o w2 \in Bytes /\ Len(w1 \o w2) = k1 + k2
  BY <1>2, <1>3, BytesJoined
<1> DEFINE w == w1 \o w2
<1>7. w \in Bytes /\ Len(w) = k1 + k2
  BY <1>6
<1> HIDE DEF w
<1>8. w \o b.unknown \in Bytes /\ Len(w \o b.unknown) = k1 + k2 + l
  BY <1>1, <1>7, BytesJoined
<1>9. LoginResponse_InternalSerialize(b) = w \o b.unknown
  BY <1>4 DEF w
<1> QED
  BY <1>5, <1>8, <1>9, Zenon

(* RegisterResponse.                                                        *)
RegisterResponseOf(r, s, u) == [type |-> "RegisterResponse", result |-> r, success |-> s, unknown |-> u]

(* A RegisterResponse is its fields, and a field set is that field         *)
(* changed.                                                                *)
LEMMA RegisterResponseIs ==
  /\ \A m \in RegisterResponses : m = RegisterResponseOf(m.result, m.success, m.unknown)
  /\ \A r, s, u, x :
        LET m == RegisterResponseOf(r, s, u)
        IN /\ m.result = r /\ m.success = s /\ m.unknown = u /\ m["result"] = r
           /\ [m EXCEPT !["result"] = x] = RegisterResponseOf(x, s, u)
           /\ [m EXCEPT !["success"] = x] = RegisterResponseOf(r, x, u)
           /\ [m EXCEPT !.unknown = x] = RegisterResponseOf(r, s, x)
  BY DEF RegisterResponseOf, RegisterResponses

(* The cases of the switch of RegisterResponse.                            *)
LEMMA RegisterResponseCases ==
  LET cases == RegisterResponse_InternalParse
  IN /\ 10 \in DOMAIN cases /\ cases[10] = AsMessage("result", ResultCode, ResultCode_InternalParse)
     /\ 16 \in DOMAIN cases /\ cases[16] = AsBool("success")
     /\ \A tag \in DOMAIN cases : cases[tag].kind # "unknown"
<1> DEFINE message == AsMessage("result", ResultCode, ResultCode_InternalParse)
<1>1. message.kind = "message"
  BY DEF AsMessage
<1> HIDE DEF message
<1>2. RegisterResponse_InternalParse
      = [tag \in {10, 16} |-> CASE tag = 10 -> message [] tag = 16 -> AsBool("success")]
  BY Zenon DEF RegisterResponse_InternalParse, message
<1> QED
  BY <1>1, <1>2 DEF AsBool, message

(* MergeFrom of RegisterResponse, field by field.                          *)
LEMMA RegisterResponseMerged ==
  ASSUME NEW r, NEW s, NEW u, NEW b
  PROVE  RegisterResponse_MergeFrom(RegisterResponseOf(r, s, u), b)
         = RegisterResponseOf(MergedResult(r, b.result), Either(b.success, b.success, s), u \o b.unknown)
<1> DEFINE m == RegisterResponseOf(r, s, u)
           r1 == MergedResult(r, b.result)
           s1 == Either(b.success, b.success, s)
           u1 == u \o b.unknown
<1>1. m.result = r /\ m.success = s /\ m.unknown = u
  BY RegisterResponseIs
<1>2. RegisterResponse_MergeFrom(m, b) = [m EXCEPT !.unknown = u1, !.result = r1, !.success = s1]
  <2> DEFINE there == RegisterResponse_result(m)
  <2>1. there = There(r)
    <3> HIDE DEF m
    <3> QED
      BY <1>1, Zenon DEF RegisterResponse_result, There
  <2>2. r1 = IF b.result = <<>> THEN m.result
             ELSE <<ResultCode_MergeFrom(there, b.result[1])>>
    <3> HIDE DEF m, there
    <3> QED
      BY <1>1, <2>1 DEF MergedResult, Either
  <2>3. s1 = IF b.success THEN b.success ELSE m.success
    BY <1>1 DEF Either
  <2> HIDE DEF m, r1, s1
  <2> QED
    BY <1>1, <2>2, <2>3, Zenon DEF RegisterResponse_MergeFrom
<1> HIDE DEF m, r1, s1, u1
<1>3. RegisterResponse_MergeFrom(m, b)
      = [[[m EXCEPT !.unknown = u1] EXCEPT !.result = r1] EXCEPT !.success = s1]
  BY <1>2
<1>4. [m EXCEPT !.unknown = u1] = RegisterResponseOf(r, s, u1)
  BY RegisterResponseIs DEF m
<1>5. [RegisterResponseOf(r, s, u1) EXCEPT !.result = r1] = RegisterResponseOf(r1, s, u1)
  BY RegisterResponseIs
<1>6. [RegisterResponseOf(r1, s, u1) EXCEPT !.success = s1] = RegisterResponseOf(r1, s1, u1)
  BY RegisterResponseIs
<1>7. RegisterResponse_MergeFrom(m, b) = RegisterResponseOf(r1, s1, u1)
  BY <1>3, <1>4, <1>5, <1>6, Zenon
<1> QED
  BY <1>7, Zenon DEF m, r1, s1, u1

(* The bytes of a RegisterResponse, field after field.                     *)
LEMMA RegisterResponseWritten ==
  ASSUME NEW b
  PROVE  RegisterResponse_InternalSerialize(b)
         = WrittenResult(b.result) \o When(b.success, WriteBool(2, b.success)) \o b.unknown
<1>1. RegisterResponse_result(b) = There(b.result)
  BY Zenon DEF RegisterResponse_result, There
<1> QED
  BY <1>1, Zenon DEF RegisterResponse_InternalSerialize, WrittenResult

(* The bytes of a RegisterResponse take any other to the merge of the two. *)
LEMMA RegisterResponseReads ==
  ASSUME NEW deep \in BOOLEAN, deep, NEW m \in RegisterResponses, NEW b \in RegisterResponses
  PROVE  Reads(deep, RegisterResponse_InternalParse,
               RegisterResponse_InternalSerialize(b), m, RegisterResponse_MergeFrom(m, b))
<1> DEFINE cases == RegisterResponse_InternalParse
           r == m.result
           s == m.success
           u == m.unknown
           r1 == MergedResult(r, b.result)
           s1 == Either(b.success, b.success, s)
           u1 == u \o b.unknown
           w1 == WrittenResult(b.result)
           w2 == When(b.success, WriteBool(2, b.success))
<1>1. /\ m = RegisterResponseOf(r, s, u) /\ u \in Bytes /\ r \in Results
      /\ b.result \in Results /\ b.success \in BOOLEAN
      /\ b.unknown \in Strange(cases) /\ b.unknown \in Bytes
  BY RegisterResponseIs DEF RegisterResponses, Strange
<1>2. RegisterResponse_InternalSerialize(b) = w1 \o w2 \o b.unknown
  BY RegisterResponseWritten
<1>3. RegisterResponse_MergeFrom(m, b) = RegisterResponseOf(r1, s1, u1)
  BY <1>1, RegisterResponseMerged
<1> HIDE DEF cases, u, u1, r
<1>4. Reads(deep, cases, w1, RegisterResponseOf(r, s, u), RegisterResponseOf(r1, s, u))
  <2> DEFINE m0 == RegisterResponseOf(r, s, u)
             m1 == RegisterResponseOf(r1, s, u)
  <2>1. 10 \in DOMAIN cases /\ cases[10] = AsMessage("result", ResultCode, ResultCode_InternalParse)
    BY RegisterResponseCases DEF cases
  <2>2. [m0 EXCEPT !["result"] = r1] = m1 /\ m0["result"] = r
    BY RegisterResponseIs
  <2>3. b.result = <<>> => m1 = m0
    BY DEF MergedResult, Either
  <2> HIDE DEF s, m0, m1
  <2>4. Reads(deep, cases, w1, m0, m1)
    BY <1>1, <2>1, <2>2, <2>3, ReadsResult
  <2> QED
    BY <2>4 DEF m0, m1
<1> HIDE DEF r1
<1>5. Reads(deep, cases, w2, RegisterResponseOf(r1, s, u), RegisterResponseOf(r1, s1, u))
  <2> DEFINE number == 2
             tag == 16
             field == "success"
  <2>1. number \in 1..3 /\ tag \in Tags /\ tag = 8 * number
    BY DEF Tags
  <2>2. tag \in DOMAIN cases /\ cases[tag] = AsBool(field)
    BY RegisterResponseCases DEF cases
  <2> DEFINE v == b.success
             yes == TRUE
             m0 == RegisterResponseOf(r1, s, u)
             m1 == RegisterResponseOf(r1, s1, u)
  <2>3. v => [m0 EXCEPT !["success"] = TRUE] = m1
    <3>1. v => s1 = yes
      BY <1>1 DEF Either
    <3> HIDE DEF yes, s, s1
    <3>2. [m0 EXCEPT !["success"] = yes] = RegisterResponseOf(r1, yes, u)
      BY RegisterResponseIs
    <3> HIDE DEF v, m0
    <3>3. v => [m0 EXCEPT !["success"] = yes] = m1
      BY <3>1, <3>2, Zenon
    <3> QED
      BY <3>3, Zenon DEF yes
  <2>4. ~v => m1 = m0
    BY DEF Either
  <2>5. v \in BOOLEAN
    BY <1>1
  <2>6. v => [m0 EXCEPT ![field] = TRUE] = m1
    BY <2>3
  <2> HIDE DEF m0, m1, v, number, tag, field
  <2>7. Reads(deep, cases, When(v, WriteBool(number, v)), m0, m1)
    BY <2>1, <2>2, <2>4, <2>5, <2>6, MaybeBool
  <2> QED
    BY <2>7, Zenon DEF v, m0, m1, number
<1> HIDE DEF w1, w2, s, s1
<1>6. Reads(deep, cases, b.unknown, RegisterResponseOf(r1, s1, u), RegisterResponseOf(r1, s1, u1))
  <2> DEFINE msgs == [x \in Bytes |-> RegisterResponseOf(r1, s1, x)]
  <2>1. \A x \in Bytes : msgs[x] = RegisterResponseOf(r1, s1, x)
    OBVIOUS
  <2>2. \A x, y \in Bytes : msgs[x].unknown = x /\ [msgs[x] EXCEPT !.unknown = y] = msgs[y]
    BY <2>1, RegisterResponseIs
  <2> HIDE DEF msgs
  <2>3. Reads(deep, cases, b.unknown, msgs[u], msgs[u1])
    <3>1. \A tag \in DOMAIN cases : cases[tag].kind # "unknown"
      BY RegisterResponseCases DEF cases
    <3> QED
      BY <1>1, <2>2, <3>1, ReadsUnknown DEF u1
  <2>4. u1 \in Bytes
    BY <1>1, BytesJoined DEF u1
  <2> QED
    BY <1>1, <2>1, <2>3, <2>4
<1>7. Reads(deep, cases, w1 \o w2 \o b.unknown,
             RegisterResponseOf(r, s, u), RegisterResponseOf(r1, s1, u1))
  <2>1. Reads(deep, cases, w1 \o w2, RegisterResponseOf(r, s, u), RegisterResponseOf(r1, s1, u))
    BY <1>4, <1>5, ReadsBoth
  <2> QED
    BY <2>1, <1>6, ReadsBoth
<1> QED
  BY <1>1, <1>2, <1>3, <1>7 DEF cases

(* Clear leaves an empty RegisterResponse, into which another is merged as *)
(* it is.                                                                  *)
LEMMA RegisterResponseCopies ==
  ASSUME NEW a \in RegisterResponses, NEW b \in RegisterResponses
  PROVE  /\ RegisterResponse_Clear(a) \in RegisterResponses
         /\ RegisterResponse_MergeFrom(RegisterResponse_Clear(a), b) = b
<1> DEFINE e == <<>>
           no == FALSE
           c == RegisterResponseOf(e, no, e)
<1>1. RegisterResponse_Clear(a) = c
  <2>1. RegisterResponse_Clear(a) = [a EXCEPT !.result = e, !.success = no, !.unknown = e]
    BY DEF RegisterResponse_Clear
  <2> HIDE DEF e, no, c
  <2>2. RegisterResponse_Clear(a) = [[[a EXCEPT !.result = e] EXCEPT !.success = no] EXCEPT !.unknown = e]
    BY <2>1
  <2>3. a = RegisterResponseOf(a.result, a.success, a.unknown)
    BY RegisterResponseIs
  <2>4. [RegisterResponseOf(a.result, a.success, a.unknown) EXCEPT !.result = e] = RegisterResponseOf(e, a.success, a.unknown)
    BY RegisterResponseIs
  <2>5. [RegisterResponseOf(e, a.success, a.unknown) EXCEPT !.success = no] = RegisterResponseOf(e, no, a.unknown)
    BY RegisterResponseIs
  <2>6. [RegisterResponseOf(e, no, a.unknown) EXCEPT !.unknown = e] = c
    BY RegisterResponseIs DEF c
  <2> QED
    BY <2>2, <2>3, <2>4, <2>5, <2>6, Zenon
<1>2. c \in RegisterResponses
  <2>1. e \in Results /\ no \in BOOLEAN /\ e \in Strange(RegisterResponse_InternalParse)
    BY NothingStrange DEF Results
  <2> HIDE DEF e, no
  <2> QED
    BY <2>1 DEF RegisterResponses, RegisterResponseOf
<1>3. RegisterResponse_MergeFrom(c, b) = b
  <2> DEFINE r1 == MergedResult(e, b.result)
             s1 == Either(b.success, b.success, no)
  <2>1. RegisterResponse_MergeFrom(c, b) = RegisterResponseOf(r1, s1, e \o b.unknown)
    <3> HIDE DEF e, no
    <3> QED
      BY RegisterResponseMerged
  <2>2. b.result \in Results /\ b.success \in BOOLEAN /\ b.unknown \in Bytes
    BY DEF RegisterResponses, Strange
  <2>3. r1 = b.result
    BY <2>2, NewResult
  <2>4. s1 = b.success
    BY <2>2 DEF Either
  <2>5. e \o b.unknown = b.unknown
    BY <2>2, Joins
  <2> HIDE DEF c, r1, s1
  <2>6. b = RegisterResponseOf(b.result, b.success, b.unknown)
    BY RegisterResponseIs
  <2> QED
    BY <2>1, <2>3, <2>4, <2>5, <2>6, Zenon
<1> QED
  BY <1>1, <1>2, <1>3

(* A RegisterResponse announces the number of bytes it writes.             *)
LEMMA RegisterResponseSize ==
  ASSUME NEW b \in RegisterResponses
  PROVE  /\ RegisterResponse_ByteSizeLong(b) = Len(RegisterResponse_InternalSerialize(b))
         /\ RegisterResponse_InternalSerialize(b) \in Bytes
<1> DEFINE size == ResultCode_ByteSizeLong(There(b.result))
           w1 == WrittenResult(b.result)
           w2 == When(b.success, WriteBool(2, b.success))
           k1 == SizeWhen(b.result # <<>>, 1 + VarintSize(size) + size)
           k2 == SizeWhen(b.success, 1 + 1)
           l == Len(b.unknown)
<1>1. b.result \in Results /\ b.success \in BOOLEAN /\ b.unknown \in Bytes
  BY DEF RegisterResponses, Strange
<1>2. w1 \in Bytes /\ Len(w1) = k1
  BY <1>1, ResultLen
<1>3. w2 \in Bytes /\ Len(w2) = k2
  <2>1. WriteBool(2, b.success) \in Bytes /\ Len(WriteBool(2, b.success)) = 1 + 1
    BY <1>1, BoolLen
  <2> QED
    BY <2>1, WhenLen, Zenon
<1>4. RegisterResponse_InternalSerialize(b) = w1 \o w2 \o b.unknown
  BY RegisterResponseWritten
<1>5. RegisterResponse_ByteSizeLong(b) = k1 + k2 + l
  <2>1. RegisterResponse_result(b) = There(b.result)
    BY Zenon DEF RegisterResponse_result, There
  <2> QED
    BY <2>1, Zenon DEF RegisterResponse_ByteSizeLong
<1> HIDE DEF w1, w2, k1, k2
<1>6. w1 \o w2 \in Bytes /\ Len(w1 \o w2) = k1 + k2
  BY <1>2, <1>3, BytesJoined
<1> DEFINE w == w1 \o w2
<1>7. w \in Bytes /\ Len(w) = k1 + k2
  BY <1>6
<1> HIDE DEF w
<1>8. w \o b.unknown \in Bytes /\ Len(w \o b.unknown) = k1 + k2 + l
  BY <1>1, <1>7, BytesJoined
<1>9. RegisterResponse_InternalSerialize(b) = w \o b.unknown
  BY <1>4 DEF w
<1> QED
  BY <1>5, <1>8, <1>9, Zenon

(* GetFriendListResponse.  Its names are written one by one.               *)
WrittenFriends(v) ==
    LET written[i \in 0..Len(v)] == IF i = 0 THEN <<>> ELSE written[i - 1] \o WriteBytes(2, v[i])
    IN written[Len(v)]

SizesOfFriends(v) ==
    LET sizes[i \in 0..Len(v)] == IF i = 0 THEN 0 ELSE sizes[i - 1] + BytesSize(v[i])
    IN sizes[Len(v)]

FriendsAre(f, v) ==
    /\ f[0] = <<>>
    /\ \A i \in 1..Len(v) : f[i - 1] \in Bytes /\ f[i] = f[i - 1] \o WriteBytes(2, v[i])
    /\ WrittenFriends(v) = f[Len(v)]

SizesAre(f, v) ==
    /\ f[0] = 0
    /\ \A i \in 1..Len(v) : f[i - 1] \in Nat /\ f[i] = f[i - 1] + BytesSize(v[i])
    /\ SizesOfFriends(v) = f[Len(v)]

(* Each friend is a string, and takes its tag and the size announced.      *)
LEMMA FriendBytes ==
  ASSUME NEW v \in Seq(Strings)
  PROVE  /\ Len(v) \in Nat
         /\ \A i \in 1..Len(v) :
               /\ v[i] \in Strings /\ BytesSize(v[i]) \in Nat
               /\ WriteBytes(2, v[i]) \in Bytes
               /\ Len(WriteBytes(2, v[i])) = 1 + BytesSize(v[i])
<1>1. Len(v) \in Nat /\ \A i \in 1..Len(v) : v[i] \in Strings
  OBVIOUS
<1>2. ASSUME NEW w \in Strings
      PROVE  /\ BytesSize(w) \in Nat /\ WriteBytes(2, w) \in Bytes
             /\ Len(WriteBytes(2, w)) = 1 + BytesSize(w)
  <2>1. WriteBytes(2, w) \in Bytes /\ Len(WriteBytes(2, w)) = 1 + BytesSize(w)
    <3>1. 2 \in 1..3
      OBVIOUS
    <3> QED
      BY <3>1, BytesLen
  <2>2. VarintSize(Len(w)) \in 1..5 /\ Len(w) \in Nat
    BY SizeIs, BytesAre DEF Strings
  <2>3. BytesSize(w) \in Nat
    BY <2>2 DEF BytesSize
  <2> QED
    BY <2>1, <2>3
<1> QED
  BY <1>1, <1>2

(* The bytes after each friend, for the fold that writes them.             *)
LEMMA FriendsWritten == ASSUME NEW v \in Seq(Strings) PROVE \E f : FriendsAre(f, v)
<1> DEFINE n == Len(v)
           e == <<>>
           step == [i \in 1..n |-> [x \in Bytes |-> x \o WriteBytes(2, v[i])]]
           Table(f) == f = [i \in 0..n |-> IF i = 0 THEN <<>> ELSE f[i - 1] \o WriteBytes(2, v[i])]
           f == CHOOSE f : Table(f)
<1>1. n \in Nat /\ e \in Bytes
  BY FriendBytes, Joins
<1>2. \A i \in 1..n, x \in Bytes : x \o WriteBytes(2, v[i]) \in Bytes
  BY FriendBytes, BytesJoined
<1>3. step \in [1..n -> [Bytes -> Bytes]]
  BY <1>2
<1>4. \A i \in 1..n, x \in Bytes : step[i][x] = x \o WriteBytes(2, v[i])
  OBVIOUS
<1>5. Definable(n, Bytes, e, step)
  <2> HIDE DEF step, e, n
  <2> QED
    BY <1>1, <1>3, Recursion
<1> HIDE DEF step, n
<1>6. \E g : Table(g)
  <2>1. PICK g \in [0..n -> Bytes] : g[0] = e /\ \A i \in 1..n : g[i] = step[i][g[i - 1]]
    BY <1>5 DEF Definable, Follows
  <2>2. \A i \in 1..n : g[i] = g[i - 1] \o WriteBytes(2, v[i])
    <3> SUFFICES ASSUME NEW i \in 1..n PROVE g[i] = g[i - 1] \o WriteBytes(2, v[i])
      OBVIOUS
    <3>1. i - 1 \in 0..n
      BY <1>1
    <3> QED
      BY <1>4, <2>1, <3>1
  <2>3. g = [i \in 0..n |-> IF i = 0 THEN <<>> ELSE g[i - 1] \o WriteBytes(2, v[i])]
    <3>1. \A i \in 0..n : g[i] = IF i = 0 THEN <<>> ELSE g[i - 1] \o WriteBytes(2, v[i])
      <4>1. \A i \in 0..n : i = 0 \/ i \in 1..n
        BY <1>1
      <4> QED
        BY <2>1, <2>2, <4>1, Zenon
    <3> QED
      BY <2>1, <3>1
  <2> QED
    BY <2>3
<1>7. Table(f)
  <2> HIDE DEF Table
  <2> QED
    BY <1>6
<1>8. WrittenFriends(v) = f[n]
  BY Zenon DEF WrittenFriends, n
<1> HIDE DEF f
<1>9. f[0] = e /\ \A i \in 1..n : f[i] = f[i - 1] \o WriteBytes(2, v[i])
  <2> DEFINE Entry(i) == IF i = 0 THEN <<>> ELSE f[i - 1] \o WriteBytes(2, v[i])
  <2>1. \A i \in 0..n : f[i] = Entry(i)
    BY <1>7, Zenon
  <2>2. 0 \in 0..n /\ \A i \in 1..n : i \in 0..n /\ i # 0
    BY <1>1
  <2> QED
    BY <2>1, <2>2, Zenon
<1> DEFINE S == {i \in 0..n : f[i] \in Bytes}
<1>10. 0 \in S
  BY <1>1, <1>9
<1>11. ASSUME NEW i \in 1..n, i - 1 \in S PROVE i \in S
  <2>1. f[i] \in Bytes
    BY <1>2, <1>9, <1>11
  <2>2. i \in 0..n
    OBVIOUS
  <2> QED
    BY <2>1, <2>2
<1> HIDE DEF S
<1>12. \A i \in 0..n : i \in S
  BY <1>1, <1>10, <1>11, Induction
<1>13. \A i \in 1..n : f[i - 1] \in Bytes
  <2>1. \A i \in 1..n : i - 1 \in 0..n
    BY <1>1
  <2> QED
    BY <1>12, <2>1 DEF S
<1>14. FriendsAre(f, v)
  BY <1>8, <1>9, <1>13 DEF FriendsAre, n, e
<1> QED
  BY <1>14

(* The sizes after each friend, for the fold that adds them.               *)
LEMMA FriendsSized == ASSUME NEW v \in Seq(Strings) PROVE \E f : SizesAre(f, v)
<1> DEFINE n == Len(v)
           e == 0
           step == [i \in 1..n |-> [x \in Nat |-> x + BytesSize(v[i])]]
           Table(f) == f = [i \in 0..n |-> IF i = 0 THEN 0 ELSE f[i - 1] + BytesSize(v[i])]
           f == CHOOSE f : Table(f)
<1>1. n \in Nat /\ e \in Nat
  BY FriendBytes
<1>2. \A i \in 1..n, x \in Nat : x + BytesSize(v[i]) \in Nat
  BY FriendBytes
<1>3. step \in [1..n -> [Nat -> Nat]]
  BY <1>2
<1>4. \A i \in 1..n, x \in Nat : step[i][x] = x + BytesSize(v[i])
  OBVIOUS
<1>5. Definable(n, Nat, e, step)
  <2> HIDE DEF step, e, n
  <2> QED
    BY <1>1, <1>3, Recursion
<1> HIDE DEF step, n
<1>6. \E g : Table(g)
  <2>1. PICK g \in [0..n -> Nat] : g[0] = e /\ \A i \in 1..n : g[i] = step[i][g[i - 1]]
    BY <1>5 DEF Definable, Follows
  <2>2. \A i \in 1..n : g[i] = g[i - 1] + BytesSize(v[i])
    <3> SUFFICES ASSUME NEW i \in 1..n PROVE g[i] = g[i - 1] + BytesSize(v[i])
      OBVIOUS
    <3>1. i - 1 \in 0..n
      BY <1>1
    <3> QED
      BY <1>4, <2>1, <3>1
  <2>3. g = [i \in 0..n |-> IF i = 0 THEN 0 ELSE g[i - 1] + BytesSize(v[i])]
    <3>1. \A i \in 0..n : g[i] = IF i = 0 THEN 0 ELSE g[i - 1] + BytesSize(v[i])
      BY <2>1, <2>2
    <3> QED
      BY <2>1, <3>1
  <2> QED
    BY <2>3
<1>7. Table(f)
  <2> HIDE DEF Table
  <2> QED
    BY <1>6
<1>8. SizesOfFriends(v) = f[n]
  BY Zenon DEF SizesOfFriends, n
<1> HIDE DEF f
<1>9. f[0] = e /\ \A i \in 1..n : f[i] = f[i - 1] + BytesSize(v[i])
  <2> DEFINE Entry(i) == IF i = 0 THEN 0 ELSE f[i - 1] + BytesSize(v[i])
  <2>1. \A i \in 0..n : f[i] = Entry(i)
    BY <1>7, Zenon
  <2>2. 0 \in 0..n /\ \A i \in 1..n : i \in 0..n /\ i # 0
    BY <1>1
  <2> QED
    BY <2>1, <2>2, Zenon
<1> DEFINE S == {i \in 0..n : f[i] \in Nat}
<1>10. 0 \in S
  BY <1>1, <1>9
<1>11. ASSUME NEW i \in 1..n, i - 1 \in S PROVE i \in S
  <2>1. f[i] \in Nat
    BY <1>2, <1>9, <1>11
  <2>2. i \in 0..n
    OBVIOUS
  <2> QED
    BY <2>1, <2>2
<1> HIDE DEF S
<1>12. \A i \in 0..n : i \in S
  BY <1>1, <1>10, <1>11, Induction
<1>13. \A i \in 1..n : f[i - 1] \in Nat
  <2>1. \A i \in 1..n : i - 1 \in 0..n
    BY <1>1
  <2> QED
    BY <1>12, <2>1 DEF S
<1>14. SizesAre(f, v)
  BY <1>8, <1>9, <1>13 DEF SizesAre, n, e
<1> QED
  BY <1>14

(* The friends take a tag each and the sizes announced.                    *)
LEMMA FriendsLen ==
  ASSUME NEW v \in Seq(Strings)
  PROVE  /\ WrittenFriends(v) \in Bytes /\ SizesOfFriends(v) \in Nat
         /\ Len(WrittenFriends(v)) = Len(v) + SizesOfFriends(v)
<1> DEFINE n == Len(v)
<1>1. PICK f : FriendsAre(f, v)
  BY FriendsWritten
<1>2. PICK g : SizesAre(g, v)
  BY FriendsSized
<1> DEFINE S == {i \in 0..n : f[i] \in Bytes /\ g[i] \in Nat /\ Len(f[i]) = i + g[i]}
<1>3. n \in Nat /\ <<>> \in Bytes /\ Len(<<>>) = 0
  BY FriendBytes, Joins
<1>4. 0 \in S
  BY <1>1, <1>2, <1>3 DEF FriendsAre, SizesAre
<1>5. ASSUME NEW i \in 1..n, i - 1 \in S PROVE i \in S
  <2> DEFINE a == f[i - 1]
             w == WriteBytes(2, v[i])
  <2>1. a \in Bytes /\ Len(a) = (i - 1) + g[i - 1] /\ g[i - 1] \in Nat
    BY <1>5
  <2>2. w \in Bytes /\ BytesSize(v[i]) \in Nat /\ Len(w) = 1 + BytesSize(v[i])
    BY FriendBytes
  <2>3. f[i] = a \o w /\ g[i] = g[i - 1] + BytesSize(v[i])
    BY <1>1, <1>2 DEF FriendsAre, SizesAre
  <2> HIDE DEF a, w
  <2>4. a \o w \in Bytes /\ Len(a \o w) = Len(a) + Len(w)
    BY <2>1, <2>2, BytesJoined
  <2> DEFINE aw == a \o w
             x == g[i - 1]
             y == BytesSize(v[i])
             l == Len(aw)
  <2>5. l = ((i - 1) + x) + (1 + y) /\ g[i] = x + y /\ x \in Nat /\ y \in Nat
    BY <2>1, <2>2, <2>3, <2>4
  <2> HIDE DEF x, y, l, n
  <2>6. i \in 0..n /\ x + y \in Nat /\ l = i + (x + y)
    BY <1>3, <2>5
  <2> QED
    BY <2>3, <2>4, <2>5, <2>6, Zenon DEF l, S
<1> HIDE DEF S
<1>6. \A i \in 0..n : i \in S
  BY <1>3, <1>4, <1>5, Induction
<1>7. f[n] \in Bytes /\ g[n] \in Nat /\ Len(f[n]) = n + g[n]
  BY <1>3, <1>6 DEF S
<1> QED
  BY <1>1, <1>2, <1>7 DEF FriendsAre, SizesAre

(* One more of the names.                                                  *)
LEMMA OneMore ==
  ASSUME NEW S, NEW x \in Seq(S), NEW v \in Seq(S)
  PROVE  /\ x \o SubSeq(v, 1, 0) = x
         /\ SubSeq(v, 1, Len(v)) = v
         /\ \A i \in 1..Len(v) :
               /\ x \o SubSeq(v, 1, i - 1) \in Seq(S) /\ x \o SubSeq(v, 1, i) \in Seq(S)
               /\ x \o SubSeq(v, 1, i) = Append(x \o SubSeq(v, 1, i - 1), v[i])
<1>1. x \o SubSeq(v, 1, 0) = x
  <2>1. SubSeq(v, 1, 0) = <<>>
    BY SubSeqEmpty
  <2>2. x \o <<>> = x
    BY ConcatEmptySeq
  <2> QED
    BY <2>1, <2>2, Zenon
<1>2. SubSeq(v, 1, Len(v)) = v
  BY SubSeqFull
<1>3. ASSUME NEW i \in 1..Len(v)
      PROVE  /\ x \o SubSeq(v, 1, i - 1) \in Seq(S) /\ x \o SubSeq(v, 1, i) \in Seq(S)
             /\ x \o SubSeq(v, 1, i) = Append(x \o SubSeq(v, 1, i - 1), v[i])
  <2> DEFINE p == SubSeq(v, 1, i - 1)
             d == v[i]
  <2>1. Len(v) \in Nat /\ d \in S /\ 1 \in 1..Len(v) /\ i \in 1..Len(v) /\ i - 1 \in Int
    OBVIOUS
  <2>2. p \in Seq(S)
    <3>1. \A j \in 1..(i - 1) : v[j] \in S
      OBVIOUS
    <3> QED
      BY <2>1, <3>1, SubSeqProperties
  <2>3. SubSeq(v, 1, i) = p \o <<d>>
    BY <2>1, SubSeqRecursiveSecond
  <2> HIDE DEF p, d
  <2>4. <<d>> \in Seq(S)
    BY <2>1
  <2>5. x \o p \in Seq(S)
    BY <2>2, ConcatProperties
  <2>6. (x \o p) \o <<d>> = x \o (p \o <<d>>)
    BY <2>2, <2>4, ConcatAssociative
  <2>7. Append(x \o p, d) = (x \o p) \o <<d>>
    BY <2>1, <2>5, AppendIsConcat
  <2>8. Append(x \o p, d) \in Seq(S)
    BY <2>1, <2>5, AppendProperties
  <2>9. x \o SubSeq(v, 1, i) = Append(x \o p, d)
    BY <2>3, <2>6, <2>7, Zenon
  <2> QED
    BY <2>5, <2>8, <2>9 DEF p, d
<1> QED
  BY <1>1, <1>2, <1>3

(* The friends written are added behind those the message has, in their    *)
(* order.                                                                  *)
LEMMA ReadsFriends ==
  ASSUME NEW deep \in BOOLEAN, NEW cases, 18 \in DOMAIN cases, cases[18] = AddBytes("friends"),
         NEW v \in Seq(Strings), NEW x \in Seq(Strings), NEW msgs,
         \A y, z \in Seq(Strings) :
            msgs[y]["friends"] = y /\ [msgs[y] EXCEPT !["friends"] = z] = msgs[z]
  PROVE  Reads(deep, cases, WrittenFriends(v), msgs[x], msgs[x \o v])
<1> DEFINE n == Len(v)
           field == "friends"
           tag == 18
           number == 2
           L(i) == x \o SubSeq(v, 1, i)
<1>1. PICK f : FriendsAre(f, v)
  BY FriendsWritten
<1>2. /\ L(0) = x /\ L(n) = x \o v
      /\ \A i \in 1..n : /\ L(i - 1) \in Seq(Strings) /\ L(i) \in Seq(Strings)
                         /\ L(i) = Append(L(i - 1), v[i])
  BY OneMore
<1>3. number \in 1..3 /\ tag \in Tags /\ tag = 8 * number + 2
  BY DEF Tags
<1>4. /\ tag \in DOMAIN cases /\ cases[tag] = AddBytes(field)
      /\ \A y, z \in Seq(Strings) :
            msgs[y][field] = y /\ [msgs[y] EXCEPT ![field] = z] = msgs[z]
  OBVIOUS
<1>5. n \in Nat /\ \A i \in 1..n : v[i] \in Strings
  BY FriendBytes
<1>6. /\ f[0] = <<>> /\ WrittenFriends(v) = f[n]
      /\ \A i \in 1..n : f[i] = f[i - 1] \o WriteBytes(number, v[i])
  BY <1>1 DEF FriendsAre
<1> HIDE DEF n, field, tag, number, L
<1> DEFINE S == {i \in 0..n : Reads(deep, cases, f[i], msgs[x], msgs[L(i)])}
<1>7. 0 \in S
  <2>1. 0 \in 0..n
    BY <1>5
  <2> QED
    BY <1>2, <1>6, <2>1, ReadsNothing
<1>8. ASSUME NEW i \in 1..n, i - 1 \in S PROVE i \in S
  <2> DEFINE a == L(i - 1)
             m == msgs[a]
             w == v[i]
             l == Append(a, w)
  <2>1. a \in Seq(Strings) /\ l \in Seq(Strings) /\ L(i) = l
    BY <1>2
  <2>2. m[field] = a /\ [m EXCEPT ![field] = l] = msgs[l]
    <3> HIDE DEF a, l
    <3> QED
      BY <1>4, <2>1
  <2>3. w \in Strings
    BY <1>5
  <2> HIDE DEF m
  <2>4. Reads(deep, cases, WriteBytes(number, w), m, [m EXCEPT ![field] = Append(m[field], w)])
    <3> HIDE DEF a, w
    <3> QED
      BY <1>3, <1>4, <2>3, ReadsOneMore
  <2>5. Reads(deep, cases, WriteBytes(number, w), m, msgs[l])
    <3> HIDE DEF a, w
    <3> QED
      BY <2>2, <2>4, Zenon
  <2>6. Reads(deep, cases, f[i - 1], msgs[x], m)
    BY <1>8 DEF m
  <2>7. Reads(deep, cases, f[i - 1] \o WriteBytes(number, w), msgs[x], msgs[l])
    BY <2>5, <2>6, ReadsBoth
  <2>8. f[i] = f[i - 1] \o WriteBytes(number, w)
    BY <1>6, Zenon
  <2>9. i \in 0..n
    <3> HIDE DEF S
    <3> QED
      BY <1>5
  <2> HIDE DEF l, w
  <2> QED
    BY <2>1, <2>7, <2>8, <2>9, Zenon
<1> HIDE DEF S
<1>9. \A i \in 0..n : i \in S
  BY <1>5, <1>7, <1>8, Induction
<1>10. Reads(deep, cases, f[n], msgs[x], msgs[L(n)])
  <2>1. n \in 0..n
    BY <1>5
  <2> QED
    BY <1>9, <2>1 DEF S
<1> QED
  BY <1>2, <1>6, <1>10, Zenon

GetFriendListResponseOf(r, f, u) ==
    [type |-> "GetFriendListResponse", result |-> r, friends |-> f, unknown |-> u]

(* A GetFriendListResponse is its fields, and a field set is that field    *)
(* changed.                                                                *)
LEMMA GetFriendListResponseIs ==
  /\ \A m \in GetFriendListResponses : m = GetFriendListResponseOf(m.result, m.friends, m.unknown)
  /\ \A r, f, u, x :
        LET m == GetFriendListResponseOf(r, f, u)
        IN /\ m.result = r /\ m.friends = f /\ m.unknown = u /\ m["result"] = r /\ m["friends"] = f
           /\ [m EXCEPT !["result"] = x] = GetFriendListResponseOf(x, f, u)
           /\ [m EXCEPT !["friends"] = x] = GetFriendListResponseOf(r, x, u)
           /\ [m EXCEPT !.unknown = x] = GetFriendListResponseOf(r, f, x)
  BY DEF GetFriendListResponseOf, GetFriendListResponses

(* What a message of the class holds.                                      *)
LEMMA GetFriendListResponseHolds ==
  ASSUME NEW m \in GetFriendListResponses
  PROVE  /\ m.result \in Results /\ m.friends \in Seq(Strings) /\ m.unknown \in Bytes
         /\ m.unknown \in Strange(GetFriendListResponse_InternalParse)
         /\ GetFriendListResponse_result(m) = There(m.result)
<1>1. FriendResults = Results
  BY FriendResultCodeIs, Zenon DEF FriendResults, Results
<1>2. GetFriendListResponse_result(m) = There(m.result)
  BY FriendResultCodeIs, Zenon DEF GetFriendListResponse_result, There
<1> QED
  BY <1>1, <1>2 DEF GetFriendListResponses, Strange

(* The cases of the switch of GetFriendListResponse.                       *)
LEMMA GetFriendListResponseCases ==
  LET cases == GetFriendListResponse_InternalParse
  IN /\ 10 \in DOMAIN cases /\ cases[10] = AsMessage("result", ResultCode, ResultCode_InternalParse)
     /\ 18 \in DOMAIN cases /\ cases[18] = AddBytes("friends")
     /\ \A tag \in DOMAIN cases : cases[tag].kind # "unknown"
<1> DEFINE message == AsMessage("result", FriendResultCode, FriendResultCode_InternalParse)
<1>1. message.kind = "message"
  BY DEF AsMessage
<1>2. message = AsMessage("result", ResultCode, ResultCode_InternalParse)
  BY FriendResultCodeIs, Zenon
<1>3. GetFriendListResponse_InternalParse
      = [tag \in {10, 18} |-> CASE tag = 10 -> message [] tag = 18 -> AddBytes("friends")]
  BY Zenon DEF GetFriendListResponse_InternalParse
<1> HIDE DEF message
<1> QED
  BY <1>1, <1>2, <1>3 DEF AddBytes

(* MergeFrom of GetFriendListResponse, field by field.                     *)
LEMMA GetFriendListResponseMerged ==
  ASSUME NEW r, NEW f, NEW u, NEW b
  PROVE  GetFriendListResponse_MergeFrom(GetFriendListResponseOf(r, f, u), b)
         = GetFriendListResponseOf(MergedResult(r, b.result), f \o b.friends, u \o b.unknown)
<1> DEFINE m == GetFriendListResponseOf(r, f, u)
           r1 == MergedResult(r, b.result)
           f1 == f \o b.friends
           u1 == u \o b.unknown
<1>1. m.result = r /\ m.friends = f /\ m.unknown = u
  BY GetFriendListResponseIs
<1>2. GetFriendListResponse_MergeFrom(m, b)
      = [m EXCEPT !.unknown = u1, !.friends = f1, !.result = r1]
  <2> DEFINE there == GetFriendListResponse_result(m)
  <2>1. there = There(r)
    <3> HIDE DEF m
    <3> QED
      BY <1>1, FriendResultCodeIs, Zenon DEF GetFriendListResponse_result, There
  <2>2. r1 = IF b.result = <<>> THEN m.result
             ELSE <<FriendResultCode_MergeFrom(there, b.result[1])>>
    <3>1. FriendResultCode_MergeFrom(there, b.result[1]) = ResultCode_MergeFrom(there, b.result[1])
      BY FriendResultCodeIs
    <3> HIDE DEF m, there
    <3> QED
      BY <1>1, <2>1, <3>1 DEF MergedResult, Either
  <2> HIDE DEF m, r1
  <2> QED
    BY <1>1, <2>2, Zenon DEF GetFriendListResponse_MergeFrom
<1> HIDE DEF m, r1, f1, u1
<1>3. GetFriendListResponse_MergeFrom(m, b)
      = [[[m EXCEPT !.unknown = u1] EXCEPT !.friends = f1] EXCEPT !.result = r1]
  BY <1>2
<1>4. [m EXCEPT !.unknown = u1] = GetFriendListResponseOf(r, f, u1)
  BY GetFriendListResponseIs DEF m
<1>5. [GetFriendListResponseOf(r, f, u1) EXCEPT !.friends = f1] = GetFriendListResponseOf(r, f1, u1)
  BY GetFriendListResponseIs
<1>6. [GetFriendListResponseOf(r, f1, u1) EXCEPT !.result
      = r1] = GetFriendListResponseOf(r1, f1, u1)
  BY GetFriendListResponseIs
<1>7. GetFriendListResponse_MergeFrom(m, b) = GetFriendListResponseOf(r1, f1, u1)
  BY <1>3, <1>4, <1>5, <1>6, Zenon
<1> QED
  BY <1>7, Zenon DEF m, r1, f1, u1

(* The bytes of a GetFriendListResponse, field after field.                *)
LEMMA GetFriendListResponseWritten ==
  ASSUME NEW b \in GetFriendListResponses
  PROVE  /\ GetFriendListResponse_InternalSerialize(b)
            = WrittenResult(b.result) \o WrittenFriends(b.friends) \o b.unknown
         /\ GetFriendListResponse_ByteSizeLong(b)
            = LET size == ResultCode_ByteSizeLong(There(b.result))
              IN Len(b.friends) + SizesOfFriends(b.friends)
                 + SizeWhen(b.result # <<>>, 1 + VarintSize(size) + size)
                 + Len(b.unknown)
<1> DEFINE c == GetFriendListResponse_result(b)
           size == ResultCode_ByteSizeLong(c)
           t == ResultCode_InternalSerialize(c)
           w == When(b.result # <<>>, WriteMessage(1, size, t))
<1>1. c = There(b.result)
  BY GetFriendListResponseHolds
<1>2. FriendResultCode_InternalSerialize(c) = t /\ FriendResultCode_ByteSizeLong(c) = size
  BY FriendResultCodeIs
<1> HIDE DEF c
<1>3. w = WrittenResult(b.result)
  BY <1>1, Zenon DEF WrittenResult
<1> HIDE DEF size, t
<1>4. GetFriendListResponse_InternalSerialize(b) = w \o WrittenFriends(b.friends) \o b.unknown
  BY <1>2, Zenon DEF GetFriendListResponse_InternalSerialize, WrittenFriends, c
<1>5. GetFriendListResponse_ByteSizeLong(b)
      = Len(b.friends) + SizesOfFriends(b.friends)
        + SizeWhen(b.result # <<>>, 1 + VarintSize(size) + size) + Len(b.unknown)
  BY <1>2, Zenon DEF GetFriendListResponse_ByteSizeLong, SizesOfFriends, c
<1> HIDE DEF w
<1> QED
  BY <1>1, <1>3, <1>4, <1>5, Zenon DEF size

(* The bytes of a GetFriendListResponse take any other to the merge of the *)
(* two.                                                                    *)
LEMMA GetFriendListResponseReads ==
  ASSUME NEW deep \in BOOLEAN, deep, NEW m \in GetFriendListResponses, NEW b \in GetFriendListResponses
  PROVE  Reads(deep, GetFriendListResponse_InternalParse, GetFriendListResponse_InternalSerialize(b), m,
               GetFriendListResponse_MergeFrom(m, b))
<1> DEFINE cases == GetFriendListResponse_InternalParse
           r == m.result
           f == m.friends
           u == m.unknown
           v == b.friends
           r1 == MergedResult(r, b.result)
           f1 == f \o v
           u1 == u \o b.unknown
           w1 == WrittenResult(b.result)
           w2 == WrittenFriends(v)
<1>1. /\ m = GetFriendListResponseOf(r, f, u)
      /\ u \in Bytes /\ r \in Results /\ f \in Seq(Strings)
      /\ b.result \in Results /\ v \in Seq(Strings)
      /\ b.unknown \in Strange(cases) /\ b.unknown \in Bytes
  BY GetFriendListResponseIs, GetFriendListResponseHolds
<1>2. GetFriendListResponse_InternalSerialize(b) = w1 \o w2 \o b.unknown
  BY GetFriendListResponseWritten
<1>3. GetFriendListResponse_MergeFrom(m, b) = GetFriendListResponseOf(r1, f1, u1)
  BY <1>1, GetFriendListResponseMerged
<1> HIDE DEF cases, u, u1, r, f, v, f1
<1>4. Reads(deep, cases, w1, GetFriendListResponseOf(r, f, u), GetFriendListResponseOf(r1, f, u))
  <2> DEFINE m0 == GetFriendListResponseOf(r, f, u)
             m1 == GetFriendListResponseOf(r1, f, u)
  <2>1. 10 \in DOMAIN cases /\ cases[10] = AsMessage("result", ResultCode, ResultCode_InternalParse)
    BY GetFriendListResponseCases DEF cases
  <2>2. [m0 EXCEPT !["result"] = r1] = m1 /\ m0["result"] = r
    BY GetFriendListResponseIs
  <2>3. b.result = <<>> => m1 = m0
    BY DEF MergedResult, Either
  <2> HIDE DEF m0, m1
  <2>4. Reads(deep, cases, w1, m0, m1)
    BY <1>1, <2>1, <2>2, <2>3, ReadsResult
  <2> QED
    BY <2>4 DEF m0, m1
<1> HIDE DEF r1
<1>5. Reads(deep, cases, w2, GetFriendListResponseOf(r1, f, u), GetFriendListResponseOf(r1, f1, u))
  <2> DEFINE msgs == [x \in Seq(Strings) |-> GetFriendListResponseOf(r1, x, u)]
  <2>1. \A x \in Seq(Strings) : msgs[x] = GetFriendListResponseOf(r1, x, u)
    OBVIOUS
  <2>2. \A y, z \in Seq(Strings) : msgs[y]["friends"] = y /\ [msgs[y] EXCEPT !["friends"] = z] = msgs[z]
    BY <2>1, GetFriendListResponseIs
  <2> HIDE DEF msgs
  <2>3. 18 \in DOMAIN cases /\ cases[18] = AddBytes("friends")
    BY GetFriendListResponseCases DEF cases
  <2>4. Reads(deep, cases, w2, msgs[f], msgs[f1])
    BY <1>1, <2>2, <2>3, ReadsFriends DEF f1
  <2>5. f1 \in Seq(Strings)
    BY <1>1, ConcatProperties DEF f1
  <2> QED
    BY <1>1, <2>1, <2>4, <2>5
<1> HIDE DEF w1, w2
<1>6. Reads(deep, cases, b.unknown,
             GetFriendListResponseOf(r1, f1, u), GetFriendListResponseOf(r1, f1, u1))
  <2> DEFINE msgs == [x \in Bytes |-> GetFriendListResponseOf(r1, f1, x)]
  <2>1. \A x \in Bytes : msgs[x] = GetFriendListResponseOf(r1, f1, x)
    OBVIOUS
  <2>2. \A x, y \in Bytes : msgs[x].unknown = x /\ [msgs[x] EXCEPT !.unknown = y] = msgs[y]
    BY <2>1, GetFriendListResponseIs
  <2> HIDE DEF msgs
  <2>3. Reads(deep, cases, b.unknown, msgs[u], msgs[u1])
    <3>1. \A tag \in DOMAIN cases : cases[tag].kind # "unknown"
      BY GetFriendListResponseCases DEF cases
    <3> QED
      BY <1>1, <2>2, <3>1, ReadsUnknown DEF u1
  <2>4. u1 \in Bytes
    BY <1>1, BytesJoined DEF u1
  <2> QED
    BY <1>1, <2>1, <2>3, <2>4
<1>7. Reads(deep, cases, w1 \o w2 \o b.unknown, GetFriendListResponseOf(r, f, u),
            GetFriendListResponseOf(r1, f1, u1))
  <2>1. Reads(deep, cases, w1 \o w2, GetFriendListResponseOf(r, f, u), GetFriendListResponseOf(r1, f1, u))
    BY <1>4, <1>5, ReadsBoth
  <2> QED
    BY <2>1, <1>6, ReadsBoth
<1> QED
  BY <1>1, <1>2, <1>3, <1>7 DEF cases

(* Clear leaves an empty GetFriendListResponse, into which another is      *)
(* merged as it is.                                                        *)
LEMMA GetFriendListResponseCopies ==
  ASSUME NEW a \in GetFriendListResponses, NEW b \in GetFriendListResponses
  PROVE  /\ GetFriendListResponse_Clear(a) \in GetFriendListResponses
         /\ GetFriendListResponse_MergeFrom(GetFriendListResponse_Clear(a), b) = b
<1> DEFINE e == <<>>
           c == GetFriendListResponseOf(e, e, e)
<1>1. GetFriendListResponse_Clear(a) = c
  <2>1. GetFriendListResponse_Clear(a) = [a EXCEPT !.friends = e, !.result = e, !.unknown = e]
    BY DEF GetFriendListResponse_Clear
  <2> HIDE DEF e, c
  <2>2. GetFriendListResponse_Clear(a) = [[[a EXCEPT !.friends = e] EXCEPT !.result = e] EXCEPT !.unknown = e]
    BY <2>1
  <2>3. a = GetFriendListResponseOf(a.result, a.friends, a.unknown)
    BY GetFriendListResponseIs
  <2>4. [GetFriendListResponseOf(a.result, a.friends, a.unknown) EXCEPT !.friends = e]
        = GetFriendListResponseOf(a.result, e, a.unknown)
    BY GetFriendListResponseIs
  <2>5. [GetFriendListResponseOf(a.result, e, a.unknown) EXCEPT !.result = e]
        = GetFriendListResponseOf(e, e, a.unknown)
    BY GetFriendListResponseIs
  <2>6. [GetFriendListResponseOf(e, e, a.unknown) EXCEPT !.unknown = e] = c
    BY GetFriendListResponseIs DEF c
  <2> QED
    BY <2>2, <2>3, <2>4, <2>5, <2>6, Zenon
<1>2. c \in GetFriendListResponses
  <2>1. e \in FriendResults /\ e \in Seq(Strings) /\ e \in Strange(GetFriendListResponse_InternalParse)
    BY NothingStrange DEF FriendResults
  <2> HIDE DEF e
  <2> QED
    BY <2>1 DEF GetFriendListResponses, GetFriendListResponseOf
<1>3. GetFriendListResponse_MergeFrom(c, b) = b
  <2> DEFINE r1 == MergedResult(e, b.result)
  <2>1. GetFriendListResponse_MergeFrom(c, b)
        = GetFriendListResponseOf(r1, e \o b.friends, e \o b.unknown)
    <3> HIDE DEF e
    <3> QED
      BY GetFriendListResponseMerged
  <2>2. b.result \in Results /\ b.friends \in Seq(Strings) /\ b.unknown \in Bytes
    BY GetFriendListResponseHolds
  <2>3. r1 = b.result
    BY <2>2, NewResult
  <2>4. e \o b.friends = b.friends
    BY <2>2, ConcatEmptySeq
  <2>5. e \o b.unknown = b.unknown
    BY <2>2, Joins
  <2> HIDE DEF e, c, r1
  <2>6. b = GetFriendListResponseOf(b.result, b.friends, b.unknown)
    BY GetFriendListResponseIs
  <2> QED
    BY <2>1, <2>3, <2>4, <2>5, <2>6, Zenon
<1> QED
  BY <1>1, <1>2, <1>3

(* A GetFriendListResponse announces the number of bytes it writes.        *)
LEMMA GetFriendListResponseSize ==
  ASSUME NEW b \in GetFriendListResponses
  PROVE  /\ GetFriendListResponse_ByteSizeLong(b) = Len(GetFriendListResponse_InternalSerialize(b))
         /\ GetFriendListResponse_InternalSerialize(b) \in Bytes
<1> DEFINE size == ResultCode_ByteSizeLong(There(b.result))
           v == b.friends
           w1 == WrittenResult(b.result)
           w2 == WrittenFriends(v)
           k1 == SizeWhen(b.result # <<>>, 1 + VarintSize(size) + size)
           k2 == SizesOfFriends(v)
           n == Len(v)
           l == Len(b.unknown)
<1>1. b.result \in Results /\ v \in Seq(Strings) /\ b.unknown \in Bytes
  BY GetFriendListResponseHolds
<1>2. w1 \in Bytes /\ Len(w1) = k1
  BY <1>1, ResultLen
<1>3. w2 \in Bytes /\ Len(w2) = n + k2
  BY <1>1, FriendsLen
<1>4. /\ GetFriendListResponse_InternalSerialize(b) = w1 \o w2 \o b.unknown
      /\ GetFriendListResponse_ByteSizeLong(b) = n + k2 + k1 + l
  BY GetFriendListResponseWritten
<1>5. k1 \in Nat /\ k2 \in Nat /\ n \in Nat /\ l \in Nat
  <2>1. k1 \in Nat
    BY <1>2, BytesAre
  <2>2. k2 \in Nat
    BY <1>1, FriendsLen
  <2>3. n \in Nat
    BY <1>1, FriendBytes
  <2>4. l \in Nat
    BY <1>1, BytesAre
  <2> QED
    BY <2>1, <2>2, <2>3, <2>4
<1> DEFINE w == w1 \o w2
<1>6. w \in Bytes /\ Len(w) = Len(w1) + Len(w2)
  <2> HIDE DEF w1, w2
  <2> QED
    BY <1>2, <1>3, BytesJoined
<1>7. GetFriendListResponse_InternalSerialize(b) = w \o b.unknown
  BY <1>4
<1> HIDE DEF w, w1, w2, k1, k2, n
<1>8. w \o b.unknown \in Bytes /\ Len(w \o b.unknown) = Len(w) + l
  BY <1>1, <1>6, BytesJoined
<1> HIDE DEF l
<1>9. Len(w) + l = n + k2 + k1 + l
  BY <1>2, <1>3, <1>5, <1>6
<1> QED
  BY <1>4, <1>7, <1>8, <1>9, Zenon

-----------------------------------------------------------------------------
(* All classes                                                             *)

AgreesOn(a, b) ==
    /\ Codec(InternalParse(a), a, b, Clear(a), SerializeToString(a), SerializeToString(b), MergeFrom(a, b))
    /\ ByteSizeLong(b) = Len(SerializeToString(b))
    /\ CopyFrom(a, b) = b

(* A RpcHeader and another: what the codec promises of them.               *)
LEMMA RpcHeaderAgrees == \A a, b \in RpcHeaders : AgreesOn(a, b)
<1> SUFFICES ASSUME NEW a \in RpcHeaders, NEW b \in RpcHeaders PROVE AgreesOn(a, b)
  OBVIOUS
<1> DEFINE yes == TRUE
           cases == RpcHeader_InternalParse
           c == RpcHeader_Clear(a)
           s == RpcHeader_InternalSerialize(a)
           t == RpcHeader_InternalSerialize(b)
           ab == RpcHeader_MergeFrom(a, b)
<1>1. a.type = "RpcHeader" /\ b.type = "RpcHeader"
  BY DEF RpcHeaders
<1>2. /\ InternalParse(a) = cases /\ Clear(a) = c /\ SerializeToString(a) = s
      /\ SerializeToString(b) = t /\ MergeFrom(a, b) = ab /\ ByteSizeLong(b) = RpcHeader_ByteSizeLong(b)
      /\ CopyFrom(a, b) = RpcHeader_MergeFrom(c, b)
  <2>1. InternalParse(a) = cases
    BY <1>1 DEF InternalParse
  <2>2. Clear(a) = c
    BY <1>1 DEF Clear
  <2>3. SerializeToString(a) = s /\ SerializeToString(b) = t
    BY <1>1 DEF SerializeToString
  <2>4. MergeFrom(a, b) = ab
    BY <1>1 DEF MergeFrom
  <2>5. ByteSizeLong(b) = RpcHeader_ByteSizeLong(b)
    BY <1>1 DEF ByteSizeLong
  <2>6. CopyFrom(a, b) = RpcHeader_MergeFrom(c, b)
    BY <1>1 DEF CopyFrom, RpcHeader_CopyFrom
  <2> QED
    BY <2>1, <2>2, <2>3, <2>4, <2>5, <2>6
<1>3. c \in RpcHeaders /\ RpcHeader_MergeFrom(c, a) = a /\ RpcHeader_MergeFrom(c, b) = b
  BY RpcHeaderCopies
<1>4. RpcHeader_ByteSizeLong(b) = Len(t)
  BY RpcHeaderSize
<1>5. yes \in BOOLEAN /\ yes
  OBVIOUS
<1> HIDE DEF yes
<1>6. /\ Reads(yes, cases, s, c, RpcHeader_MergeFrom(c, a))
      /\ Reads(yes, cases, t, c, RpcHeader_MergeFrom(c, b))
      /\ Reads(yes, cases, t, a, ab)
  <2> HIDE DEF c
  <2> QED
    BY <1>3, <1>5, RpcHeaderReads
<1> HIDE DEF cases, c, s, t, ab
<1>7. Codec(cases, a, b, c, s, t, ab)
  BY <1>3, <1>6, Zenon DEF Codec, yes
<1> QED
  BY <1>2, <1>3, <1>4, <1>7, Zenon DEF AgreesOn

(* A ResultCode and another: what the codec promises of them.              *)
LEMMA ResultCodeAgrees == \A a, b \in ResultCodes : AgreesOn(a, b)
<1> SUFFICES ASSUME NEW a \in ResultCodes, NEW b \in ResultCodes PROVE AgreesOn(a, b)
  OBVIOUS
<1> DEFINE yes == TRUE
           cases == ResultCode_InternalParse
           c == ResultCode_Clear(a)
           s == ResultCode_InternalSerialize(a)
           t == ResultCode_InternalSerialize(b)
           ab == ResultCode_MergeFrom(a, b)
<1>1. a.type = "ResultCode" /\ b.type = "ResultCode"
  BY DEF ResultCodes
<1>2. /\ InternalParse(a) = cases /\ Clear(a) = c /\ SerializeToString(a) = s
      /\ SerializeToString(b) = t /\ MergeFrom(a, b) = ab /\ ByteSizeLong(b) = ResultCode_ByteSizeLong(b)
      /\ CopyFrom(a, b) = ResultCode_MergeFrom(c, b)
  <2>1. InternalParse(a) = cases
    BY <1>1 DEF InternalParse
  <2>2. Clear(a) = c
    BY <1>1 DEF Clear
  <2>3. SerializeToString(a) = s /\ SerializeToString(b) = t
    BY <1>1 DEF SerializeToString
  <2>4. MergeFrom(a, b) = ab
    BY <1>1 DEF MergeFrom
  <2>5. ByteSizeLong(b) = ResultCode_ByteSizeLong(b)
    BY <1>1 DEF ByteSizeLong
  <2>6. CopyFrom(a, b) = ResultCode_MergeFrom(c, b)
    BY <1>1 DEF CopyFrom, ResultCode_CopyFrom
  <2> QED
    BY <2>1, <2>2, <2>3, <2>4, <2>5, <2>6
<1>3. c \in ResultCodes /\ ResultCode_MergeFrom(c, a) = a /\ ResultCode_MergeFrom(c, b) = b
  BY ResultCodeCopies
<1>4. ResultCode_ByteSizeLong(b) = Len(t)
  BY ResultCodeSize
<1>5. yes \in BOOLEAN /\ yes
  OBVIOUS
<1> HIDE DEF yes
<1>6. /\ Reads(yes, cases, s, c, ResultCode_MergeFrom(c, a))
      /\ Reads(yes, cases, t, c, ResultCode_MergeFrom(c, b))
      /\ Reads(yes, cases, t, a, ab)
  <2> HIDE DEF c
  <2> QED
    BY <1>3, <1>5, ResultCodeReads
<1> HIDE DEF cases, c, s, t, ab
<1>7. Codec(cases, a, b, c, s, t, ab)
  BY <1>3, <1>6, Zenon DEF Codec, yes
<1> QED
  BY <1>2, <1>3, <1>4, <1>7, Zenon DEF AgreesOn

(* A LoginRequest and another: what the codec promises of them.            *)
LEMMA LoginRequestAgrees == \A a, b \in LoginRequests : AgreesOn(a, b)
<1> SUFFICES ASSUME NEW a \in LoginRequests, NEW b \in LoginRequests PROVE AgreesOn(a, b)
  OBVIOUS
<1> DEFINE yes == TRUE
           cases == LoginRequest_InternalParse
           c == LoginRequest_Clear(a)
           s == LoginRequest_InternalSerialize(a)
           t == LoginRequest_InternalSerialize(b)
           ab == LoginRequest_MergeFrom(a, b)
<1>1. a.type = "LoginRequest" /\ b.type = "LoginRequest"
  BY DEF LoginRequests
<1>2. /\ InternalParse(a) = cases /\ Clear(a) = c /\ SerializeToString(a) = s
      /\ SerializeToString(b) = t /\ MergeFrom(a, b) = ab /\ ByteSizeLong(b) = LoginRequest_ByteSizeLong(b)
      /\ CopyFrom(a, b) = LoginRequest_MergeFrom(c, b)
  <2>1. InternalParse(a) = cases
    BY <1>1 DEF InternalParse
  <2>2. Clear(a) = c
    BY <1>1 DEF Clear
  <2>3. SerializeToString(a) = s /\ SerializeToString(b) = t
    BY <1>1 DEF SerializeToString
  <2>4. MergeFrom(a, b) = ab
    BY <1>1 DEF MergeFrom
  <2>5. ByteSizeLong(b) = LoginRequest_ByteSizeLong(b)
    BY <1>1 DEF ByteSizeLong
  <2>6. CopyFrom(a, b) = LoginRequest_MergeFrom(c, b)
    BY <1>1 DEF CopyFrom, LoginRequest_CopyFrom
  <2> QED
    BY <2>1, <2>2, <2>3, <2>4, <2>5, <2>6
<1>3./\  c \in LoginRequests
     /\ LoginRequest_MergeFrom(c, a) = a
     /\ LoginRequest_MergeFrom(c, b) = b
  BY LoginRequestCopies
<1>4. LoginRequest_ByteSizeLong(b) = Len(t)
  BY LoginRequestSize
<1>5. yes \in BOOLEAN /\ yes
  OBVIOUS
<1> HIDE DEF yes
<1>6. /\ Reads(yes, cases, s, c, LoginRequest_MergeFrom(c, a))
      /\ Reads(yes, cases, t, c, LoginRequest_MergeFrom(c, b))
      /\ Reads(yes, cases, t, a, ab)
  <2> HIDE DEF c
  <2> QED
    BY <1>3, <1>5, LoginRequestReads
<1> HIDE DEF cases, c, s, t, ab
<1>7. Codec(cases, a, b, c, s, t, ab)
  BY <1>3, <1>6, Zenon DEF Codec, yes
<1> QED
  BY <1>2, <1>3, <1>4, <1>7, Zenon DEF AgreesOn

(* A LoginResponse and another: what the codec promises of them.           *)
LEMMA LoginResponseAgrees == \A a, b \in LoginResponses : AgreesOn(a, b)
<1> SUFFICES ASSUME NEW a \in LoginResponses, NEW b \in LoginResponses PROVE AgreesOn(a, b)
  OBVIOUS
<1> DEFINE yes == TRUE
           cases == LoginResponse_InternalParse
           c == LoginResponse_Clear(a)
           s == LoginResponse_InternalSerialize(a)
           t == LoginResponse_InternalSerialize(b)
           ab == LoginResponse_MergeFrom(a, b)
<1>1. a.type = "LoginResponse" /\ b.type = "LoginResponse"
  BY DEF LoginResponses
<1>2. /\ InternalParse(a) = cases /\ Clear(a) = c /\ SerializeToString(a) = s
      /\ SerializeToString(b) = t /\ MergeFrom(a, b) = ab /\ ByteSizeLong(b) = LoginResponse_ByteSizeLong(b)
      /\ CopyFrom(a, b) = LoginResponse_MergeFrom(c, b)
  <2>1. InternalParse(a) = cases
    BY <1>1 DEF InternalParse
  <2>2. Clear(a) = c
    BY <1>1 DEF Clear
  <2>3. SerializeToString(a) = s /\ SerializeToString(b) = t
    BY <1>1 DEF SerializeToString
  <2>4. MergeFrom(a, b) = ab
    BY <1>1 DEF MergeFrom
  <2>5. ByteSizeLong(b) = LoginResponse_ByteSizeLong(b)
    BY <1>1 DEF ByteSizeLong
  <2>6. CopyFrom(a, b) = LoginResponse_MergeFrom(c, b)
    BY <1>1 DEF CopyFrom, LoginResponse_CopyFrom
  <2> QED
    BY <2>1, <2>2, <2>3, <2>4, <2>5, <2>6
<1>3./\  c \in LoginResponses
     /\ LoginResponse_MergeFrom(c, a) = a
     /\ LoginResponse_MergeFrom(c, b) = b
  BY LoginResponseCopies
<1>4. LoginResponse_ByteSizeLong(b) = Len(t)
  BY LoginResponseSize
<1>5. yes \in BOOLEAN /\ yes
  OBVIOUS
<1> HIDE DEF yes
<1>6. /\ Reads(yes, cases, s, c, LoginResponse_MergeFrom(c, a))
      /\ Reads(yes, cases, t, c, LoginResponse_MergeFrom(c, b))
      /\ Reads(yes, cases, t, a, ab)
  <2> HIDE DEF c
  <2> QED
    BY <1>3, <1>5, LoginResponseReads
<1> HIDE DEF cases, c, s, t, ab
<1>7. Codec(cases, a, b, c, s, t, ab)
  BY <1>3, <1>6, Zenon DEF Codec, yes
<1> QED
  BY <1>2, <1>3, <1>4, <1>7, Zenon DEF AgreesOn

(* A RegisterRequest and another: what the codec promises of them.         *)
LEMMA RegisterRequestAgrees == \A a, b \in RegisterRequests : AgreesOn(a, b)
<1> SUFFICES ASSUME NEW a \in RegisterRequests, NEW b \in RegisterRequests PROVE AgreesOn(a, b)
  OBVIOUS
<1> DEFINE yes == TRUE
           cases == RegisterRequest_InternalParse
           c == RegisterRequest_Clear(a)
           s == RegisterRequest_InternalSerialize(a)
           t == RegisterRequest_InternalSerialize(b)
           ab == RegisterRequest_MergeFrom(a, b)
<1>1. a.type = "RegisterRequest" /\ b.type = "RegisterRequest"
  BY DEF RegisterRequests
<1>2. /\ InternalParse(a) = cases /\ Clear(a) = c /\ SerializeToString(a) = s
      /\ SerializeToString(b) = t /\ MergeFrom(a, b) = ab /\ ByteSizeLong(b) = RegisterRequest_ByteSizeLong(b)
      /\ CopyFrom(a, b) = RegisterRequest_MergeFrom(c, b)
  <2>1. InternalParse(a) = cases
    BY <1>1 DEF InternalParse
  <2>2. Clear(a) = c
    BY <1>1 DEF Clear
  <2>3. SerializeToString(a) = s /\ SerializeToString(b) = t
    BY <1>1 DEF SerializeToString
  <2>4. MergeFrom(a, b) = ab
    BY <1>1 DEF MergeFrom
  <2>5. ByteSizeLong(b) = RegisterRequest_ByteSizeLong(b)
    BY <1>1 DEF ByteSizeLong
  <2>6. CopyFrom(a, b) = RegisterRequest_MergeFrom(c, b)
    BY <1>1 DEF CopyFrom, RegisterRequest_CopyFrom
  <2> QED
    BY <2>1, <2>2, <2>3, <2>4, <2>5, <2>6
<1>3./\  c \in RegisterRequests
     /\ RegisterRequest_MergeFrom(c, a) = a
     /\ RegisterRequest_MergeFrom(c, b) = b
  BY RegisterRequestCopies
<1>4. RegisterRequest_ByteSizeLong(b) = Len(t)
  BY RegisterRequestSize
<1>5. yes \in BOOLEAN /\ yes
  OBVIOUS
<1> HIDE DEF yes
<1>6. /\ Reads(yes, cases, s, c, RegisterRequest_MergeFrom(c, a))
      /\ Reads(yes, cases, t, c, RegisterRequest_MergeFrom(c, b))
      /\ Reads(yes, cases, t, a, ab)
  <2> HIDE DEF c
  <2> QED
    BY <1>3, <1>5, RegisterRequestReads
<1> HIDE DEF cases, c, s, t, ab
<1>7. Codec(cases, a, b, c, s, t, ab)
  BY <1>3, <1>6, Zenon DEF Codec, yes
<1> QED
  BY <1>2, <1>3, <1>4, <1>7, Zenon DEF AgreesOn

(* A RegisterResponse and another: what the codec promises of them.        *)
LEMMA RegisterResponseAgrees == \A a, b \in RegisterResponses : AgreesOn(a, b)
<1> SUFFICES ASSUME NEW a \in RegisterResponses, NEW b \in RegisterResponses PROVE AgreesOn(a, b)
  OBVIOUS
<1> DEFINE yes == TRUE
           cases == RegisterResponse_InternalParse
           c == RegisterResponse_Clear(a)
           s == RegisterResponse_InternalSerialize(a)
           t == RegisterResponse_InternalSerialize(b)
           ab == RegisterResponse_MergeFrom(a, b)
<1>1. a.type = "RegisterResponse" /\ b.type = "RegisterResponse"
  BY DEF RegisterResponses
<1>2. /\ InternalParse(a) = cases /\ Clear(a) = c /\ SerializeToString(a) = s
      /\ SerializeToString(b) = t /\ MergeFrom(a, b) = ab /\ ByteSizeLong(b) = RegisterResponse_ByteSizeLong(b)
      /\ CopyFrom(a, b) = RegisterResponse_MergeFrom(c, b)
  <2>1. InternalParse(a) = cases
    BY <1>1 DEF InternalParse
  <2>2. Clear(a) = c
    BY <1>1 DEF Clear
  <2>3. SerializeToString(a) = s /\ SerializeToString(b) = t
    BY <1>1 DEF SerializeToString
  <2>4. MergeFrom(a, b) = ab
    BY <1>1 DEF MergeFrom
  <2>5. ByteSizeLong(b) = RegisterResponse_ByteSizeLong(b)
    BY <1>1 DEF ByteSizeLong
  <2>6. CopyFrom(a, b) = RegisterResponse_MergeFrom(c, b)
    BY <1>1 DEF CopyFrom, RegisterResponse_CopyFrom
  <2> QED
    BY <2>1, <2>2, <2>3, <2>4, <2>5, <2>6
<1>3./\  c \in RegisterResponses
     /\ RegisterResponse_MergeFrom(c, a) = a
     /\ RegisterResponse_MergeFrom(c, b) = b
  BY RegisterResponseCopies
<1>4. RegisterResponse_ByteSizeLong(b) = Len(t)
  BY RegisterResponseSize
<1>5. yes \in BOOLEAN /\ yes
  OBVIOUS
<1> HIDE DEF yes
<1>6. /\ Reads(yes, cases, s, c, RegisterResponse_MergeFrom(c, a))
      /\ Reads(yes, cases, t, c, RegisterResponse_MergeFrom(c, b))
      /\ Reads(yes, cases, t, a, ab)
  <2> HIDE DEF c
  <2> QED
    BY <1>3, <1>5, RegisterResponseReads
<1> HIDE DEF cases, c, s, t, ab
<1>7. Codec(cases, a, b, c, s, t, ab)
  BY <1>3, <1>6, Zenon DEF Codec, yes
<1> QED
  BY <1>2, <1>3, <1>4, <1>7, Zenon DEF AgreesOn

(* A GetFriendListRequest and another: what the codec promises of them.    *)
LEMMA GetFriendListRequestAgrees == \A a, b \in GetFriendListRequests : AgreesOn(a, b)
<1> SUFFICES ASSUME NEW a \in GetFriendListRequests, NEW b \in GetFriendListRequests
             PROVE AgreesOn(a, b)
  OBVIOUS
<1> DEFINE yes == TRUE
           cases == GetFriendListRequest_InternalParse
           c == GetFriendListRequest_Clear(a)
           s == GetFriendListRequest_InternalSerialize(a)
           t == GetFriendListRequest_InternalSerialize(b)
           ab == GetFriendListRequest_MergeFrom(a, b)
<1>1. a.type = "GetFriendListRequest" /\ b.type = "GetFriendListRequest"
  BY DEF GetFriendListRequests
<1>2. /\ InternalParse(a) = cases /\ Clear(a) = c /\ SerializeToString(a) = s
      /\ SerializeToString(b) = t /\ MergeFrom(a, b) = ab /\ ByteSizeLong(b) = GetFriendListRequest_ByteSizeLong(b)
      /\ CopyFrom(a, b) = GetFriendListRequest_MergeFrom(c, b)
  <2>1. InternalParse(a) = cases
    BY <1>1 DEF InternalParse
  <2>2. Clear(a) = c
    BY <1>1 DEF Clear
  <2>3. SerializeToString(a) = s /\ SerializeToString(b) = t
    BY <1>1 DEF SerializeToString
  <2>4. MergeFrom(a, b) = ab
    BY <1>1 DEF MergeFrom
  <2>5. ByteSizeLong(b) = GetFriendListRequest_ByteSizeLong(b)
    BY <1>1 DEF ByteSizeLong
  <2>6. CopyFrom(a, b) = GetFriendListRequest_MergeFrom(c, b)
    BY <1>1 DEF CopyFrom, GetFriendListRequest_CopyFrom
  <2> QED
    BY <2>1, <2>2, <2>3, <2>4, <2>5, <2>6
<1>3./\  c \in GetFriendListRequests
     /\ GetFriendListRequest_MergeFrom(c, a) = a
     /\ GetFriendListRequest_MergeFrom(c, b) = b
  BY GetFriendListRequestCopies
<1>4. GetFriendListRequest_ByteSizeLong(b) = Len(t)
  BY GetFriendListRequestSize
<1>5. yes \in BOOLEAN /\ yes
  OBVIOUS
<1> HIDE DEF yes
<1>6. /\ Reads(yes, cases, s, c, GetFriendListRequest_MergeFrom(c, a))
      /\ Reads(yes, cases, t, c, GetFriendListRequest_MergeFrom(c, b))
      /\ Reads(yes, cases, t, a, ab)
  <2> HIDE DEF c
  <2> QED
    BY <1>3, <1>5, GetFriendListRequestReads
<1> HIDE DEF cases, c, s, t, ab
<1>7. Codec(cases, a, b, c, s, t, ab)
  BY <1>3, <1>6, Zenon DEF Codec, yes
<1> QED
  BY <1>2, <1>3, <1>4, <1>7, Zenon DEF AgreesOn

(* A GetFriendListResponse and another: what the codec promises of them.   *)
LEMMA GetFriendListResponseAgrees == \A a, b \in GetFriendListResponses : AgreesOn(a, b)
<1> SUFFICES ASSUME NEW a \in GetFriendListResponses, NEW b \in GetFriendListResponses
             PROVE AgreesOn(a, b)
  OBVIOUS
<1> DEFINE yes == TRUE
           cases == GetFriendListResponse_InternalParse
           c == GetFriendListResponse_Clear(a)
           s == GetFriendListResponse_InternalSerialize(a)
           t == GetFriendListResponse_InternalSerialize(b)
           ab == GetFriendListResponse_MergeFrom(a, b)
<1>1. a.type = "GetFriendListResponse" /\ b.type = "GetFriendListResponse"
  BY DEF GetFriendListResponses
<1>2. /\ InternalParse(a) = cases /\ Clear(a) = c /\ SerializeToString(a) = s
      /\ SerializeToString(b) = t /\ MergeFrom(a, b) = ab /\ ByteSizeLong(b) = GetFriendListResponse_ByteSizeLong(b)
      /\ CopyFrom(a, b) = GetFriendListResponse_MergeFrom(c, b)
  <2>1. InternalParse(a) = cases
    BY <1>1 DEF InternalParse
  <2>2. Clear(a) = c
    BY <1>1 DEF Clear
  <2>3. SerializeToString(a) = s /\ SerializeToString(b) = t
    BY <1>1 DEF SerializeToString
  <2>4. MergeFrom(a, b) = ab
    BY <1>1 DEF MergeFrom
  <2>5. ByteSizeLong(b) = GetFriendListResponse_ByteSizeLong(b)
    BY <1>1 DEF ByteSizeLong
  <2>6. CopyFrom(a, b) = GetFriendListResponse_MergeFrom(c, b)
    BY <1>1 DEF CopyFrom, GetFriendListResponse_CopyFrom
  <2> QED
    BY <2>1, <2>2, <2>3, <2>4, <2>5, <2>6
<1>3./\  c \in GetFriendListResponses
     /\ GetFriendListResponse_MergeFrom(c, a) = a
     /\ GetFriendListResponse_MergeFrom(c, b) = b
  BY GetFriendListResponseCopies
<1>4. GetFriendListResponse_ByteSizeLong(b) = Len(t)
  BY GetFriendListResponseSize
<1>5. yes \in BOOLEAN /\ yes
  OBVIOUS
<1> HIDE DEF yes
<1>6. /\ Reads(yes, cases, s, c, GetFriendListResponse_MergeFrom(c, a))
      /\ Reads(yes, cases, t, c, GetFriendListResponse_MergeFrom(c, b))
      /\ Reads(yes, cases, t, a, ab)
  <2> HIDE DEF c
  <2> QED
    BY <1>3, <1>5, GetFriendListResponseReads
<1> HIDE DEF cases, c, s, t, ab
<1>7. Codec(cases, a, b, c, s, t, ab)
  BY <1>3, <1>6, Zenon DEF Codec, yes
<1> QED
  BY <1>2, <1>3, <1>4, <1>7, Zenon DEF AgreesOn

(* Two messages of one type are of one class.                              *)
LEMMA OneClass ==
  \A a, b \in AnyMessage :
     a.type = b.type
     => \/ a \in RpcHeaders /\ b \in RpcHeaders
        \/ a \in ResultCodes /\ b \in ResultCodes
        \/ a \in LoginRequests /\ b \in LoginRequests
        \/ a \in LoginResponses /\ b \in LoginResponses
        \/ a \in RegisterRequests /\ b \in RegisterRequests
        \/ a \in RegisterResponses /\ b \in RegisterResponses
        \/ a \in GetFriendListRequests /\ b \in GetFriendListRequests
        \/ a \in GetFriendListResponses /\ b \in GetFriendListResponses
<1>1. /\ \A m \in RpcHeaders : m.type = "RpcHeader"
      /\ \A m \in ResultCodes : m.type = "ResultCode"
      /\ \A m \in LoginRequests : m.type = "LoginRequest"
      /\ \A m \in LoginResponses : m.type = "LoginResponse"
  BY DEF RpcHeaders, ResultCodes, LoginRequests, LoginResponses
<1>2. /\ \A m \in RegisterRequests : m.type = "RegisterRequest"
      /\ \A m \in RegisterResponses : m.type = "RegisterResponse"
      /\ \A m \in GetFriendListRequests : m.type = "GetFriendListRequest"
      /\ \A m \in GetFriendListResponses : m.type = "GetFriendListResponse"
  BY DEF RegisterRequests, RegisterResponses, GetFriendListRequests, GetFriendListResponses
<1>3. \A m \in AnyMessage :
         \/ m \in RpcHeaders \/ m \in ResultCodes \/ m \in LoginRequests \/ m \in LoginResponses
         \/ m \in RegisterRequests \/ m \in RegisterResponses
         \/ m \in GetFriendListRequests \/ m \in GetFriendListResponses
  BY DEF AnyMessage
<1> QED
  BY <1>1, <1>2, <1>3

(* The generated code of every class agrees with itself.                   *)
THEOREM MessagesAgree ==
  ASSUME NEW a \in AnyMessage, NEW b \in AnyMessage, a.type = b.type
  PROVE  LET bytes == SerializeToString(b)
         IN /\ ByteSizeLong(b) = Len(bytes)
            /\ ParseFromString(a, bytes) = Begin(b)
            /\ CopyFrom(a, b) = b
            /\ ParseFromString(a, SerializeToString(a) \o bytes) = Begin(MergeFrom(a, b))
<1> DEFINE cases == InternalParse(a)
           c == Clear(a)
           s == SerializeToString(a)
           t == SerializeToString(b)
           ab == MergeFrom(a, b)
<1>1. AgreesOn(a, b)
  BY OneClass, RpcHeaderAgrees, ResultCodeAgrees, LoginRequestAgrees, LoginResponseAgrees,
     RegisterRequestAgrees, RegisterResponseAgrees, GetFriendListRequestAgrees,
     GetFriendListResponseAgrees
<1>2. Codec(cases, a, b, c, s, t, ab) /\ ByteSizeLong(b) = Len(t) /\ CopyFrom(a, b) = b
  BY <1>1 DEF AgreesOn
<1>3. ParseFromString(a, t) = ParseLoop(cases, c, t) /\ ParseFromString(a, s \o t) = ParseLoop(cases, c, s \o t)
  BY DEF ParseFromString
<1> HIDE DEF cases, c, s, t, ab
<1>4. ParseLoop(cases, c, t) = Begin(b) /\ ParseLoop(cases, c, s \o t) = Begin(ab)
  BY <1>2, TwoMessages
<1> QED
  BY <1>2, <1>3, <1>4, Zenon DEF s, t, ab

=============================================================================
