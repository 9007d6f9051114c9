-------------------------------- MODULE Wire --------------------------------
(***************************************************************************)
(* The wire format that the generated messages of the repository use: the  *)
(* loop that every _InternalParse contains, and the functions of the       *)
(* protobuf library that it and the other generated functions call.        *)
(*                                                                         *)
(* A byte is a number below 256, a byte string a sequence of them.  A      *)
(* message is a record with the fields of its class, its type, and the     *)
(* bytes of the fields it does not know.  A pointer to a message is a      *)
(* sequence: empty when null, of one element otherwise.                    *)
(*                                                                         *)
(* A uint32 is represented by the int32 with the same bits, so that all    *)
(* arithmetic stays inside 32 bits.                                        *)
(***************************************************************************)
EXTENDS Integers, Sequences

Min(m, n) == IF m < n THEN m ELSE n

Int31 == {v \in Int : 0 <= v /\ v <= 2147483647}

Int32 == {v \in Int : -2147483647 - 1 <= v /\ v <= 2147483647}

-----------------------------------------------------------------------------
(* Numbers                                                                 *)

(* What a bit of the i-th group of seven counts for, up to 32 bits.        *)
Place == <<1, 128, 16384, 2097152, 268435456>>

Varint[n \in Nat] == IF n < 128 THEN <<n>> ELSE <<128 + (n % 128)>> \o Varint[n \div 128]

(* The i-th group of seven bits of the 64-bit number whose value is v.     *)
Group(v, i) == IF i <= 5 THEN (v \div Place[i]) % 128 ELSE IF v < 0 THEN 127 ELSE 0

(* An int32 is sent as the 64-bit number of the same value: ten bytes when *)
(* it is negative.                                                         *)
Int32Bytes(v) ==
    IF v >= 0 THEN Varint[v] ELSE [i \in 1..10 |-> IF i = 10 THEN 1 ELSE 128 + Group(v, i)]

UInt32Bytes(v) ==
    IF v >= 0
    THEN Varint[v]
    ELSE [i \in 1..5 |-> IF i = 5 THEN Group(v, 5) % 16 ELSE 128 + Group(v, i)]

VarintSize(v) ==
    IF v < 0
    THEN 5
    ELSE CHOOSE n \in 1..5 : (n > 1 => v >= Place[n]) /\ (n < 5 => v < Place[n + 1])

Int32Size(v) == IF v < 0 THEN 10 ELSE VarintSize(v)

BytesSize(v) == VarintSize(Len(v)) + Len(v)

(* The value of the low 32 bits of a varint of n bytes.                    *)
Low32(s, n) ==
    LET term[i \in 0..n] ==
            IF i = 0 THEN 0
            ELSE term[i - 1] + (IF i <= 4 THEN (s[i] % 128) * Place[i]
                                ELSE IF i = 5
                                     THEN LET h == s[5] % 16
                                          IN (IF h >= 8 THEN h - 16 ELSE h) * Place[5]
                                     ELSE 0)
    IN term[n]

Unread == [ok |-> FALSE, value |-> 0, any |-> FALSE, rest |-> <<>>]

Read(value, any, rest) == [ok |-> TRUE, value |-> value, any |-> any, rest |-> rest]

(* ReadVarint64, ReadTag and ReadSize take at most max bytes.  "any" says  *)
(* that some bit of the number is set.                                     *)
ReadVarint(s, max) ==
    LET ends == {i \in 1..Min(Len(s), max) : s[i] < 128}
    IN IF ends = {}
       THEN Unread
       ELSE LET n == CHOOSE i \in ends : \A j \in ends : i <= j
            IN Read(Low32(s, n), \E i \in 1..n : s[i] % 128 # 0, SubSeq(s, n + 1, Len(s)))

(* The bytes behind a size that has been read.                             *)
TakeBytes(size) ==
    IF ~size.ok \/ size.value \notin 0..Len(size.rest)
    THEN Unread
    ELSE Read(SubSeq(size.rest, 1, size.value), size.any,
              SubSeq(size.rest, size.value + 1, Len(size.rest)))

(* A length and as many bytes: the value read is the byte string.          *)
ReadBytes(s) == TakeBytes(ReadVarint(s, 5))

ReadFixed(s, n) == IF Len(s) < n THEN Unread ELSE Read(0, FALSE, SubSeq(s, n + 1, Len(s)))

(* UnknownFieldParse: the field is skipped by its wire type.  A field      *)
(* number 0 is an error.  Groups, which proto3 never writes, are taken for *)
(* an error too.                                                           *)
SkipField(tag, s) ==
    CASE tag \div 8 = 0 -> Unread
      [] tag \div 8 # 0 /\ tag % 8 = 0 -> ReadVarint(s, 10)
      [] tag \div 8 # 0 /\ tag % 8 = 1 -> ReadFixed(s, 8)
      [] tag \div 8 # 0 /\ tag % 8 = 2 -> ReadBytes(s)
      [] tag \div 8 # 0 /\ tag % 8 = 5 -> ReadFixed(s, 4)
      [] OTHER -> Unread

-----------------------------------------------------------------------------
(* Fields                                                                  *)

WriteBytes(number, v) == Varint[8 * number + 2] \o Varint[Len(v)] \o v

(* A nested message: in front of its bytes stands the size that            *)
(* ByteSizeLong has cached in it.                                          *)
WriteMessage(number, size, bytes) == Varint[8 * number + 2] \o Varint[size] \o bytes

WriteInt32(number, v) == Varint[8 * number] \o Int32Bytes(v)

WriteUInt32(number, v) == Varint[8 * number] \o UInt32Bytes(v)

WriteBool(number, v) == Varint[8 * number] \o <<IF v THEN 1 ELSE 0>>

When(condition, bytes) == IF condition THEN bytes ELSE <<>>

SizeWhen(condition, size) == IF condition THEN size ELSE 0

(* What _InternalParse does at a tag: the field the tag belongs to, and    *)
(* how it is read.                                                         *)
AsBytes(field) == [kind |-> "bytes", field |-> field]

AsNumber(field) == [kind |-> "number", field |-> field]

AsBool(field) == [kind |-> "bool", field |-> field]

AddBytes(field) == [kind |-> "repeated", field |-> field]

AddUnknown == [kind |-> "unknown", field |-> "unknown"]

AsMessage(field, new, cases) ==
    [kind |-> "message", field |-> field, new |-> new, cases |-> cases]

(* What a turn of the loop of _InternalParse reads from s: how the field is *)
(* read, its value, and what is behind it.                                 *)
Turn(how, read, value) == [ok |-> read.ok, how |-> how, value |-> value, rest |-> read.rest]

ReadValue(how, number) == Turn(how, number, IF how.kind = "bool" THEN number.any ELSE number.value)

ReadString(how, bytes) == Turn(how, bytes, bytes.value)

ReadField(how, s) ==
    IF how.kind \in {"number", "bool"}
    THEN ReadValue(how, ReadVarint(s, 10))
    ELSE ReadString(how, ReadBytes(s))

(* What stands in front of rest, which is the end of s.                    *)
FrontOf(s, rest) == SubSeq(s, 1, Len(s) - Len(rest))

(* A varint of up to 64 bits, in as few bytes as hold it.                  *)
Shortest(s) ==
    LET group(i) == s[i] % (IF i = 10 THEN 2 ELSE 128)
        used == {i \in DOMAIN s : i = 1 \/ group(i) # 0}
        last == CHOOSE i \in used : \A j \in used : j <= i
    IN [i \in 1..last |-> IF i < last THEN 128 + group(i) ELSE group(i)]

(* What is written behind the size of a field, and behind its tag.         *)
WrittenBytes(size) == Varint[size.value] \o size.rest

WrittenBehind(tag) ==
    UInt32Bytes(tag.value) \o (CASE tag.value % 8 = 0 -> Shortest(tag.rest)
                                 [] tag.value % 8 = 2 -> WrittenBytes(ReadVarint(tag.rest, 5))
                                 [] OTHER -> tag.rest)

(* A field that is not known, as the library writes what it has kept of it *)
(* in an UnknownFieldSet: its numbers in as few bytes as they need.        *)
Written(field) == WrittenBehind(ReadVarint(field, 5))

KeepUnknown(s, skipped) ==
    Turn(AddUnknown, skipped, IF skipped.ok THEN Written(FrontOf(s, skipped.rest)) ELSE <<>>)

AtTag(cases, s, tag) ==
    IF tag.ok /\ tag.value \in DOMAIN cases
    THEN ReadField(cases[tag.value], tag.rest)
    ELSE KeepUnknown(s, IF tag.ok THEN SkipField(tag.value, tag.rest) ELSE Unread)

Bytes == Seq(0..255)

(* The turns, until the end or one that fails.  The end-group tag and the  *)
(* tag 0 end the loop, and who has called finds that it has not come to    *)
(* the end: an error, too.                                                 *)
Turns(cases, s) ==
    LET turns[r \in Bytes] ==
            IF r = <<>> THEN <<>>
            ELSE LET turn == AtTag(cases, r, ReadVarint(r, 5))
                 IN <<turn>> \o (IF turn.ok THEN turns[turn.rest] ELSE <<>>)
    IN turns[s]

(* What a field of bytes may hold.                                         *)
Strings == {s \in Bytes : Len(s) \in Int31}

(* Where the i-th of the turns over u begins.                              *)
BeginOf(u, turns, i) == IF i = 1 THEN u ELSE turns[i - 1].rest

(* What a message may hold of fields that it does not know: whole fields,  *)
(* of which its switch has none, as the library writes them.               *)
Strange(cases) ==
    {u \in Bytes :
        LET turns == Turns(cases, u)
        IN \A i \in DOMAIN turns :
              /\ turns[i].ok
              /\ turns[i].how = AddUnknown
              /\ turns[i].value = FrontOf(BeginOf(u, turns, i), turns[i].rest)}

(* The field of a nested message, which parsing into it has left as inner. *)
StoreMessage(m, field, inner) == [ok |-> inner.ok, msg |-> [m EXCEPT ![field] = <<inner.msg>>]]

(* What a turn does to the message.                                        *)
Store(m, how, value, inner) ==
    CASE how.kind \in {"number", "bool", "bytes"} ->
           [ok |-> TRUE, msg |-> [m EXCEPT ![how.field] = value]]
      [] how.kind = "repeated" -> [ok |-> TRUE, msg |-> [m EXCEPT ![how.field] = Append(@, value)]]
      [] how.kind = "unknown" -> [ok |-> TRUE, msg |-> [m EXCEPT !.unknown = @ \o value]]
      [] how.kind = "message" -> StoreMessage(m, how.field, inner)

Continue(before, turn, inner) ==
    IF before.ok /\ turn.ok
    THEN Store(before.msg, turn.how, turn.value, inner)
    ELSE [before EXCEPT !.ok = FALSE]

(* The loop of _InternalParse, for a message whose switch has the given    *)
(* cases, reading s into m.  What a turn reads does not depend on m, so    *)
(* the reading is separate.  When it fails m is what was read before the   *)
(* field that fails (that field may be changed too; nobody looks at it).   *)
(* No message inside a message has one itself.                             *)
NoMessage == [ok |-> FALSE, msg |-> <<>>]

ParseNested(cases, m, s) ==
    LET turns == Turns(cases, s)
        after[i \in 0..Len(turns)] ==
            IF i = 0 THEN [ok |-> TRUE, msg |-> m] ELSE Continue(after[i - 1], turns[i], NoMessage)
    IN after[Len(turns)]

(* Parsing the message inside goes on from what is there.                  *)
Inner(m, turn) ==
    LET there == m[turn.how.field]
    IN ParseNested(turn.how.cases, IF there = <<>> THEN turn.how.new ELSE there[1], turn.value)

ParseLoop(cases, m, s) ==
    LET turns == Turns(cases, s)
        after[i \in 0..Len(turns)] ==
            IF i = 0
            THEN [ok |-> TRUE, msg |-> m]
            ELSE Continue(after[i - 1], turns[i], Inner(after[i - 1].msg, turns[i]))
    IN after[Len(turns)]

=============================================================================
