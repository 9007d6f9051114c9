---------------------------- MODULE KopirpcConfig ----------------------------
(***************************************************************************)
(* The configuration file: KopirpcConfig (src/src/kopirpcconfig.cc).       *)
(* A file is a sequence of lines, a line a sequence of character codes, a  *)
(* configuration a function from keys to values.  What comes of reading is *)
(* <<config>>, or Exited when the process has called exit(EXIT_FAILURE).   *)
(***************************************************************************)
EXTENDS Integers, Sequences

Exited == <<>>

Space == 32
Sharp == 35
Dot == 46
Equal == 61

IsDigit(c) == c \in 48..57

IsAlnum(c) == IsDigit(c) \/ c \in 65..90 \/ c \in 97..122

Places(c, line) == {i \in DOMAIN line : line[i] = c}

FirstPlace(c, line) == CHOOSE i \in Places(c, line) : \A j \in Places(c, line) : i <= j

TrimSharp(line) ==
    IF Places(Sharp, line) = {} THEN line ELSE SubSeq(line, 1, FirstPlace(Sharp, line) - 1)

BlankLine(line) == \A i \in DOMAIN line : line[i] = Space

(* insert() keeps the value of a key that is there already.  (The faulty   *)
(* variant replaces it.)                                                   *)
Replace(config, key, value) ==
    [k \in DOMAIN config \union {key} |-> IF k = key THEN value ELSE config[k]]

Insert(config, key, value) ==
    [k \in DOMAIN config \union {key} |-> IF k \in DOMAIN config THEN config[k] ELSE value]

(* What the scans collect: spaces are passed over.                         *)
Collected(s) ==
    LET text[i \in 0..Len(s)] ==
            IF i = 0 THEN <<>>
            ELSE IF s[i] = Space THEN text[i - 1] ELSE Append(text[i - 1], s[i])
    IN text[Len(s)]

(* The two scans, before and behind the first '='.                         *)
ReadLineIntoConfigMap(config, line) ==
    LET eq == FirstPlace(Equal, line)
        left == SubSeq(line, 1, eq - 1)
        right == SubSeq(line, eq + 1, Len(line))
        legal == /\ \A i \in DOMAIN left : IsAlnum(left[i]) \/ left[i] = Space
                 /\ \A i \in DOMAIN right : right[i] = Dot \/ IsDigit(right[i]) \/ right[i] = Space
    IN IF legal THEN <<Insert(config, Collected(left), Collected(right))>> ELSE Exited

NoConfig == [k \in {} |-> <<>>]

(* A file that does not open is not in the domain of files.                *)
LoadConfigFile(files, name) ==
    LET lines == files[name]
        read[i \in 0..Len(lines)] ==
            IF i = 0 THEN <<NoConfig>>
            ELSE LET line == TrimSharp(lines[i])
                 IN IF read[i - 1] = Exited THEN Exited
                    ELSE IF Places(Equal, line) # {} THEN ReadLineIntoConfigMap(read[i - 1][1], line)
                    ELSE IF BlankLine(line) THEN read[i - 1]
                    ELSE Exited
    IN IF name \in DOMAIN files THEN read[Len(lines)] ELSE Exited

Load(config, key) == IF key \in DOMAIN config THEN config[key] ELSE <<>>

-----------------------------------------------------------------------------
(* The rules of src/src/include/kopirpcconfig.h:9-13, stated on their own: *)
(* a comment ends the line; spaces count on neither side of a key or a     *)
(* value, and are not among the characters inside; the first entry of a    *)
(* key is the one that counts; everything else is an error.                *)

Content(line) ==
    CHOOSE s \in {SubSeq(line, 1, n) : n \in 0..Len(line)} :
        /\ Sharp \notin {s[i] : i \in DOMAIN s}
        /\ Len(s) < Len(line) => line[Len(s) + 1] = Sharp

Stripped(s) ==
    LET inked == {i \in DOMAIN s : s[i] # Space}
        first == CHOOSE i \in inked : \A j \in inked : i <= j
        last == CHOOSE i \in inked : \A j \in inked : i >= j
    IN IF inked = {} THEN <<>> ELSE SubSeq(s, first, last)

(* The two sides of the first '='.                                         *)
HasEntry(line) == Equal \in {Content(line)[i] : i \in DOMAIN Content(line)}

Side(line, n) ==
    LET s == Content(line)
        p == CHOOSE i \in DOMAIN s : s[i] = Equal /\ \A j \in 1..(i - 1) : s[j] # Equal
    IN Stripped(IF n = 1 THEN SubSeq(s, 1, p - 1) ELSE SubSeq(s, p + 1, Len(s)))

IsLegal(line) ==
    IF HasEntry(line)
    THEN /\ \A i \in DOMAIN Side(line, 1) : IsAlnum(Side(line, 1)[i])
         /\ \A i \in DOMAIN Side(line, 2) : Side(line, 2)[i] = Dot \/ IsDigit(Side(line, 2)[i])
    ELSE Stripped(Content(line)) = <<>>

ByRules(lines) ==
    LET entries == {i \in DOMAIN lines : HasEntry(lines[i])}
        FirstOf(k) == CHOOSE i \in entries : /\ Side(lines[i], 1) = k
                                             /\ \A j \in entries : Side(lines[j], 1) = k => i <= j
    IN [k \in {Side(lines[i], 1) : i \in entries} |-> Side(lines[FirstOf(k)], 2)]

(* What the code accepts beside: spaces inside a key or a value.           *)
LegalButForSpaces(line) ==
    /\ HasEntry(line)
    /\ \A i \in DOMAIN Side(line, 1) : IsAlnum(Side(line, 1)[i]) \/ Side(line, 1)[i] = Space
    /\ \A i \in DOMAIN Side(line, 2) :
          Side(line, 2)[i] = Dot \/ IsDigit(Side(line, 2)[i]) \/ Side(line, 2)[i] = Space

=============================================================================
