------------------------- MODULE KopirpcApplication -------------------------
(***************************************************************************)
(* The start of every program of the framework                             *)
(* (src/src/kopirpcapplication.cc): one option names the configuration     *)
(* file, which is loaded.  argv is the sequence of words behind the name   *)
(* of the program; the files are a function from names to lines.           *)
(***************************************************************************)
EXTENDS KopirpcConfig

Hyphen == 45
MinusI == <<Hyphen, 105>>

(* getopt(argc, argv, "i:"), called once.  It passes over bare words; the  *)
(* argument of -i is the rest of its word, or else the next word.          *)
Getopt(argv) ==
    LET options == {j \in DOMAIN argv : Len(argv[j]) > 1 /\ argv[j][1] = Hyphen}
        first == CHOOSE j \in options : \A k \in options : j <= k
        word == argv[first]
    IN IF options = {} \/ word = <<Hyphen, Hyphen>> THEN [c |-> "end", optarg |-> <<>>]
       ELSE IF word = MinusI /\ first < Len(argv)
       THEN [c |-> "i", optarg |-> argv[first + 1]]
       ELSE IF word[2] = MinusI[2] /\ Len(word) > 2
       THEN [c |-> "i", optarg |-> SubSeq(word, 3, Len(word))]
       ELSE [c |-> "?", optarg |-> <<>>]

(* Too few arguments, a bad option and a missing one all show the usage    *)
(* and exit.                                                               *)
KopirpcApplication_Init(argv, files) ==
    IF argv # <<>> /\ Getopt(argv).c = "i"
    THEN LoadConfigFile(files, Getopt(argv).optarg)
    ELSE Exited

(* The C library's atoi, for words without a sign: the digits before the   *)
(* first other character.                                                  *)
Atoi(s) ==
    LET value[i \in 0..Len(s)] ==
            IF i = 0 THEN [n |-> 0, open |-> TRUE]
            ELSE IF value[i - 1].open /\ IsDigit(s[i])
            THEN [n |-> 10 * value[i - 1].n + (s[i] - 48), open |-> TRUE]
            ELSE [value[i - 1] EXCEPT !.open = FALSE]
    IN value[Len(s)].n

=============================================================================
