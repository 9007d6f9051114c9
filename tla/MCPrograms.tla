----------------------------- MODULE MCPrograms -----------------------------
(***************************************************************************)
(* The programs for TLC.  Keys are cut to a letter (i: rpcserverip,        *)
(* p: rpcserverport), addresses to a digit.  The deployments are           *)
(*   - each program against its provider;                                  *)
(*   - each against a provider of the other service that has come to the   *)
(*     address of one whose nodes ZooKeeper still holds;                   *)
(*   - the program of two calls against nodes that others have left;       *)
(*   - files and arguments of all kinds, with the program of one call.     *)
(***************************************************************************)
EXTENDS Programs, TLC

MCKeyIp == <<105>>

MCKeyPort == <<112>>

Conf == <<99>>

Digit(n) == <<48 + n>>

MinusIConf == <<MinusI, Conf>>

(* "i=1" and "p=n"                                                         *)
IpLine == <<105, 61, 49>>

PortLine(digits) == <<112, 61>> \o digits

GoodFile == <<IpLine, PortLine(Digit(8))>>

Service(program) == IF program = "user" THEN UserServiceRpc ELSE FriendServiceRpc

Other(program) == IF program = "user" THEN FriendServiceRpc ELSE UserServiceRpc

(* What a provider of the service has left in ZooKeeper.                   *)
Nodes(service) ==
    [path \in {MethodPath(service.name, service.method[i].name) : i \in DOMAIN service.method} |->
        <<49, Colon, 56>>]

NoNodes == [path \in {} |-> <<>>]

Deployed(program, argv, lines, service, nodes) ==
    [program |-> program, callerArgv |-> argv, providerArgv |-> MinusIConf,
     files |-> (Conf :> lines), service |-> service, registry |-> nodes]

(* The benchmark runs with two threads and two calls, or on defaults.      *)
BenchArgv == MinusIConf \o <<Digit(2), Digit(2)>>

Argvs(program) == IF program = "bench" THEN {MinusIConf, BenchArgv} ELSE {MinusIConf}

Usual ==
    UNION {{Deployed(p, a, GoodFile, Service(p), NoNodes) : a \in Argvs(p)} : p \in {"user", "friend", "bench"}}

Replaced ==
    {Deployed(p, MinusIConf, GoodFile, Other(p), Nodes(Service(p))) : p \in {"user", "friend"}}

(* Every line of up to three characters, and pairs of lines.               *)
Alphabet == {107, 49, Dot, Space, Equal, Sharp, Hyphen}

ShortLines == UNION {[1..n -> Alphabet] : n \in 0..3}

Pair == {<<107, 61, 49>>, <<32, 107, 32, 61, 50, 32>>, <<107, 61, 51, 35, 61>>, <<32>>,
         <<107, 32, 107, 61, 49, 32, 50>>}

(* No port, no address, 65544, 0, a second port, and 8.9.                  *)
Ports == {<<IpLine>>, <<PortLine(Digit(8))>>, <<IpLine, PortLine(<<54, 53, 53, 52, 52>>)>>,
          <<IpLine, PortLine(Digit(0))>>, <<IpLine, PortLine(Digit(8)), PortLine(Digit(9))>>,
          <<PortLine(<<56, 46, 57>>), IpLine>>}

Files == Ports \union {<<l>> : l \in ShortLines} \union {<<l, m>> : l, m \in Pair}

WithFiles == {Deployed("friend", MinusIConf, f, Service("friend"), NoNodes) : f \in Files}

(* No argument, no option, no file, another option, a missing argument,    *)
(* words before the option, option and argument in one word, the word that *)
(* ends the options.                                                       *)
OddArgvs == {<< >>, <<Conf>>, <<MinusI, Digit(0)>>, <<<<Hyphen, 120>>, Conf>>, <<Conf, MinusI>>,
             <<Digit(2), MinusI, Conf>>, <<MinusI \o Conf>>, <<<<Hyphen, Hyphen>>, MinusI, Conf>>}

WithArgv ==
    {[Deployed("friend", a, GoodFile, Service("friend"), NoNodes) EXCEPT !.providerArgv = b] :
        a \in OddArgvs, b \in OddArgvs}

(* A node of another address, one without an address, for one of the two   *)
(* methods; the provider makes the other node.                             *)
LeftNode(method, data) == MethodPath(UserServiceRpc.name, method.name) :> data

WithNodes ==
    {Deployed("user", MinusIConf, GoodFile, UserServiceRpc, LeftNode(UserServiceRpc.method[i], data)) :
        i \in {1, 2}, data \in {<<49, Colon, 57>>, <<49>>}}

MCDeployments == Usual \union Replaced \union WithFiles \union WithArgv \union WithNodes

-----------------------------------------------------------------------------
(* Messages with numbers of every length and sign, names of several        *)
(* lengths, results that are there and not, and fields that are not known. *)
Names == {<<>>, <<97>>, [i \in 1..130 |-> 98]}

Numbers == {0, 1, 127, 128, 2000, 268435455, 268435456, 2147483647, -1, -2147483647 - 1}

(* A varint field of number 9.                                             *)
NotKnown == {<<>>, <<72, 200, 1>>}

SomeResults == {<<>>} \union
    {<<[ResultCode EXCEPT !.errcode = e, !.errmsg = m]>> : e \in {0, 5, -1}, m \in {<<>>, <<97>>}}

MCCorpus ==
    {[RpcHeader EXCEPT !.servicename = s, !.methodname = s, !.argssize = n] : s \in Names, n \in Numbers}
    \union {[ResultCode EXCEPT !.errcode = n, !.errmsg = s, !.unknown = u] :
                n \in Numbers, s \in Names, u \in NotKnown}
    \union {[LoginRequest EXCEPT !.name = s, !.pwd = t, !.unknown = u] :
                s \in Names, t \in Names, u \in NotKnown}
    \union {[RegisterRequest EXCEPT !.id = n, !.name = s, !.pwd = s] : n \in Numbers, s \in Names}
    \union {[m EXCEPT !.result = r, !.success = b, !.unknown = u] :
                m \in {LoginResponse, RegisterResponse}, r \in SomeResults, b \in BOOLEAN,
                u \in NotKnown}
    \union {[GetFriendListRequest EXCEPT !.userid = n, !.unknown = u] :
                n \in Numbers, u \in NotKnown}
    \union {[GetFriendListResponse EXCEPT !.result = r, !.friends = f] :
                r \in SomeResults, f \in {<<>>, <<<<97>>>>, <<<<>>, <<98, 99>>>>}}

=============================================================================
