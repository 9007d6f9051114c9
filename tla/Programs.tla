------------------------------ MODULE Programs ------------------------------
(***************************************************************************)
(* The programs of the example against one provider process: the callers   *)
(* of src/example/caller and the benchmark of src/example/bench, each with *)
(* a start of its own, and the bytes of every call.  Each thread uses a    *)
(* connection of its own; how the pool lends connections, and what caches  *)
(* and faults do to calls, is in KopiRpcChannel.                           *)
(***************************************************************************)
EXTENDS RpcProvider, KopirpcController

CONSTANTS
    Deployments,    \* programs, arguments, files and what ZooKeeper holds
    DefaultCalls,   \* calls of a thread of the benchmark that is not told how many
    Corpus          \* messages to try the generated code on

(* A file is a sequence of lines of bytes.                                 *)
ASSUME FileAssumption ==
    \A d \in Deployments : \A f \in DOMAIN d.files : d.files[f] \in Seq(Bytes)

(* Nodes that earlier providers have left may name any address, or none.   *)
ASSUME NodeAssumption ==
    \A d \in Deployments : \A path \in DOMAIN d.registry : d.registry[path] \in Bytes

(* Strings and numbers have a length and a size that protobuf can write,   *)
(* and unknown fields have come from the wire.                             *)
ASSUME CorpusAssumption == \A m \in Corpus : m \in AnyMessage

VARIABLES
    caller,     \* how far the program is
    todo,       \* todo[w]: the calls thread w has yet to make: [method, request]
    stage,      \* stage[w]: how far it is in CallMethod
    endpoint,   \* endpoint[w]: where the call goes: [ip, port]
    linked,     \* linked[w]: the thread has a connection to the provider
    sent,       \* sent[w]: the calls whose frame has been sent
    replies,    \* replies[w]: what the calls have come to
    tally,      \* tally[w]: oks, fails and the number of times taken by BenchWorker
    report      \* what the program prints at its end

callerVars == <<caller, todo, stage, endpoint, linked, sent, replies, tally, report>>
vars == <<deployment, providerVars, registry, inbox, outbox, callerVars>>

(*   off         before main                                               *)
(*   calling     its threads call                                          *)
(*   reported    it has printed its report                                 *)
(*   exited      exit(EXIT_FAILURE) in Init                                *)
(*   crashed     SetFailed through a null controller                       *)
CallerStages == {"off", "calling", "reported", "exited", "crashed"}

CallStages == {"idle", "borrow", "send", "receive"}

NoTally == [ok |-> 0, fail |-> 0, rtts |-> 0]

Init ==
    /\ deployment \in Deployments
    /\ registry = deployment.registry
    /\ ProviderInit
    /\ caller = "off"
    /\ todo = [w \in Connections |-> <<>>]
    /\ stage = [w \in Connections |-> "idle"]
    /\ endpoint = [w \in Connections |-> Nothing]
    /\ linked = [w \in Connections |-> FALSE]
    /\ sent = [w \in Connections |-> <<>>]
    /\ replies = [w \in Connections |-> <<>>]
    /\ tally = [w \in Connections |-> NoTally]
    /\ report = Nothing

-----------------------------------------------------------------------------
(* The programs                                                            *)

IsBench == deployment.program = "bench"

(* The names and passwords are cut to a letter.                            *)
UserCalls ==
    << [method |-> UserServiceRpc_Stub_Login,
        request |-> [LoginRequest EXCEPT !.name = <<122>>, !.pwd = <<49>>]],
       [method |-> UserServiceRpc_Stub_Register,
        request |-> [RegisterRequest EXCEPT !.id = 2000, !.name = <<75>>, !.pwd = <<56>>]] >>

FriendCalls ==
    << [method |-> FriendServiceRpc_Stub_GetFriendList,
        request |-> [GetFriendListRequest EXCEPT !.userid = 1000]] >>

(* An argument of the benchmark, or what it takes instead.                 *)
Argument(argv, i, default) ==
    IF Len(argv) >= i /\ Atoi(argv[i]) > 0 THEN Atoi(argv[i]) ELSE default

PerThread == Argument(deployment.callerArgv, 3, DefaultCalls)

BenchThreads == Argument(deployment.callerArgv, 4, 1)

BenchCalls ==
    [i \in 1..PerThread |->
        [method |-> FriendServiceRpc_Stub_GetFriendList,
         request |-> [GetFriendListRequest EXCEPT !.userid = 2000]]]

Threads == IF IsBench THEN 1..BenchThreads ELSE {1}

(* The programs and services are those of the example, and every thread    *)
(* has its connection.                                                     *)
ASSUME ExampleAssumption ==
    /\ DefaultCalls \in Nat
    /\ \A d \in Deployments :
          /\ d.program \in {"user", "friend", "bench"}
          /\ d.service \in {UserServiceRpc, FriendServiceRpc}
          /\ d.callerArgv \in Seq(Bytes)
          /\ 1 \in Connections
          /\ d.program = "bench" => 1..Argument(d.callerArgv, 4, 1) \subseteq Connections

Calls ==
    CASE deployment.program = "user" -> UserCalls
      [] deployment.program = "friend" -> FriendCalls
      [] deployment.program = "bench" -> BenchCalls

CallerMain ==
    LET config == KopirpcApplication_Init(deployment.callerArgv, deployment.files)
    IN /\ caller = "off"
       /\ IF config = Exited
          THEN caller' = "exited" /\ UNCHANGED todo
          ELSE /\ caller' = "calling"
               /\ todo' = [w \in Connections |-> IF w \in Threads THEN Calls ELSE <<>>]
       /\ UNCHANGED <<deployment, providerVars, registry, inbox, outbox, stage, endpoint, linked,
                      sent, replies, tally, report>>

-----------------------------------------------------------------------------
(* A call                                                                  *)

Call(w) == Head(todo[w])

(* calleruserservice.cc passes a null pointer.                             *)
Controller == IF deployment.program = "user" THEN NullController ELSE KopirpcController

Result(response) ==
    CASE response.type = "LoginResponse" -> LoginResponse_result(response)
      [] response.type = "RegisterResponse" -> RegisterResponse_result(response)
      [] response.type = "GetFriendListResponse" -> GetFriendListResponse_result(response)

LooksGood(reply) == ~Failed(reply.controller) /\ Result(reply.response).errcode = 0

(* What BenchWorker counts.                                                *)
Counted(t, reply) ==
    IF LooksGood(reply) THEN [t EXCEPT !.ok = @ + 1, !.rtts = @ + 1] ELSE [t EXCEPT !.fail = @ + 1]

(* CallMethod returns.  "answered" tells the model, and nobody else, that  *)
(* it has come to its last line.                                           *)
Returns(w, answered, controller, response) ==
    LET reply == [answered |-> answered, method |-> Call(w).method, controller |-> controller,
                  response |-> response]
    IN /\ replies' = [replies EXCEPT ![w] = Append(@, reply)]
       /\ tally' = IF IsBench THEN [tally EXCEPT ![w] = Counted(@, reply)] ELSE tally
       /\ todo' = [todo EXCEPT ![w] = Tail(@)]
       /\ stage' = [stage EXCEPT ![w] = "idle"]
       /\ UNCHANGED <<deployment, providerVars, registry, caller, sent, report>>

ReturnsFailed(w, reason) ==
    Returns(w, FALSE, SetFailedIfAny(Controller, reason), GetResponsePrototype(Call(w).method))

Frame(call) ==
    LET argsStr == SerializeToString(call.request)
        rpcHeaderStr == SerializeToString([RpcHeader EXCEPT !.servicename = call.method.service,
                                                            !.methodname = call.method.name,
                                                            !.argssize = Len(argsStr)])
    IN UInt32(Len(rpcHeaderStr)) \o rpcHeaderStr \o argsStr

PathOf(w) == MethodPath(Call(w).method.service, Call(w).method.name)

AddressOf(w) == IF PathOf(w) \in DOMAIN registry THEN registry[PathOf(w)] ELSE <<>>

(* The two halves of "ip:port".  (The faulty variant takes the colon for a *)
(* part of the port.)                                                      *)
SplitAtColon(data) ==
    LET idx == FirstPlace(Colon, data)
    IN [ip |-> SubSeq(data, 1, idx - 1), port |-> PortOf(SubSeq(data, idx, Len(data)))]

EndpointIn(data) ==
    LET idx == FirstPlace(Colon, data)
    IN [ip |-> SubSeq(data, 1, idx - 1), port |-> PortOf(SubSeq(data, idx + 1, Len(data)))]

Calling(w, s) == caller = "calling" /\ stage[w] = s /\ todo[w] # <<>>

(* No address, or none with a colon: SetFailed, without looking whether    *)
(* there is a controller.                                                  *)
NotExisted(w) ==
    /\ Calling(w, "idle")
    /\ Places(Colon, AddressOf(w)) = {}
    /\ ~Controller.null
    /\ ReturnsFailed(w, "address")
    /\ UNCHANGED <<inbox, outbox, endpoint, linked>>

NotExistedNull(w) ==
    /\ Calling(w, "idle")
    /\ Places(Colon, AddressOf(w)) = {}
    /\ Controller.null
    /\ caller' = "crashed"
    /\ UNCHANGED <<deployment, providerVars, registry, inbox, outbox, todo, stage, endpoint, linked,
                   sent, replies, tally, report>>

Existed(w) ==
    /\ Calling(w, "idle")
    /\ Places(Colon, AddressOf(w)) # {}
    /\ endpoint' = [endpoint EXCEPT ![w] = EndpointIn(AddressOf(w))]
    /\ stage' = [stage EXCEPT ![w] = "borrow"]
    /\ UNCHANGED <<deployment, providerVars, registry, inbox, outbox, caller, todo, linked, sent,
                   replies, tally, report>>

(* There is a socket that listens at the address.                          *)
Reachable(w) ==
    provider = "serving" /\ endpoint[w].ip # <<>> /\ endpoint[w] = address

(* The bucket of the address holds the connection of an earlier call.      *)
InBucket(w) == linked[w] /\ endpoint[w] = address

Borrow(w) ==
    /\ Calling(w, "borrow")
    /\ InBucket(w) \/ Reachable(w)
    /\ linked' = [linked EXCEPT ![w] = TRUE]
    /\ stage' = [stage EXCEPT ![w] = "send"]
    /\ UNCHANGED <<deployment, providerVars, registry, inbox, outbox, caller, todo, endpoint, sent,
                   replies, tally, report>>

BorrowFails(w) ==
    /\ Calling(w, "borrow")
    /\ ~InBucket(w)
    /\ ~Reachable(w)
    /\ ReturnsFailed(w, "borrow")
    /\ UNCHANGED <<inbox, outbox, endpoint, linked>>

Send(w) ==
    /\ Calling(w, "send")
    /\ provider = "serving"
    /\ inbox' = [inbox EXCEPT ![w] = @ \o Frame(Call(w))]
    /\ sent' = [sent EXCEPT ![w] = Append(@, Call(w))]
    /\ stage' = [stage EXCEPT ![w] = "receive"]
    /\ UNCHANGED <<deployment, providerVars, registry, outbox, caller, todo, endpoint, linked,
                   replies, tally, report>>

(* The length of the response frame that is there, or 0.                   *)
FrameEnd(bytes) ==
    IF Len(bytes) >= 4 /\ Len(bytes) >= 4 + UInt32At(bytes) THEN 4 + UInt32At(bytes) ELSE 0

(* The bytes that the two RecvN leave.  (The faulty variant leaves all.)   *)
All(bytes) == bytes

Behind(bytes) == SubSeq(bytes, FrameEnd(bytes) + 1, Len(bytes))

(* What comes back is parsed; a connection with a response that does not   *)
(* parse is returned as bad.                                               *)
Parsed(w, parsed) ==
    /\ Returns(w, parsed.ok,
               IF parsed.ok THEN Controller ELSE SetFailedIfAny(Controller, "parse"), parsed.msg)
    /\ linked' = [linked EXCEPT ![w] = parsed.ok]
    /\ inbox' = IF parsed.ok THEN inbox ELSE [inbox EXCEPT ![w] = <<>>]
    /\ outbox' = [outbox EXCEPT ![w] = IF parsed.ok THEN Behind(@) ELSE <<>>]

Receive(w) ==
    /\ Calling(w, "receive")
    /\ FrameEnd(outbox[w]) > 0
    /\ \E p \in {ParseFromString(GetResponsePrototype(Call(w).method),
                                 SubSeq(outbox[w], 5, FrameEnd(outbox[w])))} : Parsed(w, p)
    /\ UNCHANGED endpoint

(* The provider is gone: what it has sent may be lost with it.             *)
SendOrReceiveFails(w) ==
    /\ Calling(w, "send") \/ Calling(w, "receive")
    /\ provider = "aborted"
    /\ ReturnsFailed(w, stage[w])
    /\ linked' = [linked EXCEPT ![w] = FALSE]
    /\ inbox' = [inbox EXCEPT ![w] = <<>>]
    /\ outbox' = [outbox EXCEPT ![w] = <<>>]
    /\ UNCHANGED endpoint

-----------------------------------------------------------------------------
(* The end of a program                                                    *)

(* The benchmark joins every thread before it adds up.  (The faulty        *)
(* variant waits for one of them.)                                         *)
JoinedOne == \E w \in Threads : todo[w] = <<>>

Joined == \A w \in Threads : todo[w] = <<>>

Sum(f) ==
    LET sum[n \in 0..Cardinality(Threads)] == IF n = 0 THEN 0 ELSE sum[n - 1] + f[n]
    IN sum[Cardinality(Threads)]

BenchReport ==
    [total |-> PerThread * BenchThreads,
     ok |-> Sum([w \in Threads |-> tally[w].ok]),
     fail |-> Sum([w \in Threads |-> tally[w].fail]),
     rtts |-> Sum([w \in Threads |-> tally[w].rtts])]

(* callerfriendservice.cc looks at its controller before the response,     *)
(* calleruserservice.cc only at the responses.                             *)
FriendReport ==
    LET reply == replies[1][1]
    IN IF LooksGood(reply) THEN reply.response.friends ELSE <<>>

UserReport == [i \in DOMAIN replies[1] |-> Result(replies[1][i].response).errcode = 0]

Report ==
    /\ caller = "calling"
    /\ Joined
    /\ caller' = "reported"
    /\ report' = CASE deployment.program = "user" -> UserReport
                   [] deployment.program = "friend" -> FriendReport
                   [] deployment.program = "bench" -> BenchReport
    /\ UNCHANGED <<deployment, providerVars, registry, inbox, outbox, todo, stage, endpoint, linked,
                   sent, replies, tally>>

CallerNext ==
    \/ CallerMain \/ Report
    \/ \E w \in Connections :
          \/ NotExisted(w) \/ NotExistedNull(w) \/ Existed(w)
          \/ Borrow(w) \/ BorrowFails(w)
          \/ Send(w) \/ Receive(w) \/ SendOrReceiveFails(w)

(* The thread waits in RecvN, and there is nothing on either side that     *)
(* could become its answer.                                                *)
Waits(w) ==
    /\ Calling(w, "receive")
    /\ FrameEnd(outbox[w]) = 0
    /\ inbox[w] = <<>>
    /\ executing[w] = Nothing
    /\ provider = "serving"

(* Nothing is left to do: every program has come to an end, serves, or     *)
(* waits for an answer.                                                    *)
Over ==
    /\ provider \in {"serving", "exited", "aborted"}
    /\ caller \in {"reported", "exited", "crashed"} \/ \E w \in Connections : Waits(w)
    /\ \A w \in Connections :
          /\ executing[w] = Nothing
          /\ provider = "serving" => inbox[w] = <<>>
          /\ caller = "calling" => todo[w] = <<>> \/ Waits(w)
    /\ UNCHANGED vars

Next == (ProviderNext /\ UNCHANGED callerVars) \/ CallerNext \/ Over

Spec == Init /\ [][Next]_vars

-----------------------------------------------------------------------------
(* Properties                                                              *)

IsBytes(s) == \A i \in DOMAIN s : s[i] \in 0..255

(* Types: what goes over a connection is bytes, a port has 16 bits, the    *)
(* handler that runs has captured a request of its method's class.         *)
TypeOK ==
    /\ provider \in ProviderStages
    /\ caller \in CallerStages
    /\ address # Nothing => address.port \in PortNumbers
    /\ \A w \in Connections :
          /\ stage[w] \in CallStages
          /\ cuts[w] \subseteq Nat
          /\ IsBytes(inbox[w]) /\ IsBytes(outbox[w])
          /\ endpoint[w] # Nothing => endpoint[w].port \in PortNumbers
          /\ executing[w] # Nothing =>
                executing[w].request.type = GetRequestPrototype(executing[w].method).type

(* Every call is handed to a service at most once and in the order of the  *)
(* calls, with the service and method that were asked for, and with the    *)
(* request that was sent, whatever has happened to other calls; when a     *)
(* segment has ended early before it was served, with what the first bytes *)
(* of its request parse to (rpcprovider.cc:142-219).                       *)
ServedAsSent ==
    \A c \in Connections :
        /\ Len(served[c]) <= Len(sent[c])
        /\ \A i \in DOMAIN served[c] :
              LET args == SerializeToString(sent[c][i].request)
                  ReadOf(n) == ParseFromString(GetRequestPrototype(sent[c][i].method),
                                               SubSeq(args, 1, n))
              IN /\ served[c][i].method = sent[c][i].method
                 /\ i \notin cuts[c] => served[c][i].request = sent[c][i].request
                 /\ \E n \in 0..Len(args) : ReadOf(n) = [ok |-> TRUE, msg |-> served[c][i].request]

(* The replies of the calls that have come to their last line.             *)
Answered(calls) ==
    LET upto[i \in 0..Len(calls)] ==
            IF i = 0 THEN <<>>
            ELSE IF calls[i].answered THEN Append(upto[i - 1], calls[i]) ELSE upto[i - 1]
    IN upto[Len(calls)]

(* The responses that calls of a thread come back with are the answers to  *)
(* the requests served on its connection, one for one and in order, and a  *)
(* call that fails leaves the response of its caller as it was             *)
(* (kopirpcchannel.cc:193-227, rpcprovider.cc:231-249).                    *)
EndToEnd ==
    \A w \in Connections :
        LET answered == Answered(replies[w])
            Answer(call) == Service_CallMethod(call.method, call.request, GetResponsePrototype(call.method))
        IN /\ Len(answered) <= Len(served[w])
           /\ \A i \in DOMAIN answered :
                 /\ answered[i].method = served[w][i].method
                 /\ answered[i].response = Answer(served[w][i])
           /\ \A i \in DOMAIN replies[w] :
                 ~replies[w][i].answered =>
                     replies[w][i].response = GetResponsePrototype(replies[w][i].method)

(* Whole frames never end the provider, and never stay without an answer.  *)
(* It aborts only when some segment has ended early, and a call waits in   *)
(* vain only when one has, on its own connection, behind the last call     *)
(* that was served there or the one before it - so that bytes of the one   *)
(* before stand in front of its frame, or its own frame was cut - or when  *)
(* the provider does not have the method (rpcprovider.cc:142-219,          *)
(* kopirpcchannel.cc:193-212).                                             *)
AnsweredUnlessCut ==
    /\ provider = "aborted" => \E c \in Connections : cuts[c] # {}
    /\ \A w \in Connections :
          Waits(w) => \/ {Len(sent[w]) - 1, Len(sent[w])} \intersect cuts[w] # {}
                      \/ Call(w).method \notin {deployment.service.method[i] :
                                                  i \in DOMAIN deployment.service.method}

(* The heap holds one of each of the objects that the closure of a running *)
(* handler will delete, and nothing else: no way through OnMessage leaves  *)
(* one behind or deletes one twice (rpcprovider.cc:200-218, :247-248).     *)
ObjectsFreed ==
    heap = [object \in Kinds \X Connections |-> IF executing[object[2]] # Nothing THEN 1 ELSE 0]

(* Where the calls go: a call whose node the provider has made, to the     *)
(* socket that it has bound, the port having come through atoi, 16 bits    *)
(* and text on both sides - or to port 0, when its file names no port, 0   *)
(* or 65536 and the kernel has chosen one; a call whose node was there     *)
(* before, to the address of that node, whatever the provider has bound.   *)
(* Only a call that goes to the provider's socket is ever sent             *)
(* (rpcprovider.cc:77-79, :108, zookeeperutil.cc:64-83,                    *)
(* kopirpcchannel.cc:124-131).                                             *)
EndpointAgrees ==
    LET port == IF PortOf(Load(providerConfig, KeyPort)) = 0 THEN 0 ELSE address.port
    IN \A w \in Connections :
          /\ stage[w] # "idle" =>
                IF PathOf(w) \in DOMAIN deployment.registry
                THEN endpoint[w] = EndpointIn(deployment.registry[PathOf(w)])
                ELSE address # Nothing /\ endpoint[w] = [ip |-> address.ip, port |-> port]
          /\ stage[w] \in {"send", "receive"} => endpoint[w] = address

(* What the benchmark prints: every call of every thread is counted, as    *)
(* good exactly when it has been answered, and each good one has its time  *)
(* (bench.cc:18-48, :84-97).  The caller of the friend service prints a    *)
(* list exactly when its call has been answered.                           *)
ReportTrue ==
    caller = "reported" =>
        /\ IsBench =>
              /\ report.ok + report.fail = report.total
              /\ report.rtts = report.ok
              /\ report.ok = Sum([w \in Threads |-> Len(Answered(replies[w]))])
        /\ deployment.program = "friend" =>
              (report # <<>>) = replies[1][1].answered

(* The lines of the provider's file.                                       *)
Lines == deployment.files[Getopt(deployment.providerArgv).optarg]

IsOpened ==
    /\ Getopt(deployment.providerArgv).c = "i"
    /\ Getopt(deployment.providerArgv).optarg \in DOMAIN deployment.files

(* The configuration that a provider runs with is what the rules of        *)
(* kopirpcconfig.h:9-13 make of the file, and it runs with none that they  *)
(* forbid, except that the code lets spaces inside a key or value pass;    *)
(* and it does not refuse a file that they allow.                          *)
ConfigByRules ==
    LET allowed == \A i \in DOMAIN Lines : IsLegal(Lines[i])
        Plain(i) == IsLegal(Lines[i]) \/ LegalButForSpaces(Lines[i])
    IN /\ provider = "exited" => ~IsOpened \/ ~allowed
       /\ provider = "notify" =>
             /\ IsOpened
             /\ allowed => providerConfig = ByRules(Lines)
             /\ \A i \in DOMAIN Lines : Plain(i)

(* Messages a and b of one class.                                          *)
Agrees(a, b) ==
    LET bytes == SerializeToString(b)
    IN /\ ByteSizeLong(b) = Len(bytes)
       /\ ParseFromString(a, bytes) = [ok |-> TRUE, msg |-> b]
       /\ CopyFrom(a, b) = b
       /\ ParseFromString(a, SerializeToString(a) \o bytes) = [ok |-> TRUE, msg |-> MergeFrom(a, b)]

AllAgree == \A a, b \in Corpus : a.type = b.type => Agrees(a, b)

(* The generated code agrees with itself: whatever a message holds, it     *)
(* takes the bytes of another for that other; the bytes of two after each  *)
(* other make the merge of the two; and a size announced is the size       *)
(* written, on which the lengths of nested messages rest (rpcheader.pb.cc, *)
(* user.pb.cc, friend.pb.cc).  It is tried before the provider starts.     *)
CodecAgrees == provider = "off" => AllAgree

=============================================================================
