---------------------------- MODULE RpcProvider ----------------------------
(***************************************************************************)
(* A provider process from its start to its answers, at the level of bytes *)
(* (src/src/rpcprovider.cc): the main function of the example's providers, *)
(* NotifyService, Run, OnMessage, the closure and SendRpcResponse.  The    *)
(* race of several providers for the nodes is in Registration.             *)
(*                                                                         *)
(* muduo is external: it binds when the server is made, listens at         *)
(* start(), and calls OnMessage of a connection with what has come, which  *)
(* may be part of a frame.  An exception that leaves OnMessage ends the    *)
(* process.                                                                *)
(***************************************************************************)
EXTENDS ExampleServices, KopirpcApplication, FiniteSets

CONSTANTS
    Connections,
    KeyIp, KeyPort,      \* rpcserverip, rpcserverport
    KernelPort           \* what the kernel takes when asked for port 0

PortNumbers == {n \in Nat : n < 65536}

ASSUME KernelPortAssumption == KernelPort \in PortNumbers \ {0}

VARIABLES
    deployment,      \* the programs with their arguments and files: never changes
    provider,        \* how far the provider is
    providerConfig,  \* its configuration
    serviceMap,      \* service name -> method name -> method
    address,         \* where its socket is bound: [ip, port]
    registry,        \* ZooKeeper: path of a method -> data
    inbox,           \* inbox[c]: bytes sent to the provider and not read yet
    outbox,          \* outbox[c]: bytes sent back and not read yet
    executing,       \* executing[c]: what the closure of the handler that runs has captured
    heap,            \* heap[<<kind, c>>]: objects made with new, less those deleted
    served,          \* served[c]: the calls handed to a service so far
    cuts             \* cuts[c]: the numbers of the calls that were to be served next when
                     \*   a segment ended before the end of what had been sent

providerVars == <<provider, providerConfig, serviceMap, address, executing, heap, served, cuts>>

(*   off         before main                                               *)
(*   notify      in main, behind Init                                      *)
(*   run         entering Run                                              *)
(*   register    bound, in the loops over the services                     *)
(*   serving     listening, in the event loop                              *)
(*   exited      exit(EXIT_FAILURE) in Init                                *)
(*   aborted     an exception has left an I/O thread                       *)
ProviderStages == {"off", "notify", "run", "register", "serving", "exited", "aborted"}

(* Where there is nothing: a pointer that is null, a value still unknown.  *)
Nothing == <<>>

Kinds == {"request", "response", "done"}

NoObjects == [object \in Kinds \X Connections |-> 0]

ProviderInit ==
    /\ provider = "off"
    /\ providerConfig = NoConfig
    /\ serviceMap = [n \in {} |-> Nothing]
    /\ address = Nothing
    /\ inbox = [c \in Connections |-> <<>>]
    /\ outbox = [c \in Connections |-> <<>>]
    /\ executing = [c \in Connections |-> Nothing]
    /\ heap = NoObjects
    /\ served = [c \in Connections |-> <<>>]
    /\ cuts = [c \in Connections |-> {}]

-----------------------------------------------------------------------------
(* main and Run                                                            *)

ProviderMain ==
    LET config == KopirpcApplication_Init(deployment.providerArgv, deployment.files)
    IN /\ provider = "off"
       /\ IF config = Exited
          THEN provider' = "exited" /\ UNCHANGED providerConfig
          ELSE provider' = "notify" /\ providerConfig' = config[1]
       /\ UNCHANGED <<deployment, serviceMap, address, registry, inbox, outbox, executing, heap,
                      served, cuts>>

(* (The faulty variant takes the first method in every turn of the loop.)  *)
FirstMethodOnly(service) ==
    [n \in {service.method[i].name : i \in DOMAIN service.method} |-> service.method[1]]

MethodMap(service) ==
    [n \in {service.method[i].name : i \in DOMAIN service.method} |->
        CHOOSE m \in {service.method[i] : i \in DOMAIN service.method} : m.name = n]

WithService(service) ==
    [n \in DOMAIN serviceMap \union {service.name} |->
        IF n \in DOMAIN serviceMap THEN serviceMap[n] ELSE MethodMap(service)]

NotifyService ==
    /\ provider = "notify"
    /\ serviceMap' = WithService(deployment.service)
    /\ provider' = "run"
    /\ UNCHANGED <<deployment, providerConfig, address, registry, inbox, outbox, executing, heap,
                   served, cuts>>

(* uint16_t port.  (The faulty variant keeps all of the number.)           *)
WidePortOf(text) == Atoi(text)

PortOf(text) == Atoi(text) % 65536

RunBinds ==
    LET port == PortOf(Load(providerConfig, KeyPort))
    IN /\ provider = "run"
       /\ address' = [ip |-> Load(providerConfig, KeyIp), port |-> IF port = 0 THEN KernelPort ELSE port]
       /\ provider' = "register"
       /\ UNCHANGED <<deployment, providerConfig, serviceMap, registry, inbox, outbox, executing,
                      heap, served, cuts>>

Slash == 47
Colon == 58

Decimal[n \in Nat] == IF n < 10 THEN <<48 + n>> ELSE Decimal[n \div 10] \o <<48 + (n % 10)>>

MethodPath(service, method) == <<Slash>> \o service \o <<Slash>> \o method

(* sprintf(data, "%s:%d", ip, port)                                        *)
NodeData(config) == Load(config, KeyIp) \o <<Colon>> \o Decimal[PortOf(Load(config, KeyPort))]

Paths == UNION {{MethodPath(s, m) : m \in DOMAIN serviceMap[s]} : s \in DOMAIN serviceMap}

WithNode(path, data) ==
    [p \in DOMAIN registry \union {path} |-> IF p = path THEN data ELSE registry[p]]

(* Create leaves a node alone that is there.                               *)
RunCreates ==
    /\ provider = "register"
    /\ \E path \in Paths \ DOMAIN registry : registry' = WithNode(path, NodeData(providerConfig))
    /\ UNCHANGED <<deployment, providerVars, inbox, outbox>>

RunStarts ==
    /\ provider = "register"
    /\ Paths \subseteq DOMAIN registry
    /\ provider' = "serving"
    /\ UNCHANGED <<deployment, providerConfig, serviceMap, address, registry, inbox, outbox,
                   executing, heap, served, cuts>>

-----------------------------------------------------------------------------
(* Frames                                                                  *)

(* A uint32 in the order of the host, as the int32 with the same bits.     *)
UInt32At(s) ==
    s[1] + 256 * s[2] + 65536 * s[3] + 16777216 * (IF s[4] < 128 THEN s[4] ELSE s[4] - 256)

UInt32(n) == <<n % 256, (n \div 256) % 256, (n \div 65536) % 256, n \div 16777216>>

(* std::string::substr, whose count is unsigned.                           *)
Substr(s, pos, n) ==
    SubSeq(s, pos + 1, IF n < 0 \/ n > Len(s) - pos THEN Len(s) ELSE pos + n)

(* headerSize + 4 is a sum of 32 bits; substr throws when it is beyond the *)
(* end.                                                                    *)
ArgsInside(recvBuf) == UInt32At(recvBuf) \in -4..(Len(recvBuf) - 4)

ArgsOf(recvBuf, argsSize) == Substr(recvBuf, UInt32At(recvBuf) + 4, argsSize)

IsKnown(header) ==
    /\ header.servicename \in DOMAIN serviceMap
    /\ header.methodname \in DOMAIN serviceMap[header.servicename]

(* The ways that OnMessage can go: it throws, it returns without having    *)
(* made a request, it rejects the request, or it hands it to the service.  *)
Way(way) == [way |-> way, method |-> Nothing, request |-> Nothing]

RequestParsed(method, parsed) ==
    IF parsed.ok THEN [way |-> "serves", method |-> method, request |-> parsed.msg] ELSE Way("rejects")

RequestFor(method, argsStr) ==
    RequestParsed(method, ParseFromString(GetRequestPrototype(method), argsStr))

HeaderParsed(recvBuf, parsed) ==
    IF ~parsed.ok THEN Way("returns")
    ELSE IF ~ArgsInside(recvBuf) THEN Way("throws")
    ELSE IF ~IsKnown(parsed.msg) THEN Way("returns")
    ELSE RequestFor(serviceMap[parsed.msg.servicename][parsed.msg.methodname],
                    ArgsOf(recvBuf, parsed.msg.argssize))

(* In a segment of less than four bytes the first substr throws, whatever  *)
(* memcpy has read.                                                        *)
WayOf(recvBuf) ==
    IF Len(recvBuf) < 4 THEN Way("throws")
    ELSE HeaderParsed(recvBuf, ParseFromString(RpcHeader, Substr(recvBuf, 4, UInt32At(recvBuf))))

New(objects, kinds, c) ==
    [object \in DOMAIN objects |->
        IF object \in kinds \X {c} THEN objects[object] + 1 ELSE objects[object]]

Delete(objects, kinds, c) ==
    [object \in DOMAIN objects |->
        IF object \in kinds \X {c} THEN objects[object] - 1 ELSE objects[object]]

(* The request that does not parse is deleted.  (The faulty variant        *)
(* returns at once.)                                                       *)
NotDeleted(c) == New(heap, {"request"}, c)

Rejected(c) == Delete(New(heap, {"request"}, c), {"request"}, c)

-----------------------------------------------------------------------------
(* OnMessage, the handler and its answer                                   *)

Throws ==
    /\ provider' = "aborted"
    /\ executing' = [c \in Connections |-> Nothing]
    /\ heap' = NoObjects
    /\ UNCHANGED served

Rejects(c) ==
    /\ heap' = Rejected(c)
    /\ UNCHANGED <<provider, executing, served>>

Serves(c, call) ==
    /\ heap' = New(heap, Kinds, c)
    /\ executing' = [executing EXCEPT ![c] = call]
    /\ served' = [served EXCEPT ![c] = Append(@, call)]
    /\ UNCHANGED provider

(* The first n bytes of what has been sent have come, and are all read.    *)
OnMessage(c, n) ==
    /\ provider = "serving"
    /\ executing[c] = Nothing
    /\ cuts' = IF n < Len(inbox[c])
               THEN [cuts EXCEPT ![c] = @ \union {Len(served[c]) + 1}] ELSE cuts
    /\ inbox' = [inbox EXCEPT ![c] = SubSeq(@, n + 1, Len(@))]
    /\ \E w \in {WayOf(SubSeq(inbox[c], 1, n))} :
          \/ w.way = "throws" /\ Throws
          \/ w.way = "returns" /\ UNCHANGED <<provider, executing, heap, served>>
          \/ w.way = "rejects" /\ Rejects(c)
          \/ w.way = "serves" /\ Serves(c, [method |-> w.method, request |-> w.request])
    /\ UNCHANGED <<deployment, providerConfig, serviceMap, address, registry, outbox>>

(* (The faulty variant counts the four bytes of the size as well.)         *)
CountingItself(responseStr) == UInt32(4 + Len(responseStr)) \o responseStr

ResponseFrame(responseStr) == UInt32(Len(responseStr)) \o responseStr

(* CallMethod runs the handler, which runs done: KopiClosure::Run sends    *)
(* the response, and all three objects go.                                 *)
CallMethodAndDone(c) ==
    LET method == executing[c].method
        response == Service_CallMethod(method, executing[c].request, GetResponsePrototype(method))
    IN /\ executing[c] # Nothing
       /\ outbox' = [outbox EXCEPT ![c] = @ \o ResponseFrame(SerializeToString(response))]
       /\ heap' = Delete(heap, Kinds, c)
       /\ executing' = [executing EXCEPT ![c] = Nothing]
       /\ UNCHANGED <<deployment, provider, providerConfig, serviceMap, address, registry, inbox,
                      served, cuts>>

ProviderNext ==
    \/ ProviderMain \/ NotifyService \/ RunBinds \/ RunCreates \/ RunStarts
    \/ \E c \in Connections :
          \/ CallMethodAndDone(c)
          \/ \E n \in 1..Len(inbox[c]) : OnMessage(c, n)

=============================================================================
