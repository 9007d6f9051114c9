# KopiRPC in TLA+

KopiRPC is a small synchronous RPC framework in C++: a caller finds a provider through ZooKeeper,
borrows a TCP connection from a process-wide pool, sends a protobuf frame and waits for the
answer. This directory holds a TLA+ model of it, the TLC configurations that check the model, and
proofs of its most important invariants with TLAPS. Paths below are relative to the repository;
`src/kopiconnectpool.cc` is listed in PROJECT.json as `src/src/kopiconnectpool.cc`.

To check a run: `tlc -config <cfg> <module>.tla`; the pairs are in PROJECT.json under `runs`. To
check the proofs: `tlapm <module>Proofs.tla`.

## 1. Inventory

| Component | Code | State | Operations | Talks to |
|---|---|---|---|---|
| Connection pool | `kopiconnectpool.cc` | map of buckets; per bucket a FIFO of idle sockets, `active_count`, mutex, condition variable | `BorrowConnection`, `ReturnConnection`, destructor | kernel (socket, connect, close); called by the channel |
| Channel | `kopirpcchannel.cc` | none of its own; `s_addrCache` under a mutex, shared by all channels | `CallMethod` | cache, `ZkClient`, pool, `SendN`/`RecvN`, controller |
| `SendN`, `RecvN` | `netutil.cc` | position in a buffer | loops over `send` and `recv` | kernel |
| `ZkClient` | `zookeeperutil.cc` | session handle; a semaphore in `Start`'s frame | `Start`, `Create`, `GetData`, destructor, `globalWatcher` | ZooKeeper library, whose thread calls the watcher |
| Provider | `rpcprovider.cc` | `serviceMap`; buffers of connections (muduo) | `NotifyService`, `Run` (register and serve), `OnMessage`, `SendRpcResponse` | `ZkClient`, muduo, user services |
| Log queue | `include/lockqueue.h` | queue, mutex, condition variable | `Push`, `Pop` | used by the logger |
| Logger | `logger.cc`, `include/logger.h` | `loglevel`, `stopping`, the queue, one open file | macros `LOG_INFO`, `LOG_ERR`; writing thread; `Stop` | every component logs |
| Configuration | `kopirpcconfig.cc` | `configMap`, read-only once loaded | `LoadConfigFile`, `Load` | read by `ZkClient` and the provider; `exit`s on an illegal file |
| Application | `kopirpcapplication.cc` | the configuration | `Init`, `GetInstance` | calls `exit` on bad arguments |
| Controller | `kopirpccontroller.cc` | failed flag and text | accessors | written by `CallMethod`, read by the caller |
| Frame header | `rpcheader.pb.cc` | service, method, length of the argument | generated: parse, serialise, size, merge | written by `CallMethod`, read by `OnMessage` |
| Messages of the example | `example/user.pb.cc`, `friend.pb.cc` | fields, unknown fields | the same; dispatch by method index, stubs | made by callers and services, carried by the framework |
| Examples, benchmark | `example/` | counters of the benchmark's threads | `main` of two services and three callers | everything above |

How they interact. A call (`CallMethod`) runs in the caller's thread from end to end. It looks the
method up in the cache; on a miss it opens a ZooKeeper session of its own, reads the method's node
and stores the address. It borrows a connection to that address, sends one frame, reads a length
and a body, and returns the connection as healthy or bad. The provider's I/O threads run
`OnMessage`, which takes the bytes that have come, executes one request and has a closure send one
response. Before that, `Run` has created a permanent node for each service and an ephemeral one
for each of its methods. Shared state: the pool (two levels of locks), the cache (one lock), the
log queue (one lock), `loglevel` (no lock), ZooKeeper's tree (several processes), and a connection,
which several threads use one after the other.

What is hard, and what makes each component correct:

- Pool: a count that is reserved under a lock for a `connect` made outside it; one `notify_one` per
  freed connection while other borrowers may be faster; descriptor numbers that the kernel uses
  again. Correct when every descriptor has one owner, none is lost, the count is exact, the limit
  holds, and no waiter sleeps beside an idle connection or for ever.
- Calls: five ways to return with a connection in hand; connections that outlive their provider; responses
  without call numbers; concurrent cold starts. Correct when a caller gets the response to its own
  request, an idle connection is clean, a broken one is not lent twice, a request is executed at
  most once, and calls end; the second and the last as far as requests come whole.
- `SendN`, `RecvN`: short counts, `EINTR`, and a peer that closes at any byte. Correct when
  bytes arrive complete and in order, and only a closed end is a failure.
- `ZkClient`: the session's events come from another thread, before, during and after `Start`.
  Correct when `Start` returns after a connection, and always does when one can be made.
- Registration: an existence check and a creation that are two requests, nodes shared by
  providers, nodes that outlive a process or die before it. Correct when parents come first,
  dead providers are forgotten and serving ones are listed.
- Frames: bytes written by one process and read by another, whose reader takes what has come for a
  whole frame; 32-bit lengths. Correct when a whole frame of a known method, behind no rest of another, is served once, with the
  request that was sent, and its answer reaches the call that waits, and no way through `OnMessage`
  leaves an object behind.
- Start: an address that goes from a file through `atoi`, 16 bits, text and ZooKeeper to a caller.
  Correct when the file is read by its rules and the caller goes where the provider listens, if the
  file names a port and the provider has made the node.
- Generated messages: sizes that are computed apart from the bytes they announce, merging into what
  is there. Correct when every message survives the way over the wire.
- Benchmark: threads that count without locks. Correct when what it prints adds up.
- Logger: many producers, one consumer, and an end that may come while messages are queued.
  Correct when nothing pushed is lost or reordered while the logger runs, and `Stop` returns.

All hazards, with their lines and the properties that watch them, are in PROJECT.json.

## 2. Modules

| Module | Models | Checked by |
|---|---|---|
| `ConnectionLease` | abstract: connections are lent to one thread at a time, at most `Limit` open per node | as `LeaseSpec` in `pool` |
| `KopiConnectPool` | the pool; one action per critical section and one per step outside the lock | itself |
| `KopiConnectPoolProofs` | `TypeOK`, `OneOwner`, `NoLeak`, `QuotaExact`, `NoLostWakeup`, the limit on open connections; the pool implements `LeaseSpec` | tlapm |
| `RemoteCall` | abstract: a call fails or returns the result of its only execution | as `RemoteSpec` in `channel_safety` |
| `KopiRpcChannel` | calls of several threads over the real pool (`INSTANCE KopiConnectPool`), with cache, streams, segments, provider and faults | `MCRpcChannel` |
| `KopiRpcChannelProofs` | `TypeOK`, `BorrowReturnPaired`, `OneLookup`, `StreamOfHolder`, `RightNode`, `StaleCostsOne`; calls implement `RemoteSpec` | tlapm |
| `NetUtil` | one `SendN` and one `RecvN` after the other at the ends of a stream | itself |
| `NetUtilProofs` | `InOrder`, `FailsOnlyClosed`, `Delivered` | tlapm |
| `ZkClient` | `Start`, the watcher and the destructor | itself |
| `ZkClientProofs` | `StartedConnected` | tlapm |
| `Registration` | the loops of `Run` and `Create` in several providers, sessions, crashes, lost connections | `MCRegistration` |
| `RegistrationProofs` | `ParentThere`, `NoGhost`, `ListedUntilExpiry`, `SomeoneStays` | tlapm |
| `LockQueue` | `Push`, `Pop`, its wait and spurious wakeups | inside `Logger` |
| `Logger` | macros, writing thread, `Stop`, a failing `fopen`, midnight (`INSTANCE LockQueue`) | itself |
| `LoggerProofs` | `TypeOK`, `NoLostWakeup`, `Accounted`, `OneStaleDate` | tlapm |
| `Wire` | the loop of every generated `_InternalParse`, and what it and the other functions call in the protobuf library | inside `Programs` |
| `RpcHeader`, `UserMessages`, `FriendMessages` | the generated messages, and dispatch and stubs of the generated services | inside `Programs` |
| `Messages` | `google::protobuf::Message`: the virtual functions over those classes, and what a message may hold (`AnyMessage`) | inside `Programs` |
| `MessagesProofs` | the codec: varints, the loop of `_InternalParse`, each class, all classes | tlapm |
| `KopirpcConfig` | the configuration's parser, and the rules of its header stated on their own | inside `Programs` |
| `KopirpcApplication`, `KopirpcController` | `Init` with `getopt`; the controller and the null controller | inside `Programs` |
| `ExampleServices` | the handlers of the two services | inside `Programs` |
| `RpcProvider` | a provider process: `main`, `NotifyService`, `Run`, `OnMessage`, the closure, `SendRpcResponse` | inside `Programs` |
| `Programs` | the callers and the benchmark against that provider, byte by byte | `MCPrograms` |
| `ProgramsProofs` | every invariant of `Programs`: `TypeOK`, `ServedAsSent`, `EndToEnd`, `AnsweredUnlessCut`, `ReportTrue`, `ObjectsFreed`, `ConfigByRules`, `EndpointAgrees`, `CodecAgrees` | tlapm |

Some modules hold operators whose comment calls them faulty variants. No action uses them; they
stand next to the operator they would replace (a missing `notify_one`, a forgotten `close`, a
missing check), and the table `mutants` of PROJECT.json pairs each with the property that
notices the fault.

### How the actions follow the code

**Pool.** No critical section of a bucket blocks while it holds `bucket->mtx`, so each is one
action: `BorrowFree` (case A), `BorrowReserve` (case B), `BorrowWait` (case C), `Rollback`,
`ReturnHealthy`, `ReturnBad`, `WakeTake`, `WakeSleep`, `GiveUp`. Outside the lock, `Socket`,
`ConnectOk`, `ConnectFails` and `SocketFails` are actions of their own, since other threads run
between them. `cv.wait_for` is the stage `waiting`; `notify_one` moves one sleeper of the node to
`notified`, where it competes for the lock. `wait_for` has an absolute deadline: `Deadline` may
come before or after a notification, and the predicate is tried a last time. Descriptors are a
finite set whose members are free again after `close`, so that a number can come back for another
node. `pools` only grows until `Destroy`, which runs at exit, when `main` has joined its threads.

**Calls.** `stage[t]` follows `CallMethod` from look-up to return. `Borrow`, `Borrowing`,
`Borrowed` and `NotBorrowed` run the pool's own actions, not a summary of them. A frame is
abstracted to the call it belongs to; a response is two parts, because the caller reads a length
and then a body; a body may fail to parse. The caller's `SendN` and `RecvN` are single steps here;
that they may be is what `NetUtil` shows. `ioFailed` counts calls that fail while they send or
receive, `lost` connections that break. The provider uses neither of them: `OnMessage` takes what
has come (`Take`), any number of frames, the last one perhaps in part (`cut`), in which case the
bytes that come next begin inside a frame (`rest[f]`). It looks at one frame, at the beginning of
what it took. `Serve` executes its method, on part of the request if the frame was cut, and
answers; `Ignore` returns without an answer, because the header or the request does not parse or
the node does not have the method; `Throws` is the exception of `substr`, which ends the provider.
Bytes that begin inside a frame are never served, which `Misaligned` proves of the example's frames
(section 5). `cuts[f]` counts the segments that ended inside a frame since `f` was opened. `NoAddress` keeps the code's difference between callers with and without
a controller: without one the process dies there (`kopirpcchannel.cc:119`, `:126`). Faults
(`Disconnect`, `ProviderDies`, `Reregister`, a cut, an exception) are bounded by `MaxFaults`, but
not what the rest of a cut frame does; a provider may come back
at any time. ZooKeeper itself answers (`GetData`); its absence belongs to `ZkClient`.

**NetUtil.** A byte is its position in all that is sent, so order and completeness are equations.
`SendSome` and `RecvSome` move any number of bytes; `Interrupted` is `EINTR`; `Close` may lose a
tail of what is on its way; after it `send` may still take bytes in vain, as a kernel does.

**ZkClient.** One action per call in `Start`, and `NoHandle`, its `exit` when `zookeeper_init`
returns null; `Connect` and `Drop` queue events; `Watch` delivers
one to `globalWatcher`. `posts` records what kind of semaphore was posted to: `live`, `null`
(before `zoo_set_context`; the process dies) or `gone` (after `Start` has returned).

**Registration.** `zoo_exists` and `zoo_create` are two steps of `Create`. An error of
`zoo_exists` other than "no node" is taken by the code for "exists" (`ExistsFails`); an error of
`zoo_create` exits. `Expire` ends a session, of a process that is gone or, at the price of a lost
connection, of one that lives. `exit` runs no destructor of `Run`'s locals, so the session of a
failed provider goes by timeout only. The order of `unordered_map` is any order.

**Logger.** A macro is two steps, `SetLogLevel` and `Log`, because other threads run between them.
The writing thread chooses the file, pops, looks at `stopping`, and writes with the level of that
moment. `Stop` is exchange, push of the empty message, join. When `fopen` fails, `exit` runs in the
writing thread, whose logger cannot join it: the process does not go on, and the liveness
properties exclude that case. `loglevel` is a plain `int` written by all threads; the model takes
its reads and writes as atomic.

**Messages.** A byte is a number and a message a record with its type, its fields and the bytes of
the fields it does not know. A generated class differs from the next in its switch, which is a
function from tags to ways of reading (`RpcHeader_InternalParse`); the loop around it is the same
in all of them (`ParseLoop`). What a turn of that loop reads depends on the bytes alone, so `Turns`
is the reading and the fold over it the storing; a message inside another is parsed when its turn
is stored (`Inner`). A nested message is written behind the size that `ByteSizeLong` has
cached, not behind the length of what follows, so the two functions have to agree as in the code.
Unknown fields are kept as the library writes them, their numbers in as few bytes as they need
(`Written`), whatever bytes they came in.
A `uint32` is the `int32` with the same bits, which keeps all arithmetic inside 32 bits.

**Provider.** `ProviderMain`, `NotifyService`, `RunBinds`, `RunCreates` (one node a step) and
`RunStarts` follow `main` and `Run`; muduo binds before the nodes are created and listens after, and
callers may come at any point. `OnMessage(c, n)` takes the first `n` of the bytes sent on a
connection, any `n`, and `WayOf` says which way the function goes: an exception of `substr`, which
ends the process; a return without answer; a request that is deleted because it does not parse; or a
request handed to the service. The handler, `done` and `SendRpcResponse` are one step,
`CallMethodAndDone`, since they run in one thread that nothing else waits for. `heap`
counts, of each object, how often `new` made it less how often `delete` was called: it goes above 1
for what is left behind and below 0 for what is deleted twice. `cuts[c]` remembers which calls of a
connection were the next to be served when a segment ended early; their number is not bounded.

**Programs.** A deployment is a choice of caller, arguments, files, service and of what ZooKeeper
holds already; it is made once, in `Init`. Each thread has a connection of its own and goes through
`CallMethod` with real frames. The address cache needs no state here, since nodes are created and
never changed; how it, the pool and faults behave is in `KopiRpcChannel`. Nodes that earlier
providers have left are there at the start, with any bytes: the address of this provider, another
one, or none. `Create` leaves them alone, and the calls that read them go elsewhere or fail. A
connection is found again only under the address it was made for (`InBucket`). Names, passwords and
texts are cut to a letter.

## 3. Runs

| Run | Instance | Distinct states | Shows |
|---|---|---|---|
| `pool` | 4 threads, 1 node, 3 descriptors, limit 2 | 18,898 | `OneOwner`, `NoLeak`, `QuotaExact`, `NoLostWakeup`; implements `ConnectionLease`; `BorrowEnds`, though holders need never return a connection |
| `channel_safety` | 2 threads, 2 methods, 2 nodes, 2 descriptors, 3 calls, 1 fault or cut, symmetry | 428,031 | `StreamOfHolder`, `BorrowReturnPaired`, `RightNode`, `OneLookup`, `StaleCostsOne`; implements `RemoteCall` |
| `channel_live` | 2 threads, 2 calls, 1 fault or cut, with and without controller; the providers have the methods | 296,908 | `CallEnds` |
| `channel_ignored` | the provider on `n2` lacks a method | | `CallEnds` fails (below) |
| `netutil_stream` | lengths 0, 1, 3; 5 bytes; kernel buffer of 2; 1 interrupt | 8,016 | `InOrder`, `FailsOnlyClosed`, `Delivered`, `RecvEnds` |
| `registration_safety` | 2 providers, 2 services, 3 methods, 3 sessions, 1 crash, 1 lost connection | 395,632 | `ParentThere`, `SomeoneStays`, `NoGhost`, `ListedUntilExpiry` |
| `registration_discover` | the same without lost connections | | `Discoverable` fails (below) |
| `zk_start` | 2 clients, 2 drops each | 5,655 | `StartedConnected`, `StartEnds` |
| `zk_post` | the same | | `FindsSemaphore` fails (below) |
| `logger_files` | 2 threads, 3 messages, 3 days | 165,864 | `Accounted`, `NoLostWakeup`, `OneStaleDate`, `StopEnds`, `AllWritten` |
| `logger_drain` | 2 threads, 2 messages | | `DrainedAtStop` fails (below) |
| `programs` | 505 deployments, 2 connections, 2 calls a thread, segments that end anywhere, 235 messages | 48,508 | `ServedAsSent`, `EndToEnd`, `AnsweredUnlessCut`, `ObjectsFreed`, `EndpointAgrees`, `ReportTrue`, `ConfigByRules`, `CodecAgrees` |

**Why the bounds are enough.** Four threads on a limit of two give two holders and two sleepers,
which is what a stolen or misdirected wakeup needs; the limit is reached and left in every
direction, two idle connections can queue, and a descriptor that has been closed comes back.
Numbers that move between the buckets of two nodes occur in `channel_safety`, which runs the same
pool, and `OneOwner` is proved for any number of nodes. Two threads that share one connection per node make every call meet a connection that another call
has used, and three calls let a thread come back to it; one fault is enough to break an idle, a
sending or a receiving connection, and what matters is where it falls; one cut is enough for a call
that is answered from part of its frame, returns its connection as healthy and leaves the rest to
the next borrower. Lengths of 1 and 3
at both ends need not line up, and a kernel buffer of two bytes cuts every frame of three. Two providers, three
sessions and one crash give a start inside the old session, a start after it, and a race of two
starts. Three messages leave one in the writer's hand and two queued when `Stop` comes; three days let a
stale date skip one. Two calls on a connection are enough for a first
that is served with part of its frame, and a second behind the rest of it, with segments that end at
any byte, as often as there are bytes; two threads of two calls let the benchmark fail in part; every line of up to three
characters out of seven kinds reaches every branch of the parser, and pairs of lines the
repeated key. The bounds on calls, messages, sessions and faults appear
as `Max...` in guards; invariants that do not mention them are proved without them (section 5).

**Symmetry** over threads and descriptors is used in `channel_safety`: they are only compared for
equality, and the refinement checked there is a safety formula that treats them alike.

**Deadlock** is checked in every run except `channel_safety` and `channel_ignored`, where an
ignored request leaves its caller blocked for ever, as in the code. In `channel_live`, where the
providers have all methods, only a cut does that (`Swallowed`), and such a state stutters. States in which the program has
ended (destroyed pool, dead process, `Stop` returned) stutter by an action of their own. In
`programs` the only cycle is that stutter (`Over`), and every step shortens something that is left
to do, so the absence of deadlock says that every program reaches its report, an exit, a crash, or a
`RecvN` that waits in vain, which `AnsweredUnlessCut` then accounts for.

**What `CallEnds` excepts.** A call that waits on a connection on which a segment has ended inside
a frame, with nothing under way in either direction (`Swallowed`), and a process killed because a
thread without a controller found no address (`Killed`). A caller that waits for any other reason,
for ever, violates it.

**MCOffers.** In `channel_safety` the provider on `n2` does not have `m1`. A caller comes to it
when `m1` was registered there by a provider that has been replaced: the ephemeral node lives on
until the session ends, and the cache for as long as the caller.

**Fairness.** Pool: the scheduler runs a thread that is inside `BorrowConnection`, `connect` comes
back, and the clock reaches the deadline of a wait. Nobody is obliged to borrow, return or notify.
Calls: in addition a provider's reactor reads what its connections bring, and ZooKeeper answers.
`NetUtil`: the threads in the two loops run while the kernel lets them. `ZkClient`: the thread in
`Start` and the library's thread run and ZooKeeper can be reached; this last is an assumption on
the environment, without which `Start` waits for ever, since `sem_wait` has no time limit
(docs/usage.md:125 says that it fails). Logger: the writing thread and a `main` inside `Stop` run.
All of it is weak fairness.

## 4. Where code and documents differ

Each of these is a run whose property states the text, and fails.

- `channel_ignored`: a request for a method the provider does not have gets no response
  (`rpcprovider.cc:178-190`), and `RecvN` waits without limit. The caller never sees the error that
  docs/usage.md:101-106 has it look for, and its connection is never returned.
- `registration_discover`: `Create` leaves an existing ephemeral node alone though it belongs to a
  session that is about to end; a provider restarted within its old session's timeout, or started
  beside another, serves unlisted after that (`zookeeperutil.cc:69`, against `rpcprovider.cc:99`).
- `zk_post`: the watcher may run before the context is set, and runs again after every reconnect,
  when the semaphore is gone (`zookeeperutil.cc:26-28`, `:47-56`).
- `logger_drain`: the writer looks at `stopping` after every `Pop`, not for the empty message, so
  what is queued before `Stop` is dropped; the comment at `logger.cc:33` says it is all filed.

Others appear in the actions, without a run: a request whose frame is cut behind its header is
served with an empty or partial argument, its rest stays on a connection that goes back as healthy,
where the next call is answered with nothing for it (`Resting`, `Serve`), and a segment that ends
inside the header ends the provider (`WayOf`, `Throws`; docs/usage.md:132 calls cut and joined frames unsupported, and the comment at
`rpcprovider.cc:138` has `argsSize` bound the frame, which nothing looks at); spaces inside a key
or value pass (`LegalButForSpaces`, against `kopirpcconfig.h:10`); a missing entry becomes port 0 at
`rpcprovider.cc:76`, though `kopirpcconfig.h:26` leaves it to the caller of `Load` to check, so the
provider listens on a port of the kernel's choice and registers 0; `calleruserservice.cc` passes no
controller and prints a response for a call that has failed (`UserReport`); the comment at
`rpcprovider.cc:196` says that nothing is deleted, which `:247` does; the null controller (`NoAddress`), a waiter woken for
a free slot that sleeps on because it waits for an idle connection only (`WakeSleep`,
`kopiconnectpool.cc:143`), a line filed with the level of a later message (`Write`,
`logger.cc:39`), and of two providers that start together one that exits (`Refused`).

## 5. Proofs

Invariants and two refinements, for every value of the constants: any number of threads, nodes,
descriptors, services and calls, files of any length. None of them uses the bounds except for the
ranges of counters.

**Pool.** `TypeCorrect`: types, and that a thread owns a descriptor exactly while it connects or
holds, and is bound to a node exactly while it is inside or holds. `OneOwnerHolds`: a descriptor
has one owner. `TypeOK /\ OneOwner` is inductive: a thread takes a descriptor only from the head
of a queue, where `QueueOwns` says nobody else has it, or from the kernel, which hands out
numbers of closed sockets, and by `OneOwner` every owned descriptor is open. Lemmas: one per way a
descriptor changes hands (`OwnerTakeFree`, `OwnerSocket`, `OwnerClose`, `OwnerGiveBack`).
- `NoLeakHolds`: every open descriptor has an owner. It is not inductive alone, since `Destroy`
  empties the queues; `GoneEmpty` adds that after it no thread is inside.
- `QuotaExactHolds`: `active_count` is the number of the bucket's connections that are idle, lent or
  being made. The proof follows the cardinality of `Occupying`, which every action changes by
  one member or none, together with the count.
- `NoLostWakeupHolds`: while somebody sleeps, no node has more idle connections than waiters on
  their way to the lock. It is inductive with the types: a return that adds a connection wakes a
  sleeper if there is one, a waiter stops being awake by taking a connection or by finding none, and
  a borrower that takes a connection before them only lowers the left side.
- `LimitHolds` and `LeaseImplemented`: from `QuotaExact` at most `Limit` connections per node are
  open; with that, each step of the pool is a step of `ConnectionLease` or changes nothing of it.

**Calls.** The pool is an `INSTANCE`, so its lemmas are used as they stand (`P!...`), and the
invariant grows in layers, each of which only needs those before:
- pool and calls agree on who holds what (`BorrowReturnPairedHolds`), whichever of the five
  ways a call ends; call numbers are a caller's own, so no two calls in progress share one;
- every address at hand was once registered for its method (`AddressInv`), and what a thread has
  asked ZooKeeper for is in the cache or on its way there (`AskedInv`), whence `OneLookupHolds`:
  no thread has to ask twice for what was found;
- `StreamOfHolderHolds`: what travels on a connection belongs to the call that holds it, and the
  rest of an earlier frame stands in front of it only where a segment was cut. The invariant names
  the stage of the exchange (request sent, taken or served, length read) and says that a connection
  goes back without frames and answers, though perhaps with a rest, or is closed. With the
  addresses it gives `RightNodeHolds`: a request reaches only a node its method was registered on,
  though the descriptor may have led elsewhere before;
- `StaleCostsOneHolds`: every connection that breaks fails at most one call; the proof follows the
  cardinality of the dead connections still open;
- `RemoteImplemented`: a request is executed at most once, by a provider that the call was
  sent to, and a call that succeeds returns the result of that execution. The mapping is in
  `KopiRpcChannel`; the invariant it needs (`ServedInv`) says that the body of a response is the
  result of the call that waits for it.

**NetUtil.** `InOrderHolds`, `FailsOnlyClosedHolds`, `DeliveredHolds`. The invariant relates the
buffers: what is in the kernel continues what has been received and stored in the current buffer
(`StreamInv`, `BufferInv`), the counts add up (`CountInv`), and a failure implies a closed end
(`CloseInv`). `InOrder` alone is not inductive, because it says nothing of the bytes on their way.

**ZkClient.** `StartedConnectedHolds`: a positive semaphore and a queued "connected" both mean
that there has been a connection (`SemMet`, `EventsMet`).

**Registration.** `ParentThereHolds`, `NoGhostHolds`, `ListedUntilExpiryHolds`. The invariant says
in addition that service nodes belong to no session, that a method is only created after its
service was gone through, that a serving provider went through all its paths, and that without
lost connections live providers have live sessions, the services they went through exist, and so
does everything they went through until a session ends. `SomeoneStaysHolds`: providers that race
for the nodes do not all exit. Strengthened by `LastStays`: some provider has not failed and is not
about to be refused the node it creates, namely whoever created the last one.

**Logger.** `TypeCorrect`, `NoLostWakeupHolds`, `AccountedHolds`. `TypeOK` needs to know that a
level has been set before a line is written, that the empty message is in the queue only after
`stopping`, and what the writer holds at each stage (`LevelSet`, `SentinelStops`, `WriterHolds`);
`Accounted` then follows from facts about `Append`, `Head` and `Tail`. `OneStaleDateHolds`: of
the messages of a day or later at most one goes to a file of a day before it, because a file that is
open is of no day before the last message filed (`DateInv`).

**Programs.** `ObjectsFreedHolds`: every way through `OnMessage` frees what it has made or leaves it
to the closure of the handler that runs, whatever bytes come and whatever they parse to.
`ConfigByRulesHolds`: for files of any number of lines of any length, the parser accepts what the
rules of `kopirpcconfig.h` allow, makes of it what they say, and of the rest accepts no more than
lines that would be allowed but for spaces inside a key or value. `EndpointAgreesHolds`: for every such file a caller that has
read a node of this provider goes to the address that it has bound; what `sprintf` writes, `atoi` reads
back (`AtoiDecimal`), and no value that the parser lets pass holds a colon (`Words`), so that
`find(':')` comes to the end of the address (`EndpointParts`). When the file gives no port, 0 or
65536, the kernel has chosen the port, the node says 0, and the calls go to port 0. A call that finds
an older node goes to the address in it, and is sent only if that is the provider's. These three need what a recursive
function computes for every argument. The provers have no induction rule for that, but every set of
numbers has a least member (from the well-foundedness of `<` in the library), and a proof by the least
counterexample is first-order: `Induction` and `StrongInduction` are proved that way, and
`Recursion` and `Unfolding`, that the functions so defined exist. After that a scan is its first step and
its next step (`CollectedStep`, `AtoiStep`, `LoadStep`, `DecimalIs`).

**The exchange of a connection.** `ServedAsSentHolds`, `EndToEndHolds`, `AnsweredUnlessCutHolds`
and `ReportTrueHolds`, for any number of connections, calls and cuts, with either service, any
configuration and whatever earlier providers have left in the nodes. The inductive invariant, `ExchangeInv` (`ExchangeHolds`), says
of every connection `w` in which of six situations it is, with what is in the buffers then:
- `Resting(w)`: no call waits for an answer; the inbox holds nothing, or what is left of a frame that a
  segment ended inside;
- `Asked(w)`: the whole frame of the call is on its way, behind such leftovers;
- `Ignored(w)`: what was read of the frame led to no service, because a segment ended inside it or
  inside the frame before it, or the provider does not have the method;
- `Handled(w)`: the handler of the call runs, with the request last served;
- `Replied(w)`: the outbox holds the frame of its answer, and nothing else;
- `Gone(w)`: an exception has ended the provider.

With it come `Matched` (the calls served are a prefix of those sent, one by one, and the answered ones
a prefix of those served) and what the table of methods holds at each stage of the provider (`MapInv`). None of the
properties is inductive alone, because none says what the bytes under way are. The proof needs

- the shape of frames: `FrameIs` computes from the codec that the frame of a call is four bytes of size,
  the last three of them 0, then bytes that are neither 0 nor 255, fewer than a hundred in all;
- `Misaligned`: read from inside a frame, the first four bytes are a size greater than all that can be
  behind them (or there are fewer than four), so the header does not parse or a `substr` throws,
  and nothing is served. That is why a cut loses calls and can end the provider, but
  makes no service run a call that was not made (`LeftRead`, `BehindLeft`);
- `Aligned` and `WayOfCall`: read from its beginning, a frame leads to its own method or to none; what
  is served is what the bytes that have come of the request parse to, and the request itself when
  all have come (the codec below, for the requests of the example);
- `ParseKeeps`: whatever the bytes, a parser answers with a message of its class;
- `AnswerFits` and `ResponseFrameIs`: what a handler answers, whatever it was asked, is written,
  framed, received and parsed back as it was.

From the invariant to `ServedAsSent`, `EndToEnd` and `AnsweredUnlessCut` the way is short.
`ReportTrue` needs in addition `CountInv`: each thread's `ok` and `fail` count its replies, good exactly when
they were answered (`LooksGoodIs`), its replies and what it has left to do are its calls, and the sum
that `main` prints is the sum over the threads (`SumIs`). It covers the benchmark and the caller of
the friend service; a thread counts only its own calls, and `main` reads after `join`.
`TypeOKHolds` rests on the same invariant: what is on a connection is bytes because it is a frame, an
answer or what is left of one, and the request of a running handler is of the class of its method.

**Codec.** `CodecAgreesHolds`: any two messages of a class, of any content that protobuf can write, agree
with what is written of them (`MessagesAgree`). The argument goes from the bytes up:
- a value of 32 bits comes back from its varint whatever follows it (`ReadsInt32`, `ReadsUInt32`): its
  groups of seven bits determine it (`GroupIs`, `Low32Value`), negative ones in ten bytes included, and
  `VarintSize` is the number of bytes (`VarintShape`);
- what a turn of the loop reads, it reads the same whatever follows, and leaves less than there was
  (`TurnsIs`), so that the turns over a field and what is behind it are the turn of that field and the
  turns of the rest. `Reads(deep, cases, t, m, m1)` says of bytes that they take message m to m1 in front
  of any others; it composes (`ReadsBoth`), and there is a lemma for each kind of field, for unknown
  ones, for a message inside (`ReadsMessage`) and for strings that repeat (`ReadsFriends`);
- for each class, `...Reads` puts these together to what `_InternalSerialize` writes, `...Copies`
  compares `Clear` and `MergeFrom` field by field, and `...Size` the announced size with the length.
`Strange` says what the unknown fields of a message may be: whole fields whose tags the class does not
have, as the library writes them; other bytes for the same field are read and written in that form. A message whose size does not fit in 31 bits inside another is excluded; protobuf refuses it.

**Assumptions**: the named `ASSUME`s of the modules, evaluated by TLC in the runs: distinct null values,
limits that are positive, services and methods that are different things, finite sets of threads and
descriptors (`FiniteAssumption`), a pool that fits the calls (`PoolAssumption`), files that are sequences of lines of bytes (`FileAssumption`),
nodes of earlier providers that hold bytes (`NodeAssumption`), messages of the
corpus that are messages (`CorpusAssumption`: strings and numbers of the sizes protobuf can write),
a kernel that chooses a port of 16 bits (`KernelPortAssumption`), and programs and services that are those of
`src/example`, with a connection for every thread (`ExampleAssumption`). The proofs about exchanges are
about the calls these programs make; their names and texts are the letters of the model.

**Only model-checked.** The liveness properties: `BorrowEnds`, `CallEnds`, `RecvEnds`, `StartEnds`,
`StopEnds`, `AllWritten`. Liveness under fairness and `ENABLED` are beyond the proof system here, and so
is the absence of deadlock. Every safety invariant and both refinements that the runs check are proved.

## 6. Not modelled

- Of the generated code: reflection and descriptors, arenas, swapping, moving and copy construction,
  and the accessors that nothing in the repository calls; they are protoc's, and change no message
  that the framework or the example handles. Groups among unknown fields, which proto3 never
  writes, are taken for an error.
- Three ways out of `CallMethod` and `SendRpcResponse` for a message that cannot be serialised: the
  messages of the repository have no required fields, so it does not happen.
- The memory that `memcpy` reads behind a segment of fewer than four bytes: whatever it is, the
  `substr` that follows throws.
- `argv[0]`, times, averages and percentiles of the benchmark: what it counts is modelled, what it
  measures is not.
- `KopirpcController::Reset` and the functions for cancelling, which nothing calls.
- Blocking I/O on a connection whose peer is alive but silent, other than an ignored request; memory
  and descriptor exhaustion other than a failing `socket`; the text of log lines.

## 7. Plan

Done in this order, most important first: pool and its lease; calls over the pool; logger; byte
streams; ZooKeeper session; registration; messages, configuration, provider and programs.

Next, modelling: the registry of `KopiRpcChannel` replaced by the nodes of `Registration`, so that
stale addresses come from sessions and restarts.

Every safety property of the runs is proved; what is left to prove are the liveness properties, which
need a prover with the rules for fairness. With a registry as above, `RightNode` would be the first
theorem to be proved again.
