# Verification of the Boost.Asio cookbook programs

The repository holds the examples of a Boost.Asio cookbook: small straight-line
programs that show one library call each (`01_basics`, most of
`02_io_operations`, `06_other`) and complete applications - clients in
`03_impl_client_apps`, servers in `04_impl_server_apps`, an HTTP client and
server and an SSL client and server in `05_http_ssl_tls`. There are no tests and
no documentation besides the comments. This directory models the applications
and the programs that transfer data in TLA+, model-checks them with TLC, and
proves with TLAPS the safety of the asynchronous TCP client, of the HTTP client
and its exchange with the HTTP server, of the servers, of the UDP client and of
the programs that hold one conversation.

## 1. Inventory

### Asynchronous TCP client - `03_impl_client_apps/tcp_asynchronous.cpp`

- **State.** Per request a `Session`: socket, id, `m_was_cancelled` (atomic),
  response buffer, callback. Per client: `m_active_sessions` (id -> session)
  with its mutex, the `io_context`, a work guard, one I/O thread.
- **Operations.** `emulateLongComputationOp` (create a session, insert it,
  connect), `cancelRequest` (find it under the mutex, set the flag, cancel the
  socket), `close` (drop the work guard, join).
- **Handlers, on the I/O thread.** `onConnect` -> `onWriteComplete` -> the lambda
  of `asyncReadUntil` -> `onRequestComplete` (shut down, erase, call back). The
  user's callback runs there too and may call the operations.
- **Interaction.** User thread and I/O thread share the map (mutex), the flag
  (atomic) and the socket (nothing).
- **Hard.** A cancellation between the look at the flag and the start of the
  next operation; ids that are reused; callbacks that call back into the client;
  `close()` while requests are under way.
- **Correct if** each request is reported once, with a code its cancellation
  explains; the map holds the requests under way and no others; `close()`
  abandons nothing; no operation blocks on the mutex for ever.

### Asynchronous TCP server - `04_impl_server_apps/tcp_asynchronous.cpp`

- **State.** `Acceptor` (`m_acceptor`, atomic `m_isStopped`), one `Service` per
  connection (socket, request, response), `Server` (`io_context`, work guard,
  thread pool).
- **Operations.** `Server::start`, `Server::stop`; the handlers `onAccept`,
  `onRequestReceived`, `onResponseSent` on any thread of the pool.
- **Interaction.** The threads take completed operations from one queue. No
  strand and no mutex: exclusion comes from each object having one operation
  outstanding at a time.
- **Hard.** Handlers of one connection on different threads; `stop()` against
  an accept that is completing; accept errors; sleeping requests that occupy the
  pool.
- **Correct if** a Service and the acceptor are used by one thread at a time,
  the server accepts until it is stopped, everyone is served, `stop()` returns.

### HTTP client - `05_http_ssl_tls/http_client.cpp`

- **State.** Per `HTTPRequest`: resolver, socket, request and response buffers,
  `m_was_cancelled`, callback. `HTTPClient`: `io_context`, work guard, I/O
  thread.
- **Operations.** `create_request`, `execute`, `cancel`, `close`; six handlers:
  resolve, connect, write, status line, headers, body.
- **Hard.** `cancel()` tests `is_open()` and cancels while `async_connect`
  closes and reopens the socket on the other thread; `execute()` may call the
  callback itself; a throwing `shutdown` on the I/O thread; what `read_until`
  reads beyond its delimiter.
- **Correct if** the callback is called once, a cancelled request soon stops,
  `close()` returns, and the callback finds the response the server sent.

### HTTP server - `05_http_ssl_tls/http_server.cpp`

- `Acceptor` and `Server` are those of the asynchronous TCP server with a root
  directory; the `Service` reads the request line and the headers, looks up the
  file and writes status line, headers and file.
- **Hard.** Requests that arrive in pieces, answers that are sent before the
  request was read, long files (the length has to fit into five characters), the
  end of the stream as the only end of the body.
- **Correct if** every complete request gets the whole answer.

### Synchronous servers - `04_impl_server_apps/tcp_iterative_synchronous.cpp`, `04_impl_server_apps/tcp_parallel_synchronous.cpp`, `05_http_ssl_tls/ssl_synchronous_server.cpp`

- **State.** `Server`: `m_stop` (atomic), one thread that accepts. Service: on
  that thread (iterative, SSL), or on a detached thread per client (parallel).
- **Operations.** `start`, `stop` (set the flag, join), destructor.
- **Hard.** `stop()` while the thread blocks in `accept` or in a service;
  detached threads that outlive the `io_context`.
- **Correct if** no service is under way when the `io_context` goes, few clients
  are accepted after `stop()`, `stop()` returns, clients do not hold up others.

### Programs that hold one conversation

`02_io_operations/{read,receive,write,send}_*.cpp` and `{read,write}_free_*.cpp`,
`read_until_*.cpp`, `shutdown_send_{client,server}.cpp`,
`03_impl_client_apps/tcp_synchronous.cpp`,
`05_http_ssl_tls/ssl_synchronous_client.cpp` and
`06_other/stream_based_tcp_{client,server}.cpp`.

- **State.** A socket, a buffer and how much of it is transferred
  (`total_bytes_written`, `total_bytes_read`); which call comes next.
- **Operations.** Blocking calls, or asynchronous ones of which each callback
  starts the next, on one thread. Their partner is netcat (so the comments say)
  or another program of the repository.
- **Hard.** Calls that transfer a part; a stream that ends or a connection that
  is reset in between; `shutdown` that throws after a reset; two sides that each
  wait for the end of the other's stream; bytes read beyond the line, which go
  with the buffer.
- **Correct if** no byte is lost, repeated or out of place, a program that ends
  without an error has transferred all it claims to, partners agree on the
  outcome, and a conversation between two programs of the repository ends.

### UDP client - `03_impl_client_apps/udp_synchronous.cpp`

- **State.** One socket, bound to a port by the first `send_to`.
- **Operations.** `emulateLongComputationOp`: send, wait for any datagram,
  close the socket and open another.
- **Hard.** Lost, late, duplicated and reordered datagrams; no timeout; nothing
  in an answer says what it answers.
- **Correct if** an answer is that of the request, and a request returns unless
  its datagrams are lost.

### The rest

| part | source | state and behaviour |
|---|---|---|
| cancelling a connect | `02_.../cancel_async_io.cpp` | one connect, one `cancel()`, a worker thread |
| timers | `06_.../steady_timers.cpp` | two timers, the handler of one cancels the other |
| basics, buffers, options, certificates | `01_basics`, other files | straight-line calls, data |

## 2. Modules

| module | models | role |
|---|---|---|
| `RequestLifecycle` | - | what an asynchronous client promises for each request |
| `AsyncTCPClient` | asynchronous TCP client | implements `RequestLifecycle` |
| `AsyncTCPClient_proofs` | - | the TLAPS proofs |
| `AsyncServer` | asynchronous TCP server; Acceptor and Server of the HTTP server | |
| `AsyncServer_proofs` | - | the TLAPS proofs |
| `HTTPClient` | HTTP client: threads, stages, cancellation | implements `RequestLifecycle`, without its promise about success |
| `HTTPClient_proofs` | - | the TLAPS proofs |
| `HTTPExchange` | HTTP client and server over one connection: bytes, buffers, ends of streams | composes the two sides |
| `HTTPExchange_proofs` | - | the TLAPS proofs |
| `SyncServer` | the three synchronous servers | |
| `SyncServer_proofs` | - | the TLAPS proofs |
| `MessageTransfer` | - | what two programs that exchange messages promise |
| `SyncPrograms` | each program that holds one conversation, as the sequence of its calls, and who talks to whom | data of `MCConversation` |
| `Conversation` | what the calls do: loops, callbacks, errors, the connection, netcat; for any programs | implements `MessageTransfer` |
| `Conversation_proofs` | - | the TLAPS proofs for any two programs |
| `Agreement_proofs` | - | the TLAPS proofs for two programs that were written for each other |
| `UdpClient` | the UDP client, its servers and the network | |
| `UdpClient_proofs` | - | the TLAPS proofs |
| `MC...` | - | instances for TLC: model values, symmetry |

### How state and actions correspond to the code

A variable has the name of the member it models where there is one
(`active_sessions`, `was_cancelled`, `is_stopped`, `m_stop`, `m_request`); an
action has the name of the function, or of the statement at which it begins
(`EmulateLongComputationOp`, `InsertSession`, `AsyncConnect` are one function,
cut at the mutex and at the start of the operation). `PROJECT.json` gives the
lines of each definition.

*Atomicity.* A step ends where another thread can see a difference: at a mutex,
an atomic flag, the start, the completion or the cancellation of an operation
on a socket. What only one thread can reach (the construction of a session, the
parsing in a handler, `shutdown` in `onRequestComplete`) is part of the step
around it.

*Boost.Asio.* A session's operation is `"none"`, `"pending"` (the reactor waits
for the socket), `"partial"` (a composed operation has transferred a part, its
own handler is queued), or finished with a code and queued. `cancel()` turns
`"pending"` into `"aborted"` and changes nothing else, which is what the library
documents. In `AsyncTCPClient` and `HTTPClient`, with one I/O thread, the queue
is the set of finished operations, and its order is a matter of fairness; in
`AsyncServer` the queue `ready` is a sequence. `async_connect` over several
endpoints closes and opens the socket from the I/O thread (`NextEndpoint`,
`Reopen`).

*Bytes.* `HTTPExchange` and `Conversation` look into messages. Their tokens are
the carriage return, the line feed, and one token for each other part; the
network passes on any number of tokens at a time, so the cut between `\r` and
`\n` is among the cases.

*Programs as data.* The programs of `Conversation` differ in their calls and
share what a call does, so `SyncPrograms` has one definition per source file and
`Conversation` one action per way a call can go on or end. A loop around
`write_some` and a callback that starts the next `async_write_some` are one call,
`Write`: between two parts both keep only the count, and nothing else runs on
the thread. The composed `boost::asio::write` is such a loop too. `Write` and
`WriteSome` differ in whether a part is taken for the whole; both claim it. An SSL call is the
messages it exchanges: the handshake three, the shutdown one each way.

*UDP.* A datagram is a request or an answer, its number and the client's port.
The network is the set of datagrams on their way; what is received may leave a
copy behind. `given` is the history of the ports the kernel gave out.

*Exceptions.* An exception that leaves `m_ioc.run()` or `cancel()` ends the
program: variable `failure` in `HTTPClient` and `HTTPExchange`.

## 3. Runs

| run | checks | bounds | shows |
|---|---|---|---|
| `AsyncTCPClient_safety` | `TypeOK`, `ActiveSessionsExact`, `CloseDrains`, `ImplementsLifecycle` | 3 requests, two of which share an id one after the other; 2 cancellations | safety of the client under all interleavings of the two threads |
| `AsyncTCPClient_live` | `ReuseIsConfined`, `EveryRequestReported`, `CloseReturns`, `AbortIsReported`, `CallsReturn` | 2 requests with one id, which may be given away while in use; 2 cancellations | nothing is forgotten, nothing blocks for ever; what reuse of an id costs, and that it costs no more |
| `AsyncTCPClient_lostcancel` | `CancelledIsReported` (violated) | 1 request, 1 cancellation | the lost cancellation |
| `AsyncServer_server` | `TypeOK`, `ServiceIsExclusive`, `AcceptorIsExclusive`, `AtMostOneLateService`, `AcceptingGoesOn`, `EveryoneIsServed`, `StopReturns` | 2 threads, 2 peers, accepts may fail | exclusion without locks; the server works until it is stopped or an accept fails |
| `AsyncServer_accepterror` | `KeepsAccepting` (violated) | 1 thread, 1 peer, accepts may fail | one failed accept ends all accepting |
| `HTTPClient_client` | `TypeOK`, `CancelIsNoticed`, `CancelThrowsOnlyWhileReopening`, `ImplementsLifecycle`, `EveryRequestReported`, `CloseReturns`, `AbortIsReported` | 1 request, 3 endpoints, 3 cancellations | one callback, whoever calls it; cancelled requests stop; when `cancel()` throws; nothing is forgotten |
| `HTTPExchange_exchange` | `TypeOK`, `ResponseIsDelivered`, `ErrorsHaveACause`, `ExchangeEnds` | every kind of resource, files of 2 tokens | the protocol of the two programs works however the network cuts it |
| `HTTPExchange_body` | `BodyIsTheFile` (violated) | 1 file of 1 token | a line feed precedes the body |
| `SyncServer_servers` | `TypeOK`, `ServicesEndFirst`, `AtMostOneLateClient`, `StopReturnsAfterClient`, `EveryoneIsServed` | 3 servers, 3 clients, one may fall silent | what stop waits for and who holds up whom |
| `Conversation_pairs` | `TypeOK`, `PartnersAgree`, `NobodyIsStuck`, `ImplementsTransfer`, `ConversationEnds` | every program with its partner, but for `write_free_asynchronously`; messages of 2 or 3 parts | no byte is lost or out of place, a program that succeeds has written what it says and read what it waits for, partners agree and never both wait, conversations end |
| `Conversation_writefree` | `AllDataIsWritten` (violated) | `write_free_asynchronously` with netcat | a part of the message is taken for the whole |
| `UdpClient_requests` | `TypeOK`, `AnswersMatch`, `ReturnsUnlessLost` | 3 requests, 3 ports | answers are not mistaken; only loss blocks |

**Why the bounds are enough.** Two requests are the fewest that compete for the
mutex and for the I/O thread, a third (in `safety`) can be made from a callback
while two are under way; two cancellations can hit one request twice or two
requests. In `live` both requests have one id and may be under way together. Two
pool threads are the fewest that overlap; two peers are the fewest that could both
get a Service after `stop()`. The requests of the HTTP client share only the
threads and no state, and their properties are about one request each, so one is
enough; section 5 proves the safety for any number. Two endpoints are the fewest
with a reopened socket, three with one that is neither the first nor the last.
Two body tokens can be cut apart, and so can the parts of a message of a
conversation; a third part leaves one between the first and the last transfer.
With three UDP requests and three ports an answer can be late by one request and
by two, and ports can be given out once each or again. `MaxCancels`,
`MaxEndpoints`, `MaxRequests` and `BodySize` are the only bounds on behaviours; a request is made at most once and a peer
connects at most once, so everything else is finite by itself. What TLC finds on
these instances is, as far as safety goes, proved for all in section 5.

Deadlock is checked everywhere except in `SyncServer`, where the accepting thread
may block for ever, in `Conversation`, where netcat may, and in `UdpClient`,
where `receive_from` may; the other modules have a step that says what is over.

### Findings

1. **A cancellation can be lost** (`tcp_asynchronous.cpp:313-319`, `341-347` of
   the client). The flag is read, then the next operation is started; the flag
   and `m_sock.cancel()` fit in between. With a peer that stays silent the
   request is never reported, although it was cancelled before it completed,
   which is what the map exists for (comment at line 257).
2. **An accept error ends the service** (`tcp_asynchronous.cpp:192` of the
   server). `onAccept` returns without a new accept although the acceptor "has
   not been stopped yet" (comment at line 179).
3. **The body begins with a line feed** (`http_client.cpp:421`). The loop leaves
   at the empty line before it removes the `'\n'` (comment at line 422).
4. **A part is taken for the whole** (`write_free_asynchronously.cpp:46`). The
   program starts one `async_write_some`, which may write a part. The callback
   does not look at `bytes_transferred` and says "Here we know that all the data
   has been written to the socket" (comment at line 28). In the counterexample two
   of the three parts of the message are written, and the program ends without an
   error.

Met while modelling, and without a run of their own because no comment of the
code claims otherwise:

- `HTTPRequest::cancel` may throw: `is_open()` and `m_sock.cancel()` are not
  atomic with `async_connect`'s closing of the socket (`http_client.cpp:217`).
  `CancelThrowsOnlyWhileReopening` says that this is the only way.
- `onResponseSent` of the asynchronous server prints an error for every response
  that was sent and none for one that was not (`tcp_asynchronous.cpp:75`).
- `emulateLongComputationOp` does not look whether the id it is given is in use
  (`tcp_asynchronous.cpp:265`); that it is unique is left to the caller. If it is
  not, `cancelRequest` can no longer find one of the two sessions;
  `ReuseIsConfined` says that nothing worse comes of it.
- the stream client and server end only because the client gives up after two
  seconds: each reads to the end of a stream the other does not end before it has
  read to the end of the first.
- a lost datagram blocks the UDP client for ever, and nothing but the order in
  which the kernel gives out ports keeps a late answer from being returned for
  the next request.
- the `shutdown` in `on_request_sent` throws on the I/O thread after a reset
  (`http_client.cpp:307`); `ErrorsHaveACause` tells when this server causes one:
  if it is stopped, or answers a request line before it has read the headers.
- `stop()` of the synchronous servers returns only after one more client
  connects.
- the parallel server's threads may outlive their `io_context`: they are detached
  (`tcp_parallel_synchronous.cpp:25`). `ServicesEndFirst` exempts this server.
- a file of 100000 bytes or more is sent whole with status 500 and a length of
  five zero bytes (`http_server.cpp:228`). `ResponseIsDelivered` takes that for
  the response, so it does not object.
- a server that stops in the middle of a file makes a success of it: the client
  does not compare with content-length (`http_client.cpp:470`).
  `ResponseIsDelivered` speaks of servers that nobody stops.

## 4. Fairness

- *Threads.* Every thread that has a step takes one at some time: weak fairness
  of the steps of a handler or of a public operation that was begun. No user is
  obliged to call anything: no fairness of `EmulateLongComputationOp`,
  `CancelRequest`, `Execute`, `Close`, `Stop`, `Connect`.
- *The queue.* `io_context` runs handlers in the order they were queued; where
  the queue is not a sequence this is strong fairness of each request's
  handler: others may come first, but not for ever.
- *The mutex.* Weak fairness of the step that locks suffices: a behaviour has
  finitely many calls.
- *Peers.* None by default: a peer may stay silent for ever, and `LiveSpec` of
  each module says nothing of it. Properties that need peers that answer say so
  with `NetworkFairness => ...`. In `SyncServer` the silent peers are the constant
  `Silent`. A lookup and a connect end because the operating system limits them.
- In `HTTPExchange` both sides are programs of the repository, so both are fair;
  the network delivers what it has accepted.
- In `Conversation` both sides are fair, and time passes for `expires_after`;
  netcat is not. `ConversationEnds` speaks of the pairs without netcat.
- In `UdpClient` the client's own steps and the servers are fair; of an answer
  that arrives again and again one is received at some time. Nothing keeps the
  network from losing everything, and `ReturnsUnlessLost` allows for that.

## 5. Proofs

### The asynchronous TCP client

`AsyncTCPClient_proofs` proves, for any set of requests, any ids and any number
of cancellations:

- `TypeCorrect`: `Spec => []TypeOK`;
- `CloseDrainsCorrect`: `Spec => []CloseDrains`;
- `MapIsExact`: `~ ReuseInFlight` implies `Spec => []ActiveSessionsExact`;
- `ReuseIsConfinedCorrect`: `Spec => []ReuseIsConfined`, for any use of ids;
- `Refinement`: `Spec => ImplementsLifecycle`.

*Assumptions.* Those the module declares: `IdOf` maps requests to ids,
`NoSession` is no request, `MaxCancels` is a natural number.

*Argument.* None of the properties is inductive: `CloseDrains` says nothing until
`close()` has returned. `IInv` adds what each program point knows: `RequestsOK`
(from the first operation to the callback a request has an operation outstanding
or the I/O thread in its handler, never neither; a code of `aborted` was asked
for), `HandlerOK` (the session in the handler has no operation outstanding),
`CallsOK` (a created session is known to exactly one thread, the holder of the
mutex is in `cancelRequest`, the I/O thread calls only from callbacks), `ClosingOK`
(after `close()` the user thread calls nothing, and after `run()` returned nothing
is outstanding) and `MapOK` (entries are sessions that were made, under their own
ids). `NextIInv` has one step per action and one step below it per conjunct.
`CloseDrains` follows: when the thread has left `run()` no operation is
outstanding and no handler is active, so by `RequestsOK` every request was
reported. `MapIsExact` adds `IdsExclusive`, that two requests with one id are not
under way together, which is where the assumption about the callers enters.
`ReuseIsConfined` needs no such assumption: the map changes under the mutex, which
`cancelRequest` holds until it returns, so `CallsOK` says that nobody is cancelling
when `onRequestComplete` erases the entry.
`Refinement` shows for each action which abstract step it is: creating a session
starts a request, the flag cancels it unless it is settled, the test of the error
code or of the flag settles it, the callback notifies; all others stutter.

### The asynchronous server

`AsyncServer_proofs` proves, for any number of pool threads and peers and with
accepts that fail or not: `TypeCorrect`, `ServiceIsExclusiveCorrect`,
`AcceptorIsExclusiveCorrect`, `AtMostOneLateServiceCorrect`, each
`Spec => []...` of the invariant it is named for, and `AcceptingGoesOnCorrect`,
`Spec => AcceptingGoesOn`.

*Assumptions.* Those of the module: there is at least one thread, `NoClient` is
no peer, `AcceptErrors` is a Boolean.

*Argument.* The exclusion properties speak of threads in handlers, but whether a
second thread can enter one depends on what waits in the queue and in the
reactor. `IInv` therefore says where the one operation of each object is:
`AcceptOK` (the accept is outstanding, or in the queue once, or in the hands of
one thread), `QueueOK` and `HandlersOK` (a connection is in the queue once or in
one handler, never both, and `conn` says in which), `StopOK` (the flag follows
`stop()`, the threads have exited when they are joined) and `LateOK` (once a late
Service exists no accept is outstanding, queued or to be started again - the
reason why there is no second). There is one lemma per action, with one step per
conjunct; the actions that append to or take from the queue use `Grown` and
`Shrunk`, which say what the new sequence has at each place. `AcceptingStep`
shows for each action that it keeps `AcceptUnderWay` but for the two exceptions.

### The HTTP client

`HTTPClient_proofs` proves, for any set of requests, any number of endpoints and
of cancellations, and peers that reset connections or do not: `TypeCorrect`,
`CancelIsNoticedCorrect` and `CancelThrowsOnlyWhileReopeningCorrect`, each
`Spec => []...` of the invariant it is named for, and `Refinement`,
`Spec => ImplementsLifecycle`.

*Assumptions.* Those of the module: `NoRequest` is no request, `MaxEndpoints` is
a positive and `MaxCancels` a natural number, `PeerResets` is a Boolean.

*Argument.* `IInv` says what each step of a handler knows of its request:
`RequestsOK` (an operation is outstanding only between `execute()` and the
callback), `HandlerOK` (the request in the handler has none; its stage is that
of the handler), `OpenOK` (the socket is open from the first connect on, but for
the moment between two endpoints), `UserOK` (what `cancel()` and `execute()` are
in the middle of) and `LateOK` (a request that started an operation although it
was cancelled is not past another look at the flag). `CancelThrowsOnlyWhileReopening`
needs `OpenOK` and `UserOK`: `cancel()` is past its test only if the request has
come to its connect, and from there on only `NextEndpoint` closes the socket. It
is inductive with them because the exception ends the program.
`Refinement` adds `CausesOK` (an operation is aborted only if the request was
cancelled) and shows for each action that it is a step of `RequestLifecycle` or
changes no status: the flag cancels, the look at it or the error code of an
operation settles, the callback notifies.

### The HTTP exchange

`HTTPExchange_proofs` proves, for any of the resources and files of any size:
`TypeCorrect`, `ResponseIsDeliveredCorrect` and `ErrorsHaveACauseCorrect`, each
`Spec => []...` of the invariant it is named for.

*Assumptions.* Those of the module: the resources are among the six kinds, a
file has at least one token.

*Argument.* The properties speak of the end of a request; what makes them true is
where each token is before. `IInv` adds: `ResponseOK` (what the client has in its
buffer, what the network holds and what the server has still to write are together
`Expecting`, the response without what the client's handlers have taken from it;
after a reset, or when the server was stopped, only a beginning of it is left),
`RequestOK` (the same of the request, while the server reads it), `StagesOK` (who
has told whom about the end of a stream) and `CauseOK` (while nobody stops the
server and it refuses nothing, the connection is not reset, and a server that has
closed left nothing unread). `ResponseIsDelivered` follows from `ResponseOK` when
the server has closed its end and the pipe is empty; `ErrorsHaveACause` from
`StagesOK` and `CauseOK`. The work is in the handlers that parse: each takes a
delimited piece off a buffer that may hold more, or the rest of which is still on
its way. The lemmas before the actions are about that: `MovePiece` (a piece that
moves from one sequence to another leaves the concatenation alone),
`PrefixAfter` and `Take` (taking from the front of what was received takes the
same from the whole), `RequestShape`, `ResponseShape` and `HeadersShape` (the
messages, token by token), and `TakeLine` and `TakeHeaders`, which put these
together for one handler each. Then there is one lemma for each action, with one
step for each part of the invariant.

### The synchronous servers

`SyncServer_proofs` proves `TypeCorrect`, `ServicesEndFirstCorrect` and
`AtMostOneLateClientCorrect`, for the three servers, any number of clients and
any of them silent. The only assumption is that `NoClient` is no client.
`ServingOK` says that a server that serves on its runner has no service under way
but the one the runner is with, and `MainOK` that the join returns after the
runner; together they give `ServicesEndFirst`. `LateOK` says that after a late
client the runner is past the accept with the flag set, so that it does not come
back to it.

### The UDP client

`UdpClient_proofs` proves `TypeCorrect` and `AnswersMatchCorrect`,
`Spec => []AnswersMatch`, for any ports and any number of requests.
`AnswersMatch` alone is not inductive; `PortsOK` adds that the k-th port given out
is that of the k-th request and of all its datagrams, so that a datagram for the
port of the present request belongs to it if no port was given out twice.

### The conversations

`Conversation_proofs` proves `TypeCorrect`, for any programs, messages of any
length and a connection that cuts, delays, ends and resets as it likes, and
`Refinement`: `WholeWrites` implies `Spec => ImplementsTransfer`.
`WholeWrites` says that no program takes a part of its message for the whole.
It cannot be dropped: `write_free_asynchronously` claims its message after one
`async_write_some`, which is finding 4, and with it `ImplementsTransfer` is false.

*Assumptions.* Those of `Conversation` but the last; TLC evaluates them for the programs of
the repository in `Conversation_pairs`. `ProgramsAssumption` and
`PairsAssumption` say what kind of things the constants are, with `netcat`, which
has no calls of its own, never on the side of the client. `CallsAssumption` says
how calls follow each other: nothing is written after a `write_some` that may
write a part, nothing is written in full after a write whose error is ignored, a
line that is awaited has its line feed at the end, and `drain` waits for nothing.
`PartnersAssumption` says that a program waits for what its partner says, as far
as both go, and that a program that reads to the end of the stream has a partner
that ends it only after it has said everything.

*Argument.* `MessageTransfer` speaks of whole messages, the code of one call and
how far it got. `IInv` connects the two, for each side: `SentOK` (`HasWritten`:
what was sent is what the calls so far write and the first `total` tokens of the
present one, or, `CutShort`, an earlier call did not write all, and none that
writes its message in full comes after it), `ReceivedOK` (`HasReceived`: at least what
the calls so far wait for was read, and the buffer is the end of it), `PipeOK`
(what was sent is what was received and what is on its way; after a reset only a
beginning of it is left) and `EndOK` (a partner that is read from to the end has
said everything when its stream ends). A program that returns is past its last
call, so `HasWritten` and `HasReceived` speak of the whole message, which is what
it claims if its writes are whole (`ClaimsAre`); a call that reads to the end of the
stream finds the pipe empty and, by `EndOK` and `PipeOK`, everything read.

What a program writes is the concatenation of its calls' messages, computed by
`FlattenSeq`, so the first lemmas are inductions over data. `Induction` is the
principle for a set of numbers, from `WFMin` and the well-foundedness of `<`.
`ConcatsExist` and `ConcatsUnique` say that the recursive function inside
`FlattenSeq` has exactly one value, `FlattenAppend` what the function does with
one more sequence, `EarlierNext` and `EarlierIsPrefix` what that means for the
next call of a program, and `ClaimedIsWritten` that until a call is cut short
the claims are a beginning of what is written. The helpers of the actions have
lemmas (`AdvanceIInv`, `ResetIs`, `LeaveIInv`, `PutIs`, `TakeIs`); each action has
one, which shows `IInv'` and the step of `MessageTransfer` that it is.

`Agreement_proofs` goes on to what `MessageTransfer` leaves open, whether both
sides succeed, and proves `PartnersAgreeCorrect` (`Spec => []PartnersAgree`) and
`NobodyIsStuckCorrect` (`Spec => []NobodyIsStuck`).

*Assumption.* Both are false of some pairs that meet the assumptions above: two
programs that first read both wait, and one that closes with something unread
makes the other fail. `AgreementAssumption` says of the calls of two programs what
makes them partners, and TLC evaluates it for the five pairs of the repository:

- each is `Orderly`: a call that may fail never follows one whose error is
  ignored, nothing is written after a shutdown, nothing is waited for after a read
  that may take more than it waited for (up to a line feed, or to the end), and a
  line that is awaited has a line feed;
- they `TakeTurns`: of two calls that wait, one comes after its program has
  written all that the other waits for (`Provides`), or has ended its stream. The
  read of the stream client has a time limit and so does not count as one that
  waits; with `drain` in its place the stream programs are no such pair;
- each awaits exactly what the other claims to write; or the client refuses the
  server, and the server awaits more than the client says.

*Argument.* The difficulty is a program that succeeds and closes while the other
goes on: its socket may have something unread, and the reset that follows
discards what was sent. `AInv` says why that does no harm. `SuccessOK`: who
succeeded has read all it awaits. Hence what it leaves unread is more than the
other claims, and (`Beyond`) a program that has written more than it claims is
past the last call that may fail. That is the third part of `PartnerOK`: after
a reset only calls whose errors are ignored are left; the others say that no
partner has failed, and that a stream ends only after all that is claimed. So
a reader that finds the stream ended finds everything it waits for (`AllArrived`,
which needs `BufferOK`: up to then exactly what was waited for was read). `ThrowOK`
keeps the client that refuses from its end, and `StreamOK` (who has gone or shut
down has ended its stream, or the connection is reset) gives `NobodyIsStuck`:
of two that wait, the one that provides has ended its stream, or has written
what the other waits for, and with nothing on its way that has arrived.

*Only model-checked:* all liveness; the prover has no rules for fairness and
`ENABLED`. `NobodyIsStuck` is the safety part of `ConversationEnds`. The four
violated runs are TLC's too: their counterexamples are behaviours.

## 6. Not modelled

- *Data races.* `m_sock.cancel()` on one thread while the other starts an
  operation on the same socket is a race of the C++ program on the socket object
  in addition to the lost cancellation; the models take each call as atomic.
- *Destructors out of order:* a client destroyed without `close()`, an
  `HTTPRequest` destroyed before its callback, `~Server` without `stop()`.
- *`close()` from a callback*, which would make a thread join itself.
- *Exceptions of constructors and of `accept()`*: they end the program at once.
- *Answers 413 and 501* of the HTTP server: the buffer has no maximal size, so
  `not_found` does not occur, and the repository's client only sends GET.
- *TLS*: the handshake is one blocking call that may fail in `SyncServer` and
  three messages in `Conversation`; how a certificate is verified is left out.
- *What is printed*, so also that `onResponseSent` prints when it should not.
- *The 6 bytes* the UDP client receives at most, which cut a longer answer.
- *`cancel_async_io.cpp`*: one connect, one `cancel()`, a thread that ends with the
  connect. It has a dozen states and no outcome that would be wrong; the race is
  in `AsyncTCPClient`, where it matters.
- *`steady_timers.cpp`*: two timers on one thread, the handler of one cancels the
  other, which expires later. A handful of states, right in every order.
- *`01_basics`, buffers, options, certificates*: straight-line calls without a
  state that could go wrong, and data.

## 7. Plan

Done, in this order: the asynchronous TCP client with its abstract specification
and proofs, the asynchronous server, the HTTP client, the HTTP exchange, the
synchronous servers; then the conversations with their abstract specification,
the UDP client, and the proofs about the asynchronous server, the HTTP client,
the synchronous servers, the UDP client, the HTTP exchange and the
conversations, with the agreement of partners last. Left:

- *The requests that reach the acceptor and the exchange together*: `AsyncServer`
  with the bytes of `HTTPExchange`, which now meet in one connection only.
