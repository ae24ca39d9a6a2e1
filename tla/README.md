# MistApi in TLA+

MistApi runs a Wish core and the Mist API inside an iOS app.  The repository
holds the port: the core's `select()` loop and its callbacks (`ios_port/`), the
Objective-C glue that launches the two parts and carries messages between them
(`MistPort.m`), and the request layer the app uses (`MistApi/`).  The Wish core
(`wish-c99`) and the Mist library (`mist-c99`) are submodules whose sources are
not in this repository; they are modelled only by how the port uses them.

This directory models the port as state machines, checks them with TLC, and
proves the main invariants with TLAPS.

    tlc -config port_loop.cfg MCPortLoop.tla
    tlapm PortLoop_proofs.tla

## The system

Three threads exist: the app's *main thread*, the *Wish core* thread that runs
`ios_port_main`, and a *resolver* thread for DNS.

| Component | State | Operations | Talks to | What is hard | What makes it right |
|---|---|---|---|---|---|
| Core loop (`app.c`) | connection pool, `rfds`, `wfds`, the local `sockfd` | one turn: resolver poll, `select()`, discovery, relay pass, connection pass, accept, events, periodic, IPC | calls the core, which calls back into `wish_open_connection`, `wish_close_connection` | the core opens and closes sockets in the middle of a pass; the kernel reuses numbers at once; connect() has three outcomes | a held descriptor is open and has one holder; nothing leaks; no abort |
| Relay connections (`relay_client.c`) | `curr_state`, `sockfd` of each relay | open by name or address, close | the loop, the resolver | close, callback, then reset of `sockfd`; failures between the steps | as above; a relay without a socket is not read |
| Name resolution (`MistPort.m` 108-166, 296-383) | list of lookups under a lock | start, resolve (own thread), poll | opens connections and relays | two threads on one list, flags set one after the other, a blocking call under a lock that is not recursive, late answers | each lookup is answered once, in order, with what was found; an answer only opens what still waits for it |
| Event queue (`event.c`) | ring of 400, two positions, a counter | notify, get next | the core's handlers, which notify while they hold a slot | overflow, reuse of the slot in hand | it is a queue while everything fits, and recovers |
| App/core messages (`port_service_ipc.c`, `MistPort.m` 179-208, `MistApi.m` 221-244) | locked list; main thread's run loop | `send_app_to_core`, `port_service_ipc_periodic`, `port_send_to_app`, `connected:` | both threads | a lock one way, a synchronous call the other; the launch | order, nothing lost, no circular wait, everything gets through |
| Launch (`MistPort.m` 67-106, `MistApi.m` 145-169) | `launchedOnce`, `mistLaunchedOnce`, `wish_app` | `launchWish`, `launchMistApi` | starts the threads | either order, one or two turns of the run loop | the app is there when `connected:` arrives |
| RPC layer (`MistApi.m`, `MistRequest.m`, `WishRequest.m`, `request/`) | `next_rpc_id`, `cbDictionary` | request, cancel, reply | the Mist and Wish APIs | replies before the request returns; handlers that request and cancel | a reply finds its request object, which is removed after the last one |
| Pass-through and sandbox (`PassthroughRequest.m`, `Sandbox.m`) | three rewrite dictionaries, callbacks | request, end, set callback, reply | the RPC ids above | clients reuse ids, set the callback while replies are due | replies come under the client's own id and to the callback that asked; an end reaches what is meant |
| App server (`app_server.c`) | per-app framing automaton, login, ring buffer | set-up, feed, cleanup, send | the core's `receive_app_to_core`; nothing in this port calls it | byte boundaries, zero and over-long frames, a connection number used again | what is delivered depends on the bytes and not on the cuts; replies go to the app that logged in |
| Local discovery (`app.c` 239-460) | one UDP socket | read a datagram, `wish_send_advertizement` | the core | a socket opened and closed in the middle of a turn | it gives its descriptor back |
| Files, address, Wi-Fi | next to none | one system call each | the core | – | – |

## Modules

| Module | Models |
|---|---|
| `PortLoop`, `Sockets` | the core thread: loop, connections, relays, descriptors, advertizements, resolver poll; and what its connections and relays get from it |
| `DnsResolver`, `DnsLookups` | the core and the resolver thread over the locked list, and what name resolution promises |
| `EventQueue`, `EventFifo` | the event ring, and the queue it promises to be |
| `ServiceIpc`, `AppChannels` | main thread and core thread, launch, both directions of messages; and the mailbox and the call they amount to |
| `RpcClients` | who asks the APIs, and what a request is: shared by the next two |
| `RpcRouting`, `DirectRpc` | RPC ids, request objects, pass-through clients and the sandbox; and the layer they amount to, in which every request knows who asked |
| `AppFrames` | what is in the bytes of an app, and the reference reading of a stream: shared by the next two |
| `AppServer`, `FrameStream` | apps over TCP: bytes, framing automaton, login, cleanup; and the reading of one stream a connection that this amounts to |
| `PortLoop_proofs`, `DnsResolver_proofs`, `EventQueue_proofs`, `ServiceIpc_proofs`, `RpcRouting_proofs`, `AppServer_proofs` | the theorems about each |
| `RpcDirect_proofs` | that `RpcRouting` implements `DirectRpc` |
| `AppFrames_proofs` | what the reference reading of `AppFrames` amounts to, used by `AppServer_proofs` |
| `MCPortLoop`, `MCDnsResolver`, `MCEventQueue`, `MCServiceIpc`, `MCRpcRouting`, `MCAppServer` | what TLC is started on; `MCAppServer` also holds the streams |

Definitions whose comment says "Mutant:" are no part of the specifications: each
is a plausible mistake in the definition that follows it, kept to confirm that a
property notices it (`PROJECT.json` lists which).

### PortLoop

`pc` is the place in `ios_port_main`.  Every call of the core is a state of its
own, `pc = "core"`: there the core may do any number of the things it can do with
the port, then it returns to `resume`.  So every callback of the code is an
interleaving point, and everything between two callbacks is one step; that is
exact, as the loop is a single thread.

- `conn[c]` joins `context_state` and `curr_transport_state`, and what
  `*send_arg` is; `relay[r]` is `curr_state` and `sockfd`.  A freed `send_arg`
  reads as no descriptor.
- The kernel hands out the lowest free number, as POSIX requires of `socket()`
  and `accept()`.  Immediate reuse is the source of most hazards here.  Data,
  addresses and the server and discovery sockets, which are opened once, are left
  out.  Running out of descriptors is in the model: it aborts.
- `FD_ISSET(-1, ...)`, applied to a relay without a socket, is undefined in C:
  `NoFdIsSet` gives the answers it may have.
- The sets `rfds` and `wfds` are cleared when nothing reads them any more (end of
  the accept branch) instead of at the top of the loop, to save states.
- `wish_close_connection` on a context whose host is still being looked up reads
  through a `send_arg` that is not there, and the process is gone
  (`CoreCloseResolving`): that, and not the resolver, is why no lookup outlives its
  asker.
- The readable half of the connection pass feeds the core whatever the transport
  state (`ConnRead`), as the code does.
- `wish_send_advertizement` closes the socket it opens before it returns, whatever
  `sendto()` says, so it changes nothing, but aborts when there is no descriptor
  for it (`CoreAdvertize`).

`Sockets` is the abstract specification: each user, a connection slot or a relay,
has at most one socket, opened on its own behalf or as the answer to its lookup,
under the lowest number nobody uses, and kept until it is closed.  It knows neither
the loop, nor its passes, nor the states of connections and relays.  The refinement
mapping (`SocketOf`) takes the numbers the slots and relays hold; a relay's counts
until `close()`, and not from there to its reset (`GivenUp`).  A lookup is `dns`.

Assumed of the core (outside the repository): `TCP_DISCONNECTED` returns the
context to the pool before the callback returns, and the context comes out of it
with an empty `send_arg`; it opens only free contexts; it reopens a relay only
later, not inside the callback that tells it of the disconnect; it has at most one
lookup of a relay under way.

### DnsResolver

`PortLoop` sees name resolution as an answer that may come at any time
(`DnsConn`, `DnsRelay`).  `DnsResolver` is the inside: the core thread starts
lookups and polls, the resolver thread takes the first unfinished entry, calls
`getaddrinfo` and marks it, each access of the list under `dnsResolverLock`.  Every
statement that touches what the threads share is a step of its own, because the
order matters: `finished` is set before `result_ip` (`MistPort.m:148-156`), and only
the lock keeps a poll from coming in between.  The lock is an `NSLock`, so taking
it twice means waiting for oneself; the poll's callbacks, which may start further
lookups, must run outside it.

`DnsLookups` is the abstract specification, which knows no threads: start, resolve,
answer, in order and each once.  The refinement is by name, on the history
variables `started`, `verdicts` and `answers`.

### EventQueue

Only the core thread uses the ring, so an operation is a step.  `ev` is the slot
the running handler points to.  `EventFifo` is the abstract specification: a
queue of bounded capacity, and one lost state for "more was notified than fits",
which ends when the loop has run dry.  The refinement mapping reads the queue
off the ring from `event_read`.

### ServiceIpc

Two threads with a program counter each.  The main thread's run loop serves what
was posted (`connected:`, `sendToMistApp:`) in order, and runs turns of the app
in between.  `LL_APPEND` is two steps, so that the lock matters.  The app-to-core
list is the numbers of the events.  `send_app_to_core` runs in a turn or while
`sendToMistApp:` is being served.  The core sends only to an app it has heard of,
so after it has handled an event, from its handler or from elsewhere in its loop.

`AppChannels` is the abstract specification: a mailbox one way, whose requests the
core takes one at a time, and a call the other way, during which the core does
nothing and the app may leave further requests.  It has neither lock, list nor run
loop.  A turn of the app is one when it has begun, whatever it is at (`App`); a
request is taken when it has left the list (`Taken`); the core is in a call from
the posting of the delivery to its end (`Waiting`).

### RpcRouting

All of it runs on the main thread; its hazard is nesting.  `stack` holds the API
calls and handlers that have not returned.  The Mist API answers many requests
itself, so a reply may come inside any call of it; the Wish API only queues a
message for the core thread, so its replies come from the run loop.  A sandbox's
`-login` is such a call too (`Login`); its own reply goes to a callback that does
nothing, so it is no request of `rpcs`.
`rpcs` records what the API knows about an id, and as history who asked, under
which of its own ids and with which setting of its callback.  The six kinds of
clients are three kinds of request objects, which differ in the API they ask and
the API they cancel in, and three pass-through clients.

`ended` records the requests whose clients asked to end them.

The APIs (external) are taken to answer a request with any number of signals and
one ack or err, or fin once it was ended.  `startMistApi` has run before the
first request.  The README supports one sandbox, so a new `Sandbox` replaces the
old one, which is not used any more.  The order in which an enumeration meets two
equal values is left open (`EndOneOf`).

`DirectRpc` is the abstract specification.  It has the requests, how often each
client has set its callback, and what has not returned; it has no counter, no
`cbDictionary` and no rewrite dictionary, and finds the handler of a reply and the
request an end is for by who asked.  The refinement is by name: `rpcs` for
`requests`, `registered` for `setting`, `stack` for `running`.  Two defects of the
code are in it as they are, because the clients see them: fin under the API's id,
and an end of the Wish pass-through that meets any of the client's requests or none.

### AppServer

`Feed` is the call of `app_connection_feed` with its `ring_buffer_write`; each case
of its switch is one action (`Preamble`, `FrameLength`, `Payload`, `NothingToRead`),
and `feeding` says which connection the automaton is at.  A case ends in `Break`
(return) or `Again` (fall-through or `goto again`).  `receive_app_to_core` returns
before the next frame is looked at.  The caller, which this port lacks
(`WITH_APP_TCP_SERVER` is commented out), is external: it feeds accepted
connections only, and no more than the ring buffer has room for.

Frame lengths and preambles are the code's bytes, as the properties depend on
them.  BSON is cut down to what the code asks of it: the first byte of a document
is its size, the second the wsid it carries, if any.  In a payload shorter than the
document it claims to be, the search for the wsid leaves the payload, so it may
find anything or nothing (`OfferedWsids`).  A login may be under the wsid of zeros,
which is also what an app that has not logged in has (`NoWsid`); that no wsid was
found is `Nobody`.

`FrameStream` is the abstract specification: what a connection has received is read
from its beginning, a preamble three bytes at a time and then frames, each in one
step when all of it is there.  It knows neither the ring buffer nor
`app_transport_expect_bytes`, nor when `app_connection_feed` is called and where it
returns.  Who is logged in is one thing in it (`who`) and two in the code,
`app_login_complete` and `wsid` (`Who`).  A byte is read when it has left the ring buffer, except that the two
bytes of a length count as read only with their frame (`Pos`).

`FrameStream` goes step by step.  `DeliveredAsFramed` compares what the core was
handed with a reading of the whole stream at once: `PayloadsOf` of `AppFrames`, a
recursive function from a place in the stream to the payloads behind it.

## Runs

| Run | Shows | Bounds | States |
|---|---|---|---|
| `port_loop` | types, ownership of descriptors, the stale local, no descriptor abort, no leak, no stale lookup, a resolving relay has no socket, the relay pass acts on live sockets, sockets are not replaced, the refinement | 2 slots, 2 relays, one by name, 3 descriptors: each pair can swap a number, and the descriptors can run out; relay connects do not fail at once (that leaks, see `port_relay_leak`) | 1,248,325 |
| `port_closed_relay` | a relay that keeps a number, closed by the core or refused by connect(), does no harm while nobody else has that number | 2 slots, 1 relay, 2 descriptors; every outcome of connect(), `RelayClosable`, both answers of `FD_ISSET(-1)` | 1,177,511 |
| `dns` | no self-deadlock, the refinement, two liveness properties | 4 lookups: one answered, one in hand, one in the list and one under way at once | 9,746 |
| `event_queue` | the ring's positions, and the refinement | 3 slots, 3 events, 7 pending: the ring overflows twice around | 1,918 |
| `service_ipc` | order, no circular wait, launch, three liveness properties, the refinement | 4 requests, 2 replies a turn: two in the list while one is in hand and one on its way | 4,524 |
| `rpc` | replies and ends reach who they are for, the refinement | 2 ids, client ids 0 and 1 for all clients, 2 settings of each callback, nesting of 3: a reply inside a call inside a handler | 725,862 |
| `app_server` | frames do not depend on the cuts, nothing complete waits, replies find their app, the feed returns, the refinement | 2 connections used again without bound, 8 streams that reach every branch, a ring of 7 bytes: a frame and a half, so it fills | 345,627 |
| `port_inconsistent`, `port_relay_leak`, `port_stuck`, `port_relay_close`, `rpc_cancel` | the findings below, one counterexample each | the smallest that show it | |

`CHECK_DEADLOCK FALSE` is used for `RpcRouting` only: its ids are bounded, and
when they are used up and answered nothing is left to happen.

### What the violated properties show

1. `port_inconsistent` – the assertion at `app.c:697-700` can fail: a descriptor
   number is reused within a pass by a connect() that succeeds at once.  It holds,
   reuse or not, when connect() of a connection is always left in progress and the
   core closes no relay (`AssertionHolds`).
2. `port_relay_leak` – a relay whose connect() fails at once keeps an open
   socket, which the next attempt overwrites (`relay_client.c:82-85`).  Without that
   error and without closed relays a resolving relay has no socket
   (`port_loop`, `ResolvingRelaysIdle`).
3. `port_stuck` – a connection whose connect() fails at once after name
   resolution stays "resolving" (`app.c:178-180`); the loop skips it, with its
   socket open, until the core gives up on it.  That error is the only way there:
   without it, whatever relays do, what is resolving has a lookup (`NobodyStuck`).
4. `port_relay_close` – `wish_relay_client_close` keeps `sockfd`; the relay pass
   reads what belongs to a connection that got the number.  This is why the
   ownership theorems assume `~RelayClosable`.  Until the number is handed out again
   nothing goes wrong, in any order of events (`ClosedRelayHarmless`): its condition,
   `KeptNumberUnshared`, says that nobody else has a number which a waiting or
   resolving relay still keeps.  A relay whose own connect() failed keeps its number
   too, with the open socket, and meets the condition (`OnlyClosedRelaysShare`), so
   the theorem and the run are about those behaviours as well.
   The comment at `app.c:597` fails without closed relays too: called from
   discovery, the core closes a readable connection and opens a relay, which gets the
   number and is "readable" while still connecting.  It reads its own socket then,
   which is harmless to others: `RelayPassLive` is what holds.
5. `rpc_cancel` – ending a Wish pass-through request consults the wrong
   dictionary (`PassthroughRequest.m:262`).  `EndsReachNothing` says how bad that
   is: if clients number their requests from 1, no end of the Wish pass-through ever
   ends anything, and the same is true of a sandbox's ends and of cancelling
   `WldClear` and `WldList`, whatever their ids.

The conditions of `AssertionHolds` and `NobodyStuck` can be tried on an instance: with
`ConnectResults = {"inprogress"}` TLC finds nothing in `port_inconsistent` and
`port_stuck`.

Without a run:

- fin reaches a pass-through client under the API's id, which the client does not
  know (`PassthroughRequest.m:114-126`); it is modelled so (`shown` of a handler),
  and `AnswersMatch` excepts it;
- `wish_close_connection` may not be called for a context whose host is being looked
  up: it dereferences `send_arg` (`app.c:199`), which such a context does not have
  yet.  The model ends the process there; whether the core does so is decided
  outside the repository, and no text of it says;
- an app may log in under the wsid of zeros, which slots that nobody has logged in to
  have as well: the core's replies to it go to the first of them
  (`app_server.c:121-167`).  `RepliesFindTheirApp` is about other wsids.  And the
  login comes before the size check, so a connection refused for its first document
  keeps the wsid until it is cleaned up;
- the repository's README says that launching twice raises an exception; the code
  returns silently (`MistPort.m:69-78`).

## Fairness

`ServiceIpc`, under `FairSpec`:

- each thread's own steps are weakly fair: both threads run;
- `SendAcquire` is strongly fair: the core takes and frees the lock in each turn,
  and is in `select()` for up to 100 ms in between, so a waiting main thread gets
  it at some turn;
- serving the run loop is strongly fair: turns of the app end, and the run loop
  gets to what was posted although the app's turns go on;
- an app that has launched one part launches the other.

`DnsResolver`, under `FairSpec`: both threads run, and `getaddrinfo` returns, which
its own time limits ensure (weak fairness); the resolver sleeps 0.1 s between two
uses of the lock, and the core is in `select()` between two of its own, so whoever
waits for the lock gets it (strong fairness of the three acquisitions).

`AppServer`: the automaton runs on the caller's thread, which goes on (weak
fairness of its cases).  Nothing makes an app send anything.

Nothing is assumed about the app making requests or the core answering them.

## Proofs

TLAPS proves, for all values of the constants that satisfy the `ASSUME` of each
module, and further assumptions where named:

- `PortLoop`: `TypeCorrect`; and, assuming `~RelayClosable`, `OwnershipHolds`
  (`DescriptorsOwned`), `WritableHalfSound`, `NoBadDescriptor`, `SocketKept`.
  `Owned` is inductive with the type invariant once a relay between its `close()`
  and its reset is excepted; the proof has lemmas for each way ownership changes
  (opened, released, dropped, reset), which the actions cite.  `WritableHalfSound`
  needs more (`PassInv`): no descriptor is in both sets, because it has one holder
  and is polled for one thing; so when the core has run on the readable half, the
  stale local is in no writable set.  `SocketKept` needs that a slot whose name is
  being looked up has no socket (`SlotStep`).
  `LookupsCurrent` and `NothingLeaks` (`OpenImpliesHeld`) also assume that a relay's
  connect() does not fail at once and that `FD_ISSET(-1)` answers no
  (`OrderlyRelays`); the counterexample of `port_relay_leak` is why.  Their
  strengthening is `RelayInv`: a relay without a transport has no number.
  Part of it (`ResolvingIdle`) is `ResolvingRelaysIdle`.
  `RelayPassLive` (`RelaysServedLive`) joins it with ownership and with where the
  pass is (`CursorInv`).
  `SocketsAsPromised` (`AsSockets`), under `OrderlyRelays` as well, shows that every
  action is an `Ask`, `Fail`, `Open` or `Close` of one user or a stutter.  The
  kernel's choice is the same on both sides because the numbers in use in `Sockets`
  are exactly the open descriptors (`InUseIsOpen`): ownership gives one direction,
  the absence of leaks the other.
  `ClosedRelayHarmless` (`HarmlessUntilReused`) assumes nothing about the constants:
  relays may be closed by the core, every connect() may fail, and `FD_ISSET(-1)` may
  answer anything.  `Owned` is not an invariant then, as a closed relay keeps a
  number that is not its own.  The invariant is `LiveOwned`, the ownership of
  connections and of relays that have a transport; every step keeps it as long as
  nobody else has a number that a relay at rest keeps (`KeptNumberUnshared`, before
  and after the step), and the property is about the behaviour up to there.
  `OnlyClosedRelaysShare` says when that is: with `~RelayClosable`, and nothing else
  assumed, always.
  `NobodyStuck` (`ResolvingHasLookup`) assumes only that connect() of a connection
  does not fail at once; it is inductive with the types.
  `AssertionHolds` (`NeverInconsistent`) assumes that connect() of a connection is
  always left in progress, and `~RelayClosable`.  It does not assume that numbers are
  not reused: the invariant `ConsistentInv` says that a slot the pass has still to
  visit, whose descriptor was reported writable, is connecting (`ConnectsPending`),
  be it the slot that was polled or one that got the number since.
- `DnsResolver`: `TypeCorrect`, `LockFree` (`NoSelfDeadlock`) and
  `ResolverRefinesLookups`.  The inductive invariant joins who holds the lock where
  (`LockInv`), what the core has in hand (`HandInv`), that the list is the lookups
  not yet answered, in order (`OrderInv`), and that those marked finished are a
  prefix of the list holding the verdicts, but for the one about to be stored
  (`VerdictInv`).  That exception is only harmless because of `LockInv`.
- `EventQueue`: `TypeCorrect`, `PositionsHold`, `RingRefinesFifo`, from lemmas on
  remainders and on how `Pending` changes; the strengthening is `FitInv`, that
  what is pending and in hand fits unless `crowded`.
- `ServiceIpc`: `TypeCorrect`, `OrderHolds`, `NoDeadlyEmbrace`, `AppIsThere` (for
  `OneTurn`).  The inductive invariant is `IInv`: types, who holds the lock at
  which place of the code, what is in hand, the order, that a waiting core has
  exactly one delivery in the run loop or being served, and the launch.
  `ThreadsRefineChannels` (`ImplementsChannels`) follows from it: `PeriodicTake`
  of a list that is not empty is `Take`, a `SendCall` that makes an event is `Leave`,
  and the steps that only move the lock or the list are stutters.
- `RpcRouting`: `TypeCorrect`, `RepliesMatch` (`AnswersMatch`), `MappingsAreCurrent`,
  `ObjectsAreKept`, `AnswersArrive` (`NoAnswerLost`) and `EndsReachTheirRequest`
  (`EndsMatch`).  `RoutingInv` is inductive: ids not yet given out are unused
  (`Fresh`); every mapping is an open request of that client under the callback
  set now (`Mapped`), and every such request has its mapping (`Remembered`); what a
  request was asked with is consistent (`Asked`); each handler on the stack shows
  the id of the request it is for (`Frames`); objects are kept (`Kept`).  `EndsInv`
  adds that only requests that were made are ended.
  `RoutingIsDirect` (`ImplementsDirect`, in `RpcDirect_proofs`) follows from
  `RoutingInv`: `Mapped` and `Remembered` together say that a mapping is there
  exactly while the client listens for an outstanding request (`MappedListens`), so
  that looking one up finds what `DirectRpc` finds by who asked, for replies and
  for ends; `Kept` says the same of request objects.
  `EndsReachNothing`: nothing asked by a sandbox, a `WldClear` or a `WldList` is ever
  ended, and nothing asked by the Wish pass-through unless 0 is among the client ids
  (`Unendable`).  A sandbox's end cancels nothing; `WldClear` and `WldList` ask one
  API and cancel in the other, and no id is known to both; an id of the Wish
  pass-through has no entry in the dictionary that is consulted, which reads as 0.
- `AppServer`: `TypeCorrect`, `FeedDrains` (`NothingWaits`), `RepliesArrive`
  (`RepliesFindTheirApp`), for any streams, ring size and number of connections.
  The strengthening is `LoginInv`: a wsid is there only while its app is logged in,
  and only connected slots are logged in or fed.  For `RepliesArrive` there is also
  `HeardInv`: unless the connection was refused, one of the frames delivered in it
  came under its wsid.
  `DeliversTheStream` (`AsFrameStream`) adds `StreamInv`: the ring buffer is the end
  of what was received (`EndOf`); in the payload state the two bytes before it are
  the length the automaton expects (`LengthRead`).  It rests on lemmas on skipping and appending to the
  end of a sequence.
  `FramesDelivered` (`DeliveredAsFramed`), for any bytes and any cuts.  Its invariant
  `ReadInv` says of each connection that what was handed over, with the payloads
  still to be read behind `Pos`, is what `PayloadsOf` says of all that was received
  and of whatever may follow it.
  That `PayloadsOf` is what its recursive definition says is proved in
  `AppFrames_proofs`: the set of places where it is not would have a least element
  (`WFMin` of `WellFoundedInduction`).
  `FeedTakesBytes`: each step of the automaton that goes on takes bytes out of the
  ring buffer, which is what makes `FeedReturns` true.

Only model-checked:

- the liveness properties `LookupsAnswered`, `CoreNotStuck`, `RequestsHandled`,
  `DeliveriesReturn`, `AppHearsOfCore` and `FeedReturns`: TLAPS 1.4.5 has no rules
  for fairness.  Of the last, `FeedTakesBytes` proves the safety half.

## Not modelled

- The contents of messages of Wish connections and relays, addresses, and partial
  writes (`write_to_socket` does not look at how much was written): what the core
  makes of it is outside the repository.
- The decoding of BSON answers in the request classes: it keeps no state, and is as
  right as the BSON library, which is external.
- A frame longer than an app's ring buffer is modelled (it never becomes complete);
  that it should be refused is said nowhere, and no property claims it.
- Requests through a `Sandbox` object after another one has replaced it.
- Memory exhaustion, except where a request is dropped; signals that interrupt
  `select()`.
- The set-up of the server and discovery sockets: straight-line, `exit()` on failure.
- `fs_port.c`: one POSIX call per function, no state but the directory set at launch.
- `network.c`: its search for an address is compiled out on Apple platforms, the rest
  are two accessors.  Wi-Fi joining: calls of system frameworks.
- The Wish core and the Mist library are not in the repository.

## Plan

What could still be added, in this order:

1. `PortLoop` with `DnsResolver` in place of `dns`: an answer in the order of the
   list instead of any order.  The properties of `PortLoop` hold for any order, so
   this would narrow the model, not the claims.
2. Two `Sandbox` objects that share the one set of static dictionaries.
3. The composition of `EventQueue` and `ServiceIpc` with the loop: that
   `Events` and `Ipc` of `PortLoop` are what those modules say.
