------------------------------ MODULE PortLoop ------------------------------
(***************************************************************************)
(* The Wish core thread of the iOS port: ios_port_main's select() loop,    *)
(* the pool of Wish connections and the relay control connections, and     *)
(* the descriptors they share (ios_port/app.c, ios_port/relay_client.c,    *)
(* and the polling half of the resolver in MistPort.m).                    *)
(*                                                                         *)
(* The loop runs the Wish core (a library outside this repository) at      *)
(* fixed places.  While the core runs, pc = "core", it may call any of the *)
(* port's operations any number of times; then it returns to resume.       *)
(*                                                                         *)
(* A descriptor is a number the kernel hands out lowest first, so a number *)
(* closed early in a pass may name another socket later in that pass,      *)
(* while the sets select() filled still speak of the old one.              *)
(***************************************************************************)
EXTENDS Integers

CONSTANTS
  NumConns,             \* slots of core->connection_pool
  NumRelays,            \* entries of core->relay_db
  NamedRelays,          \* the relays whose host is a name, not an address
  NumFds,               \* descriptors left for connections and relays
  ConnectResults,       \* what connect() may do for a Wish connection
  RelayConnectResults,  \* what connect() may do for a relay connection
  RelayClosable,        \* does the core call wish_relay_client_close?
  NoFdIsSet             \* what FD_ISSET(-1, &rfds), undefined in C, may answer

Outcomes == {"inprogress", "immediate", "error"}

ASSUME ConstantsAssumption ==
  /\ NumConns \in Nat \ {0}
  /\ NumRelays \in Nat \ {0}
  /\ NamedRelays \subseteq 1 .. NumRelays
  /\ NumFds \in Nat \ {0}
  /\ ConnectResults \subseteq Outcomes
  /\ RelayConnectResults \subseteq Outcomes
  /\ RelayClosable \in BOOLEAN
  /\ NoFdIsSet \subseteq BOOLEAN

VARIABLES
  pc,       \* where the thread is
  resume,   \* where the loop goes on when the core returns
  cursor,   \* the relay or the pool slot the pass is at
  sockfd,   \* the local of the connection pass, read before the core runs
  conn,     \* core->connection_pool
  relay,    \* core->relay_db
  dns,      \* names being resolved, and for whom
  open,     \* descriptors open in the kernel
  rfds,     \* readable descriptors, as select() left them
  wfds      \* writable descriptors, as select() left them

loopVars == <<pc, resume, cursor, sockfd>>
vars == <<pc, resume, cursor, sockfd, conn, relay, dns, open, rfds, wfds>>

Conns == 1 .. NumConns
Relays == 1 .. NumRelays
Fds == 1 .. NumFds
NoFd == -1

\* context_state and curr_transport_state together; fd is what send_arg
\* points to, NoFd when nothing is registered or it has been freed.
ConnStates == {"free", "initial", "resolving", "connecting", "connected"}
FreeConn == [st |-> "free", fd |-> NoFd]

\* curr_state; "open" stands for every state past the TCP connect.
RelayStates == {"initial", "resolving", "connecting", "wait", "open"}

ConnContext == [st : ConnStates, fd : Fds \cup {NoFd}]
RelayClient == [st : RelayStates, fd : Fds \cup {NoFd}]

Passing == {"relay", "relayClosed", "relayNext", "conn", "connW", "connNext", "accept"}
Aborts == {"abortSocket", "abortSelect", "abortGetsockopt", "abortInconsistent",
           "noSendArg"}
Pcs == {"dns", "select", "wld", "core", "events", "periodic", "ipc"} \cup Passing \cup Aborts

ConnTask(c) == <<"conn", c>>
RelayTask(r) == <<"relay", r>>
DnsTasks == ({"conn"} \X Conns) \cup ({"relay"} \X Relays)

TypeOK ==
  /\ pc \in Pcs
  /\ resume \in Pcs \ Aborts
  /\ cursor \in 1 .. (NumConns + NumRelays)
  /\ sockfd \in Fds \cup {NoFd}
  /\ conn \in [Conns -> ConnContext]
  /\ relay \in [Relays -> RelayClient]
  /\ dns \subseteq DnsTasks
  /\ open \subseteq Fds
  /\ rfds \subseteq Fds
  /\ wfds \subseteq Fds

Init ==
  /\ pc = "dns"
  /\ resume = "dns"
  /\ cursor = 1
  /\ sockfd = NoFd
  /\ conn = [c \in Conns |-> FreeConn]
  /\ relay = [r \in Relays |-> [st |-> "initial", fd |-> NoFd]]
  /\ dns = {}
  /\ open = {}
  /\ rfds = {}
  /\ wfds = {}

-----------------------------------------------------------------------------
(* The kernel and the core, as the port uses them.                         *)

IsLowestFree(fd) == fd \notin open /\ \A g \in Fds \ open : fd <= g

Goto(l) == pc' = l /\ UNCHANGED <<resume, cursor, sockfd>>
CallCore(l) == pc' = "core" /\ resume' = l /\ UNCHANGED <<cursor, sockfd>>
MoveTo(l, i) == pc' = l /\ cursor' = i /\ sockfd' = NoFd /\ UNCHANGED resume

-----------------------------------------------------------------------------
(* Port operations.                                                        *)

\* wish_open_connection on slot c.  "error" is the unhandled connect() errno:
\* the transport state stays what it was.  running is where the thread is
\* afterwards, immediate where it is when connect() succeeded at once.
OpenConnection(c, running, immediate) ==
  \/ /\ open = Fds
     /\ Goto("abortSocket")
     /\ UNCHANGED <<conn, open>>
  \/ \E fd \in Fds, res \in ConnectResults :
       /\ IsLowestFree(fd)
       /\ open' = open \cup {fd}
       /\ conn' = [conn EXCEPT ![c] =
            [fd |-> fd,
             st |-> CASE res = "inprogress" -> "connecting"
                      [] res = "immediate" -> "connected"
                      [] res = "error" -> IF @.st = "free" THEN "initial" ELSE @.st]]
       /\ IF res = "immediate" THEN immediate ELSE running

\* The core's answer to TCP_DISCONNECTED: the context goes back to the pool.
Release(c) == conn' = [conn EXCEPT ![c] = FreeConn]

\* Mutant: the core is not told.
CloseSilently(c) ==
  /\ open' = open \ {conn[c].fd}
  /\ UNCHANGED conn

\* close(sockfd), free(send_arg) and TCP_DISCONNECTED, as wish_close_connection
\* and the failing branches of the connection pass do.
CloseConnection(c) ==
  /\ open' = open \ {conn[c].fd}
  /\ Release(c)

\* port_relay_client_open.  A descriptor the relay still had is forgotten.
OpenRelay(r) ==
  \/ /\ open = Fds
     /\ relay' = [relay EXCEPT ![r] = [st |-> "wait", fd |-> NoFd]]
     /\ UNCHANGED open
  \/ \E fd \in Fds, res \in RelayConnectResults :
       /\ IsLowestFree(fd)
       /\ open' = open \cup {fd}
       /\ relay' = [relay EXCEPT ![r] =
            [fd |-> fd, st |-> IF res = "error" THEN "wait" ELSE "connecting"]]

-----------------------------------------------------------------------------
(* What the core may do while it runs.                                     *)

\* wish_connection_init and wish_open_connection on a free context.
CoreOpen(c) ==
  /\ pc = "core"
  /\ conn[c].st = "free"
  /\ OpenConnection(c, UNCHANGED loopVars, UNCHANGED loopVars)
  /\ UNCHANGED <<relay, dns, rfds, wfds>>

\* wish_open_connection_dns; a resolver that cannot be started disconnects
\* the context at once, which leaves it free.
CoreOpenDns(c) ==
  /\ pc = "core"
  /\ conn[c].st = "free"
  /\ conn' = [conn EXCEPT ![c].st = "resolving"]
  /\ dns' = dns \cup {ConnTask(c)}
  /\ UNCHANGED <<loopVars, relay, open, rfds, wfds>>

\* wish_close_connection on a context that has a transport.
CoreClose(c) ==
  /\ pc = "core"
  /\ conn[c].fd # NoFd
  /\ CloseConnection(c)
  /\ UNCHANGED <<loopVars, relay, dns, rfds, wfds>>

\* Mutant: the context is released, the lookup goes on.
CoreCloseResolvingFrees(c) ==
  /\ pc = "core"
  /\ conn[c].st = "resolving" /\ conn[c].fd = NoFd
  /\ Release(c)
  /\ UNCHANGED <<loopVars, relay, dns, open, rfds, wfds>>

\* wish_close_connection on a context whose host is being looked up: its send_arg,
\* cleared when the core took the context out of the pool, is read through, and
\* the process dies.
CoreCloseResolving(c) ==
  /\ pc = "core"
  /\ conn[c].st = "resolving" /\ conn[c].fd = NoFd
  /\ Goto("noSendArg")
  /\ UNCHANGED <<conn, relay, dns, open, rfds, wfds>>

\* wish_relay_client_open, to a host given by name or by address.  The relay
\* that is just being disconnected is not reopened: the core waits first.
CoreRelayOpen(r) ==
  /\ pc = "core"
  /\ relay[r].st \in {"initial", "wait"}
  /\ ~ (resume = "relayClosed" /\ cursor = r)
  /\ \/ /\ r \in NamedRelays
        /\ RelayTask(r) \notin dns  \* bound: one lookup of a relay at a time
        /\ relay' = [relay EXCEPT ![r].st = "resolving"]
        /\ dns' = dns \cup {RelayTask(r)}
        /\ UNCHANGED open
     \/ \* the resolver could not be started: relay_ctrl_disconnect_cb
        /\ r \in NamedRelays
        /\ relay' = [relay EXCEPT ![r].st = "wait"]
        /\ UNCHANGED <<dns, open>>
     \/ r \notin NamedRelays /\ OpenRelay(r) /\ UNCHANGED dns
  /\ UNCHANGED <<loopVars, conn, rfds, wfds>>

\* Mutant: the relay is not set to wait.
CoreRelayCloseInPlace(r) ==
  /\ pc = "core" /\ RelayClosable
  /\ relay[r].st \in {"connecting", "open"}
  /\ open' = open \ {relay[r].fd}
  /\ UNCHANGED <<loopVars, conn, relay, dns, rfds, wfds>>

\* wish_relay_client_close: the descriptor is closed, relay->sockfd keeps it.
CoreRelayClose(r) ==
  /\ pc = "core" /\ RelayClosable
  /\ relay[r].st \in {"connecting", "open"}
  /\ open' = open \ {relay[r].fd}
  /\ relay' = [relay EXCEPT ![r].st = "wait"]
  /\ UNCHANGED <<loopVars, conn, dns, rfds, wfds>>

\* wish_send_advertizement: a socket for one datagram, closed before it returns.
\* It changes nothing, but without a descriptor for it the process ends.
CoreAdvertize ==
  /\ pc = "core"
  /\ open = Fds
  /\ Goto("abortSocket")
  /\ UNCHANGED <<conn, relay, dns, open, rfds, wfds>>

CoreReturn ==
  /\ pc = "core"
  /\ pc' = resume /\ resume' = "dns"  \* no call is pending any more
  /\ UNCHANGED <<cursor, sockfd>>
  /\ UNCHANGED <<conn, relay, dns, open, rfds, wfds>>

Core ==
  \/ \E c \in Conns : CoreOpen(c) \/ CoreOpenDns(c) \/ CoreClose(c) \/ CoreCloseResolving(c)
  \/ \E r \in Relays : CoreRelayOpen(r) \/ CoreRelayClose(r)
  \/ CoreAdvertize \/ CoreReturn

-----------------------------------------------------------------------------
(* The loop.                                                               *)

\* port_dns_poll_resolvers: at most one finished lookup is acted upon.
DnsIdle ==
  /\ pc = "dns"
  /\ Goto("select")
  /\ UNCHANGED <<conn, relay, dns, open, rfds, wfds>>

\* Mutant: the finished entry stays in the list.
DnsConnKept(c) ==
  /\ pc = "dns"
  /\ ConnTask(c) \in dns
  /\ OpenConnection(c, Goto("select"), CallCore("select"))
  /\ UNCHANGED <<relay, dns, rfds, wfds>>

DnsConn(c) ==
  /\ pc = "dns"
  /\ ConnTask(c) \in dns
  /\ dns' = dns \ {ConnTask(c)}
  /\ \/ OpenConnection(c, Goto("select"), CallCore("select"))
     \/ Release(c) /\ CallCore("select") /\ UNCHANGED open
  /\ UNCHANGED <<relay, rfds, wfds>>

DnsRelay(r) ==
  /\ pc = "dns"
  /\ RelayTask(r) \in dns
  /\ dns' = dns \ {RelayTask(r)}
  /\ \/ OpenRelay(r) /\ Goto("select")
     \/ /\ relay' = [relay EXCEPT ![r].st = "wait"]
        /\ CallCore("select")
        /\ UNCHANGED open
  /\ UNCHANGED <<conn, rfds, wfds>>

\* What the loop adds to the two sets.
RelayFds(states) == {relay[r].fd : r \in {q \in Relays : relay[q].st \in states}} \ {NoFd}
ConnFds(states) == {conn[c].fd : c \in {d \in Conns : conn[d].st \in states}}
\* Mutant: a connecting socket is polled for reading as well.
PollReadAll == RelayFds({"open"}) \cup ConnFds({"initial", "connecting", "connected"})
PollRead == RelayFds({"open"}) \cup ConnFds({"initial", "connected"})
PollWrite == RelayFds({"connecting"}) \cup ConnFds({"connecting"})

\* select(); a polled descriptor that is not open is EBADF, and the loop aborts.
Select ==
  /\ pc = "select"
  /\ UNCHANGED <<conn, relay, dns, open, resume, sockfd>>
  /\ cursor' = 1
  /\ IF PollRead \cup PollWrite \subseteq open
     THEN \/ /\ rfds' \in SUBSET PollRead
             /\ wfds' \in SUBSET PollWrite
             /\ pc' = "wld"
          \/ \* the 100 ms time-out
             /\ rfds' = {} /\ wfds' = {}
             /\ pc' = "events"
     ELSE /\ UNCHANGED <<rfds, wfds>>
          /\ pc' = "abortSelect"

\* A local discovery datagram, or none.
Wld ==
  /\ pc = "wld"
  /\ Goto("relay") \/ CallCore("relay")
  /\ UNCHANGED <<conn, relay, dns, open, rfds, wfds>>

NextRelay == IF cursor < NumRelays THEN MoveTo("relay", cursor + 1) ELSE MoveTo("conn", 1)
NextConn == IF cursor < NumConns THEN MoveTo("conn", cursor + 1) ELSE MoveTo("accept", 1)

\* The tests of the two branches of the relay pass.
RelayWritable(r) == relay[r].fd \in wfds /\ relay[r].st = "connecting"
RelayReadable(r) ==
  /\ ~RelayWritable(r)
  /\ relay[r].st # "initial"
  /\ relay[r].fd \in rfds \/ (relay[r].fd = NoFd /\ TRUE \in NoFdIsSet)
RelaySkippable(r) ==
  ~RelayWritable(r) /\ (RelayReadable(r) => relay[r].fd = NoFd /\ FALSE \in NoFdIsSet)

RelaySkip(r) ==
  /\ pc = "relay" /\ cursor = r
  /\ RelaySkippable(r)
  /\ NextRelay
  /\ UNCHANGED <<conn, relay, dns, open, rfds, wfds>>

\* close(relay->sockfd), then the callback; sockfd is reset once it returns.
DropRelay(r) ==
  /\ open' = open \ {relay[r].fd}
  /\ relay' = [relay EXCEPT ![r].st = "wait"]
  /\ CallCore("relayClosed")

RelayConnectDone(r) ==
  /\ pc = "relay" /\ cursor = r
  /\ RelayWritable(r)
  /\ \/ /\ relay[r].fd \notin open
        /\ Goto("abortGetsockopt")
        /\ UNCHANGED <<relay, open>>
     \/ /\ relay[r].fd \in open
        /\ relay' = [relay EXCEPT ![r].st = "open"]
        /\ CallCore("relayNext")
        /\ UNCHANGED open
     \/ relay[r].fd \in open /\ DropRelay(r)
  /\ UNCHANGED <<conn, dns, rfds, wfds>>

\* One byte is fed to the core, or the connection has ended.
RelayRead(r) ==
  /\ pc = "relay" /\ cursor = r
  /\ RelayReadable(r)
  /\ \/ /\ relay[r].fd \in open
        /\ CallCore("relayNext")
        /\ UNCHANGED <<relay, open>>
     \/ DropRelay(r)
  /\ UNCHANGED <<conn, dns, rfds, wfds>>

\* Mutant: relay->sockfd = -1 is forgotten.
RelayClosedKeepsFd ==
  /\ pc = "relayClosed"
  /\ NextRelay
  /\ UNCHANGED <<conn, relay, dns, open, rfds, wfds>>

\* Mutant: the descriptor is zeroed.
RelayClosedZeroes ==
  /\ pc = "relayClosed"
  /\ relay' = [relay EXCEPT ![cursor].fd = 0]
  /\ NextRelay
  /\ UNCHANGED <<conn, dns, open, rfds, wfds>>

RelayClosed ==
  /\ pc = "relayClosed"
  /\ relay' = [relay EXCEPT ![cursor].fd = NoFd]
  /\ NextRelay
  /\ UNCHANGED <<conn, dns, open, rfds, wfds>>

RelayDone ==
  /\ pc = "relayNext"
  /\ NextRelay
  /\ UNCHANGED <<conn, relay, dns, open, rfds, wfds>>

\* The connection pass, readable half.  sockfd is read here, once.
ConnSkip(c) ==
  /\ pc = "conn" /\ cursor = c
  /\ conn[c].st \in {"free", "resolving"}
  /\ NextConn
  /\ UNCHANGED <<conn, relay, dns, open, rfds, wfds>>

ConnRead(c) ==
  /\ pc = "conn" /\ cursor = c
  /\ conn[c].st \notin {"free", "resolving"}
  /\ sockfd' = conn[c].fd
  /\ \/ \* not readable
        /\ conn[c].fd \notin rfds
        /\ pc' = "connW" /\ UNCHANGED <<resume, cursor, conn, open>>
     \/ \* rx ring buffer full
        /\ conn[c].fd \in rfds
        /\ pc' = "connNext" /\ UNCHANGED <<resume, cursor, conn, open>>
     \/ \* data
        /\ conn[c].fd \in rfds
        /\ pc' = "core" /\ resume' = "connW" /\ UNCHANGED <<cursor, conn, open>>
     \/ \* end of file goes on to the next slot, an error to the writable half
        /\ conn[c].fd \in rfds
        /\ CloseConnection(c)
        /\ pc' = "core" /\ resume' \in {"connNext", "connW"} /\ UNCHANGED cursor
  /\ UNCHANGED <<relay, dns, rfds, wfds>>

\* The writable half: the outcome of connect().
ConnWrite(c) ==
  /\ pc = "connW" /\ cursor = c
  /\ \/ /\ sockfd \notin wfds
        /\ NextConn
        /\ UNCHANGED <<conn, open>>
     \/ /\ sockfd \in wfds \ open
        /\ Goto("abortGetsockopt")
        /\ UNCHANGED <<conn, open>>
     \/ /\ sockfd \in wfds \cap open
        /\ conn[c].st = "connecting"
        /\ conn' = [conn EXCEPT ![c].st = "connected"]
        /\ CallCore("connNext")
        /\ UNCHANGED open
     \/ /\ sockfd \in wfds \cap open
        /\ conn[c].st # "connecting"
        /\ Goto("abortInconsistent")
        /\ UNCHANGED <<conn, open>>
     \/ /\ sockfd \in wfds \cap open
        /\ CloseConnection(c)
        /\ CallCore("connNext")
  /\ UNCHANGED <<relay, dns, rfds, wfds>>

ConnDone ==
  /\ pc = "connNext"
  /\ NextConn
  /\ UNCHANGED <<conn, relay, dns, open, rfds, wfds>>

\* Nothing reads the two sets again before FD_ZERO at the top of the loop.
EndOfPass == rfds' = {} /\ wfds' = {}

\* accept() on the server socket.  With the pool full the new socket is closed
\* again; without a descriptor accept() fails.
AcceptNone ==
  /\ pc = "accept"
  /\ Goto("events")
  /\ EndOfPass
  /\ UNCHANGED <<conn, relay, dns, open>>

Accept(c) ==
  /\ pc = "accept"
  /\ conn[c].st = "free"
  /\ \E fd \in Fds :
       /\ IsLowestFree(fd)
       /\ open' = open \cup {fd}
       /\ conn' = [conn EXCEPT ![c] = [st |-> "connected", fd |-> fd]]
  /\ CallCore("events")
  /\ EndOfPass
  /\ UNCHANGED <<relay, dns>>

\* Mutant: the socket that finds no slot is not closed.
AcceptRefuseLeaks ==
  /\ pc = "accept"
  /\ \A c \in Conns : conn[c].st # "free"
  /\ \E fd \in Fds : IsLowestFree(fd) /\ open' = open \cup {fd}
  /\ Goto("events")
  /\ EndOfPass
  /\ UNCHANGED <<conn, relay, dns>>

AcceptRefuse ==
  /\ pc = "accept"
  /\ \A c \in Conns : conn[c].st # "free"
  /\ open # Fds
  /\ Goto("events")
  /\ EndOfPass
  /\ UNCHANGED <<conn, relay, dns, open>>

\* The rest of a turn: the core's events one by one until none is left, its
\* periodic work once a second, and at most one request of an app.
Turn(here, again, next) ==
  /\ pc = here
  /\ CallCore(again) \/ Goto(next)
  /\ UNCHANGED <<conn, relay, dns, open, rfds, wfds>>

Events == Turn("events", "events", "periodic")
Periodic == Turn("periodic", "ipc", "ipc")
Ipc == Turn("ipc", "dns", "dns")

\* abort() was called, or the process died: it is gone.
Aborted ==
  /\ pc \in Aborts
  /\ UNCHANGED vars

Loop ==
  \/ DnsIdle \/ Select \/ Wld \/ RelayClosed \/ RelayDone \/ ConnDone
  \/ AcceptNone \/ AcceptRefuse \/ Events \/ Periodic \/ Ipc \/ Aborted
  \/ \E r \in Relays : DnsRelay(r) \/ RelaySkip(r) \/ RelayConnectDone(r) \/ RelayRead(r)
  \/ \E c \in Conns : DnsConn(c) \/ ConnSkip(c) \/ ConnRead(c) \/ ConnWrite(c) \/ Accept(c)

Next == Core \/ Loop
Spec == Init /\ [][Next]_vars

-----------------------------------------------------------------------------
(* Properties.                                                             *)

\* A relay between close(relay->sockfd) and relay->sockfd = -1.
BeingReset(r) == cursor = r /\ (pc = "relayClosed" \/ (pc = "core" /\ resume = "relayClosed"))

ConnHolds(c) == conn[c].fd # NoFd
RelayHolds(r) == relay[r].fd # NoFd /\ ~BeingReset(r)

Owned ==
  /\ \A c \in Conns : ConnHolds(c) => conn[c].fd \in open
  /\ \A r \in Relays : RelayHolds(r) => relay[r].fd \in open
  /\ \A c, d \in Conns : c # d /\ ConnHolds(c) => conn[c].fd # conn[d].fd
  /\ \A r, q \in Relays : r # q /\ RelayHolds(r) /\ RelayHolds(q) => relay[r].fd # relay[q].fd
  /\ \A c \in Conns, r \in Relays : ConnHolds(c) /\ RelayHolds(r) => conn[c].fd # relay[r].fd
  /\ \A c \in Conns : conn[c].st \in {"initial", "connecting", "connected"} => ConnHolds(c)
  /\ \A r \in Relays : relay[r].st \in {"connecting", "open"} => RelayHolds(r)

\* What the loop polls, reads or closes belongs to who it thinks it does: every
\* descriptor a connection or a relay holds is open, nobody else holds it, and
\* whoever has a transport holds one.
DescriptorsOwned == pc \notin Aborts => Owned

\* The local sockfd is read before the core runs on the readable half, and the
\* core may close this connection, or reuse its slot, meanwhile.  When the
\* writable half acts on it, it is still this slot's descriptor.
WritableBranchLive ==
  pc = "connW" /\ sockfd \in wfds => conn[cursor].fd = sockfd /\ sockfd \in open

\* No turn of the loop ends the process over a descriptor that is not open:
\* select() never reports EBADF and getsockopt() never fails.
NoDescriptorAbort == pc \notin {"abortSelect", "abortGetsockopt"}

\* A connection keeps the socket it was opened with until it is closed: no late
\* answer of the resolver opens it a second time.
SocketNotReplaced ==
  [][\A c \in Conns : conn[c].fd # NoFd => conn'[c].fd \in {conn[c].fd, NoFd}]_vars

\* The resolver's list only names slots and relays that still wait for it.
LookupCurrent ==
  /\ \A c \in Conns : ConnTask(c) \in dns => conn[c].st = "resolving" /\ conn[c].fd = NoFd
  /\ \A r \in Relays : RelayTask(r) \in dns => relay[r].st = "resolving"

\* Nothing is leaked: an open descriptor is held by a connection or a relay, so
\* a long life does not use the descriptors up.
OpenImpliesHeld ==
  \A fd \in open :
    \/ \E c \in Conns : conn[c].fd = fd
    \/ \E r \in Relays : relay[r].fd = fd /\ RelayHolds(r)

\* A relay at rest may keep a number: of the socket whose connect() failed at once,
\* which is open, or of the one wish_relay_client_close closed, which the kernel
\* may hand out again.  This says that it has not: nobody else has the number.
KeptNumberUnshared ==
  pc \notin Aborts => \A r \in Relays :
    relay[r].st \in {"wait", "resolving"} /\ RelayHolds(r) =>
      /\ \A c \in Conns : conn[c].fd # relay[r].fd
      /\ \A q \in Relays \ {r} : RelayHolds(q) => relay[q].fd # relay[r].fd

\* wish_relay_client_close leaves the relay a number that is not its own any more.
\* Until the kernel hands that number out again this does no harm, whatever
\* connect() answers: the loop neither aborts nor acts on a descriptor that is not
\* its slot's.
HarmlessUntilReused ==
  []KeptNumberUnshared => [](NoDescriptorAbort /\ WritableBranchLive)

\* What the relay pass connects or reads has a socket of its own, although the two
\* sets are those select() left and the core has run since.
RelayPassLive ==
  pc = "relay" /\ (RelayWritable(cursor) \/ RelayReadable(cursor)) =>
    relay[cursor].st \in {"connecting", "open"} /\ relay[cursor].fd \in open

\* A relay's number counts until close(); the process may end before it is reset.
GivenUp(r) == cursor = r /\ "relayClosed" \in {pc, resume}
SocketOf(u) ==
  IF u[1] = "conn" THEN conn[u[2]].fd
  ELSE IF GivenUp(u[2]) THEN NoFd ELSE relay[u[2]].fd
Sockets == INSTANCE Sockets WITH
  Users <- DnsTasks, sock <- [u \in DnsTasks |-> SocketOf(u)], asked <- dns

\* Whatever the passes of the loop and the core do to each other, every connection
\* and every relay gets its sockets as if it had the port to itself: opened once,
\* closed once, and no number in two hands.
AsSockets == Sockets!Spec

-----------------------------------------------------------------------------
(* What comments and assertions of the code say, and what it does.         *)

\* The assertion of app.c:697-700: a socket whose connect() is reported
\* finished belongs to a connection that was connecting.
NeverInconsistent == pc # "abortInconsistent"

\* app.c:520 of a relay that is being resolved: "relay->sockfd is not valid as it
\* has not yet been initted!"
ResolvingRelayHasNoSocket ==
  \A r \in Relays : relay[r].st = "resolving" => relay[r].fd \notin open

\* app.c:629 of a connection in the resolving state: "The transport host addr is
\* being resolved".
ResolvingHasLookup ==
  pc \notin Aborts => \A c \in Conns : conn[c].st = "resolving" => ConnTask(c) \in dns

\* app.c:597: a relay is read "under the same condition" it was polled for reading.
\* The loop polls the states past the connect; it reads in any but the first, and
\* the number a closed relay keeps may be a connection's by then.
RelayReadAsPolled ==
  pc = "relay" /\ RelayReadable(cursor) => relay[cursor].st = "open"
=============================================================================
