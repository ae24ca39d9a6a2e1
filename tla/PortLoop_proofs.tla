--------------------------- MODULE PortLoop_proofs ---------------------------
(* Proofs about PortLoop, for any number of slots, relays and descriptors. *)
EXTENDS PortLoop, TLAPS

-----------------------------------------------------------------------------
(* Types.                                                                  *)

\* What can be put together from, and taken out of, the two kinds of records.
LEMMA Records ==
  /\ \A s \in ConnStates, f \in Fds \cup {NoFd} : [st |-> s, fd |-> f] \in ConnContext
  /\ \A k \in ConnContext : k.st \in ConnStates /\ k.fd \in Fds \cup {NoFd}
  /\ \A k \in ConnContext, s \in ConnStates : [k EXCEPT !.st = s] \in ConnContext
  /\ \A s \in RelayStates, f \in Fds \cup {NoFd} : [st |-> s, fd |-> f] \in RelayClient
  /\ \A k \in RelayClient : k.st \in RelayStates /\ k.fd \in Fds \cup {NoFd}
  /\ \A k \in RelayClient, s \in RelayStates : [k EXCEPT !.st = s] \in RelayClient
  /\ \A k \in RelayClient : [k EXCEPT !.fd = NoFd] \in RelayClient
  BY DEF ConnContext, RelayClient

\* Opening a relay, whatever comes of it.
LEMMA OpenRelayTypes ==
  ASSUME TypeOK, NEW r \in Relays, OpenRelay(r)
  PROVE  relay' \in [Relays -> RelayClient] /\ open' \subseteq Fds
<1>1. CASE /\ relay' = [relay EXCEPT ![r] = [st |-> "wait", fd |-> NoFd]]
           /\ UNCHANGED open
  BY <1>1, Records DEF TypeOK, RelayStates
<1>2. ASSUME NEW fd \in Fds, NEW s \in {"wait", "connecting"},
             open' = open \cup {fd},
             relay' = [relay EXCEPT ![r] = [fd |-> fd, st |-> s]]
      PROVE  relay' \in [Relays -> RelayClient] /\ open' \subseteq Fds
  BY <1>2, Records DEF TypeOK, RelayStates
<1> QED
  BY <1>1, <1>2 DEF OpenRelay

\* Opening a connection, whatever comes of it.
LEMMA OpenConnectionTypes ==
  ASSUME TypeOK, NEW c \in Conns, OpenConnection(c, TRUE, TRUE)
  PROVE  conn' \in [Conns -> ConnContext] /\ open' \subseteq Fds
<1>1. CASE UNCHANGED <<conn, open>>
  BY <1>1 DEF TypeOK
<1>2. ASSUME NEW fd \in Fds, NEW s \in ConnStates,
             open' = open \cup {fd},
             conn' = [conn EXCEPT ![c] = [fd |-> fd, st |-> s]]
      PROVE  conn' \in [Conns -> ConnContext] /\ open' \subseteq Fds
  BY <1>2, Records DEF TypeOK
<1>3. ASSUME NEW fd \in Fds, NEW res \in ConnectResults,
             open' = open \cup {fd},
             conn' = [conn EXCEPT ![c] =
               [fd |-> fd,
                st |-> CASE res = "inprogress" -> "connecting"
                         [] res = "immediate" -> "connected"
                         [] res = "error" -> IF @.st = "free" THEN "initial" ELSE @.st]]
      PROVE  conn' \in [Conns -> ConnContext] /\ open' \subseteq Fds
  <2> DEFINE st == CASE res = "inprogress" -> "connecting"
                     [] res = "immediate" -> "connected"
                     [] res = "error" -> IF conn[c].st = "free" THEN "initial" ELSE conn[c].st
  <2>1. st \in ConnStates
    <3>1. conn[c].st \in ConnStates
      BY Records DEF TypeOK
    <3> QED
      BY <3>1, ConstantsAssumption DEF Outcomes, ConnStates
  <2>2. conn' = [conn EXCEPT ![c] = [fd |-> fd, st |-> st]]
    BY <1>3 DEF TypeOK
  <2> HIDE DEF st
  <2> QED
    BY <1>2, <1>3, <2>1, <2>2
<1> QED
  BY <1>1, <1>3, Zenon DEF OpenConnection

\* The slot either keeps what it has, or gets a new descriptor and a state.
LEMMA OpenConnectionChoice ==
  ASSUME TypeOK, NEW c \in Conns, OpenConnection(c, TRUE, TRUE)
  PROVE  \/ open = Fds /\ UNCHANGED <<conn, open>>
         \/ \E fd \in Fds, s \in ConnStates :
              /\ open' = open \cup {fd}
              /\ conn' = [conn EXCEPT ![c] = [st |-> s, fd |-> fd]]
<1>1. conn[c].st \in ConnStates
  BY Records DEF TypeOK
<1> QED
  BY <1>1, ConstantsAssumption DEF OpenConnection, TypeOK, Outcomes, ConnStates

\* Every step of the loop or of the core keeps the variables in their types.
LEMMA TypeStep == TypeOK /\ [Next]_vars => TypeOK'
<1> SUFFICES ASSUME TypeOK, [Next]_vars
             PROVE  TypeOK'
  OBVIOUS
<1> USE ConstantsAssumption, Records
    DEF TypeOK, ConnStates, RelayStates, Pcs, Passing, Aborts,
        Goto, CallCore, MoveTo, loopVars
<1>1. ASSUME NEW c \in Conns, CoreOpen(c) PROVE TypeOK'
  <2>1. conn' \in [Conns -> ConnContext] /\ open' \subseteq Fds
    <3>1. OpenConnection(c, TRUE, TRUE)
      BY <1>1, Zenon DEF CoreOpen, OpenConnection
    <3> QED
      BY <3>1, OpenConnectionTypes
  <2>2. pc' \in Pcs /\ resume' \in Pcs \ Aborts /\ UNCHANGED <<cursor, sockfd>>
    BY <1>1 DEF CoreOpen, OpenConnection, Outcomes
  <2>3. UNCHANGED <<relay, dns, rfds, wfds>>
    BY <1>1, Zenon DEF CoreOpen
  <2> QED
    BY <2>1, <2>2, <2>3
<1>2. ASSUME NEW c \in Conns, CoreOpenDns(c) PROVE TypeOK'
  <2>1. dns' \subseteq DnsTasks
    BY <1>2 DEF CoreOpenDns, DnsTasks, ConnTask
  <2>2. conn' \in [Conns -> ConnContext]
    BY <1>2 DEF CoreOpenDns
  <2> QED
    BY <1>2, <2>1, <2>2 DEF CoreOpenDns
<1>3. ASSUME NEW c \in Conns, CoreClose(c) PROVE TypeOK'
  BY <1>3 DEF CoreClose, CloseConnection, Release, FreeConn
<1>4. ASSUME NEW r \in Relays, CoreRelayOpen(r) PROVE TypeOK'
  <2>1. dns' \subseteq DnsTasks
    <3>1. RelayTask(r) \in DnsTasks
      BY DEF DnsTasks, RelayTask
    <3>2. dns' = dns \/ dns' = dns \cup {RelayTask(r)}
      BY <1>4, Zenon DEF CoreRelayOpen
    <3> QED
      BY <3>1, <3>2
  <2>2. relay' \in [Relays -> RelayClient] /\ open' \subseteq Fds
    <3>1. ASSUME NEW s \in RelayStates, relay' = [relay EXCEPT ![r].st = s],
                 UNCHANGED open
          PROVE  relay' \in [Relays -> RelayClient] /\ open' \subseteq Fds
      BY <3>1
    <3>2. CASE OpenRelay(r)
      BY <3>2, OpenRelayTypes
    <3> QED
      BY <1>4, <3>1, <3>2, Zenon DEF CoreRelayOpen
  <2>3. UNCHANGED <<loopVars, conn, rfds, wfds>>
    BY <1>4, Zenon DEF CoreRelayOpen
  <2> QED
    BY <2>1, <2>2, <2>3
<1>5. ASSUME NEW r \in Relays, CoreRelayClose(r) PROVE TypeOK'
  BY <1>5 DEF CoreRelayClose
<1>6. CASE CoreReturn \/ CoreAdvertize \/ (\E c \in Conns : CoreCloseResolving(c))
  BY <1>6 DEF CoreReturn, CoreAdvertize, CoreCloseResolving
<1>7. CASE DnsIdle \/ Select \/ Wld
  BY <1>7, SMTT(60) DEF DnsIdle, Select, Wld, PollRead, PollWrite, RelayFds, ConnFds
<1>8. ASSUME NEW r \in Relays, DnsRelay(r) PROVE TypeOK'
  <2>1. relay' \in [Relays -> RelayClient] /\ open' \subseteq Fds
    <3>1. CASE relay' = [relay EXCEPT ![r].st = "wait"] /\ UNCHANGED open
      BY <3>1
    <3>2. CASE OpenRelay(r)
      BY <3>2, OpenRelayTypes
    <3> QED
      BY <1>8, <3>1, <3>2, Zenon DEF DnsRelay
  <2>2. Goto("select") \/ CallCore("select")
    BY <1>8, Zenon DEF DnsRelay
  <2>3. dns' = dns \ {RelayTask(r)} /\ UNCHANGED <<conn, rfds, wfds>>
    BY <1>8, Zenon DEF DnsRelay
  <2> QED
    BY <2>1, <2>2, <2>3
<1>9. ASSUME NEW c \in Conns, DnsConn(c) PROVE TypeOK'
  <2>1. conn' \in [Conns -> ConnContext] /\ open' \subseteq Fds
    <3>1. CASE OpenConnection(c, Goto("select"), CallCore("select"))
      <4>1. OpenConnection(c, TRUE, TRUE)
        BY <3>1, Zenon DEF OpenConnection
      <4> QED
        BY <4>1, OpenConnectionTypes
    <3>2. CASE Release(c) /\ UNCHANGED open
      BY <3>2 DEF Release, FreeConn
    <3> QED
      BY <1>9, <3>1, <3>2, Zenon DEF DnsConn
  <2>2. pc' \in Pcs /\ resume' \in Pcs \ Aborts /\ UNCHANGED <<cursor, sockfd>>
    <3>1. CASE OpenConnection(c, Goto("select"), CallCore("select"))
      BY <3>1 DEF OpenConnection, Outcomes
    <3>2. CASE CallCore("select")
      BY <3>2
    <3> QED
      BY <1>9, <3>1, <3>2, Zenon DEF DnsConn
  <2>3. dns' = dns \ {ConnTask(c)} /\ UNCHANGED <<relay, rfds, wfds>>
    BY <1>9, Zenon DEF DnsConn
  <2> QED
    BY <2>1, <2>2, <2>3
<1>10. CASE RelayClosed \/ RelayDone \/ ConnDone
  <2>1. relay' \in [Relays -> RelayClient]
    BY <1>10 DEF RelayClosed, RelayDone, ConnDone
  <2> QED
    BY <1>10, <2>1 DEF RelayClosed, RelayDone, ConnDone, NextRelay, NextConn
<1>11. ASSUME NEW r \in Relays, RelaySkip(r) PROVE TypeOK'
  BY <1>11 DEF RelaySkip, NextRelay
<1>12. ASSUME NEW r \in Relays, RelayConnectDone(r) PROVE TypeOK'
  <2>1. relay' \in [Relays -> RelayClient]
    <3>1. CASE relay' = [relay EXCEPT ![r].st = "wait"]
      BY <3>1
    <3>2. CASE relay' = [relay EXCEPT ![r].st = "open"]
      BY <3>2
    <3> QED
      BY <1>12, <3>1, <3>2 DEF RelayConnectDone, DropRelay
  <2>2. open' \subseteq Fds
    BY <1>12 DEF RelayConnectDone, DropRelay
  <2>3. Goto("abortGetsockopt") \/ CallCore("relayNext") \/ CallCore("relayClosed")
    BY <1>12, Zenon DEF RelayConnectDone, DropRelay
  <2>4. UNCHANGED <<conn, dns, rfds, wfds>>
    BY <1>12, Zenon DEF RelayConnectDone
  <2> QED
    BY <2>1, <2>2, <2>3, <2>4
<1>13. ASSUME NEW r \in Relays, RelayRead(r) PROVE TypeOK'
  <2>1. relay' \in [Relays -> RelayClient]
    <3>1. CASE relay' = [relay EXCEPT ![r].st = "wait"]
      BY <3>1
    <3>2. CASE relay' = relay
      BY <3>2
    <3> QED
      BY <1>13, <3>1, <3>2 DEF RelayRead, DropRelay
  <2>2. open' \subseteq Fds
    BY <1>13 DEF RelayRead, DropRelay
  <2> QED
    BY <1>13, <2>1, <2>2 DEF RelayRead, DropRelay
<1>14. ASSUME NEW c \in Conns, ConnSkip(c) PROVE TypeOK'
  BY <1>14 DEF ConnSkip, NextConn
<1>15. ASSUME NEW c \in Conns, ConnRead(c) PROVE TypeOK'
  <2>1. conn' \in [Conns -> ConnContext] /\ open' \subseteq Fds
    <3>1. UNCHANGED <<conn, open>> \/ CloseConnection(c)
      BY <1>15, Zenon DEF ConnRead
    <3>2. FreeConn \in ConnContext
      BY Records DEF FreeConn
    <3> QED
      BY <3>1, <3>2 DEF CloseConnection, Release
  <2>2. pc' \in Pcs /\ resume' \in Pcs \ Aborts /\ sockfd' \in Fds \cup {NoFd}
    BY <1>15 DEF ConnRead
  <2>3. UNCHANGED <<cursor, relay, dns, rfds, wfds>>
    BY <1>15, Zenon DEF ConnRead
  <2> QED
    BY <2>1, <2>2, <2>3
<1>16. ASSUME NEW c \in Conns, ConnWrite(c) PROVE TypeOK'
  <2>1. conn' \in [Conns -> ConnContext]
    <3>1. CASE conn' = [conn EXCEPT ![c].st = "connected"]
      BY <3>1
    <3>2. CASE Release(c)
      BY <3>2 DEF Release, FreeConn
    <3> QED
      BY <1>16, <3>1, <3>2 DEF ConnWrite, CloseConnection
  <2>2. open' \subseteq Fds
    BY <1>16 DEF ConnWrite, CloseConnection
  <2>3. pc' \in Pcs /\ resume' \in Pcs \ Aborts /\ cursor' \in 1 .. (NumConns + NumRelays)
          /\ sockfd' \in Fds \cup {NoFd}
    BY <1>16 DEF ConnWrite, NextConn
  <2> QED
    BY <1>16, <2>1, <2>2, <2>3 DEF ConnWrite
<1>17. ASSUME NEW c \in Conns, Accept(c) PROVE TypeOK'
  BY <1>17 DEF Accept, EndOfPass
<1>18. CASE AcceptNone \/ AcceptRefuse
  BY <1>18 DEF AcceptNone, AcceptRefuse, EndOfPass
<1>19. CASE Events \/ Periodic \/ Ipc
  BY <1>19 DEF Events, Periodic, Ipc, Turn
<1>20. CASE UNCHANGED vars
  BY <1>20 DEF vars
<1> QED
  BY <1>1, <1>2, <1>3, <1>4, <1>5, <1>6, <1>7, <1>8, <1>9, <1>10, <1>11, <1>12, <1>13,
     <1>14, <1>15, <1>16, <1>17, <1>18, <1>19, <1>20 DEF Next, Core, Loop, Aborted

\* The type invariant of the run, for every value of the constants.
THEOREM TypeCorrect == Spec => []TypeOK
<1>1. Init => TypeOK
  <2>1. [c \in Conns |-> FreeConn] \in [Conns -> ConnContext]
    BY Records DEF FreeConn, ConnStates
  <2>2. [r \in Relays |-> [st |-> "initial", fd |-> NoFd]] \in [Relays -> RelayClient]
    BY Records DEF RelayStates
  <2> QED
    BY <2>1, <2>2, ConstantsAssumption DEF Init, TypeOK, Pcs, Aborts
<1>2. TypeOK /\ [Next]_vars => TypeOK'
  BY TypeStep
<1> QED
  BY <1>1, <1>2, PTL DEF Spec

-----------------------------------------------------------------------------
(* Ownership of descriptors.  The lemmas say what each kind of change to     *)
(* the slots, the relays and the open descriptors does to Owned.             *)

SameResets == \A r \in Relays : BeingReset(r)' <=> BeingReset(r)

\* Nothing that is owned changes.
LEMMA OwnedStays ==
  ASSUME Owned, UNCHANGED <<conn, relay, open>>, SameResets
  PROVE  Owned'
  BY DEF Owned, SameResets, ConnHolds, RelayHolds

\* A slot gets a descriptor that was not open.
LEMMA OwnedConnOpened ==
  ASSUME TypeOK, Owned, SameResets, UNCHANGED relay,
         NEW c \in Conns, NEW s \in ConnStates, NEW fd \in Fds, fd \notin open,
         open' = open \cup {fd},
         conn' = [conn EXCEPT ![c] = [st |-> s, fd |-> fd]]
  PROVE  Owned'
<1>1. fd # NoFd
  BY DEF Fds, NoFd
<1>2. \A d \in Conns : conn'[d] = IF d = c THEN [st |-> s, fd |-> fd] ELSE conn[d]
  BY DEF TypeOK
<1>3. \A r \in Relays : RelayHolds(r)' <=> RelayHolds(r)
  BY DEF SameResets, RelayHolds
<1> QED
  BY <1>1, <1>2, <1>3 DEF Owned, ConnHolds

\* A slot gives up its descriptor, which may be closed.
LEMMA OwnedConnReleased ==
  ASSUME TypeOK, Owned, SameResets, UNCHANGED relay,
         NEW c \in Conns, Release(c),
         open' = open \/ open' = open \ {conn[c].fd}
  PROVE  Owned'
<1>1. \A d \in Conns : conn'[d] = IF d = c THEN FreeConn ELSE conn[d]
  BY DEF TypeOK, Release
<1>2. \A r \in Relays : RelayHolds(r)' <=> RelayHolds(r)
  BY DEF SameResets, RelayHolds
<1>3. ~ (ConnHolds(c)')
  BY <1>1 DEF ConnHolds, FreeConn
<1>4. \A d \in Conns : d # c /\ ConnHolds(d) => conn[d].fd \in open'
  BY DEF Owned
<1>5. \A r \in Relays : RelayHolds(r) => relay[r].fd \in open'
  <2> SUFFICES ASSUME NEW r \in Relays, RelayHolds(r) PROVE relay[r].fd \in open'
    OBVIOUS
  <2>1. relay[r].fd # conn[c].fd
    BY DEF Owned, ConnHolds, RelayHolds
  <2> QED
    BY <2>1 DEF Owned
<1> QED
  BY <1>1, <1>2, <1>3, <1>4, <1>5 DEF Owned, ConnHolds, FreeConn

\* Only the state of a slot changes, to one in which it has its descriptor.
LEMMA OwnedConnState ==
  ASSUME TypeOK, Owned, SameResets, UNCHANGED <<relay, open>>,
         NEW c \in Conns, NEW s \in ConnStates, ConnHolds(c) \/ s = "resolving",
         conn' = [conn EXCEPT ![c].st = s]
  PROVE  Owned'
<1>1. \A d \in Conns : conn'[d].fd = conn[d].fd
  BY Records DEF TypeOK, ConnContext
<1>2. \A d \in Conns : conn'[d].st = IF d = c THEN s ELSE conn[d].st
  BY DEF TypeOK, ConnContext
<1>3. \A r \in Relays : RelayHolds(r)' <=> RelayHolds(r)
  BY DEF SameResets, RelayHolds
<1> QED
  BY <1>1, <1>2, <1>3 DEF Owned, ConnHolds

\* A relay gets a descriptor that was not open; one it had is forgotten.
LEMMA OwnedRelayOpened ==
  ASSUME TypeOK, Owned, SameResets, UNCHANGED conn,
         NEW r \in Relays, ~BeingReset(r), OpenRelay(r)
  PROVE  Owned'
<1>1. CASE open' = open /\ relay' = [relay EXCEPT ![r] = [st |-> "wait", fd |-> NoFd]]
  <2>1. \A q \in Relays : relay'[q] = IF q = r THEN [st |-> "wait", fd |-> NoFd] ELSE relay[q]
    BY <1>1 DEF TypeOK
  <2>2. \A q \in Relays : RelayHolds(q)' <=> q # r /\ RelayHolds(q)
    BY <2>1 DEF SameResets, RelayHolds
  <2> QED
    BY <1>1, <2>1, <2>2 DEF Owned, ConnHolds
<1>2. ASSUME NEW fd \in Fds, NEW s \in {"wait", "connecting"}, fd \notin open,
             open' = open \cup {fd}, relay' = [relay EXCEPT ![r] = [fd |-> fd, st |-> s]]
      PROVE  Owned'
  <2>1. fd # NoFd
    BY DEF Fds, NoFd
  <2>2. \A q \in Relays : relay'[q] = IF q = r THEN [fd |-> fd, st |-> s] ELSE relay[q]
    BY <1>2 DEF TypeOK
  <2>3. \A q \in Relays : RelayHolds(q)' <=> q = r \/ RelayHolds(q)
    BY <2>1, <2>2 DEF SameResets, RelayHolds
  <2> QED
    BY <1>2, <2>1, <2>2, <2>3 DEF Owned, ConnHolds
<1> QED
  BY <1>1, <1>2 DEF OpenRelay, IsLowestFree

\* Only the state of a relay changes, to one in which it has its descriptor.
LEMMA OwnedRelayState ==
  ASSUME TypeOK, Owned, SameResets, UNCHANGED <<conn, open>>,
         NEW r \in Relays, NEW s \in RelayStates,
         RelayHolds(r) \/ s \in {"wait", "resolving"},
         relay' = [relay EXCEPT ![r].st = s]
  PROVE  Owned'
<1>1. \A q \in Relays : relay'[q].fd = relay[q].fd
  BY DEF TypeOK, RelayClient
<1>2. \A q \in Relays : relay'[q].st = IF q = r THEN s ELSE relay[q].st
  BY DEF TypeOK, RelayClient
<1>3. \A q \in Relays : RelayHolds(q)' <=> RelayHolds(q)
  BY <1>1 DEF SameResets, RelayHolds
<1> QED
  BY <1>1, <1>2, <1>3 DEF Owned, ConnHolds

\* A relay's descriptor is closed, and the relay is about to be reset.
LEMMA OwnedRelayDropped ==
  ASSUME TypeOK, Owned, UNCHANGED conn,
         NEW r \in Relays, pc = "relay", cursor = r, DropRelay(r)
  PROVE  Owned'
<1>1. \A q \in Relays : BeingReset(q)' <=> q = r
  BY DEF DropRelay, CallCore, BeingReset
<1>2. \A q \in Relays : relay'[q].fd = relay[q].fd
  BY DEF TypeOK, RelayClient, DropRelay
<1>3. \A q \in Relays : relay'[q].st = IF q = r THEN "wait" ELSE relay[q].st
  BY DEF TypeOK, RelayClient, DropRelay
<1>4. \A q \in Relays : ~BeingReset(q)
  BY DEF BeingReset
<1>5. \A q \in Relays : RelayHolds(q)' <=> q # r /\ RelayHolds(q)
  BY <1>1, <1>2, <1>4 DEF RelayHolds
<1>6. \A q \in Relays : q # r /\ RelayHolds(q) => relay[q].fd \in open'
  BY <1>4 DEF Owned, DropRelay, RelayHolds
<1>7. \A c \in Conns : ConnHolds(c) => conn[c].fd \in open'
  BY <1>4 DEF Owned, DropRelay, RelayHolds, ConnHolds
<1> QED
  BY <1>2, <1>3, <1>5, <1>6, <1>7 DEF Owned, ConnHolds

\* relay->sockfd = -1.
LEMMA OwnedRelayReset ==
  ASSUME TypeOK, Owned, RelayClosed
  PROVE  Owned'
<1>1. \A q \in Relays : ~ (BeingReset(q)')
  BY DEF RelayClosed, NextRelay, MoveTo, BeingReset
<1>2. \A q \in Relays : relay'[q].fd = IF q = cursor THEN NoFd ELSE relay[q].fd
  BY DEF TypeOK, RelayClient, RelayClosed
<1>3. \A q \in Relays : relay'[q].st = relay[q].st
  BY DEF TypeOK, RelayClient, RelayClosed
<1>4. \A q \in Relays : BeingReset(q) <=> q = cursor
  BY DEF RelayClosed, BeingReset
<1>5. \A q \in Relays : RelayHolds(q)' <=> RelayHolds(q)
  BY <1>1, <1>2, <1>4 DEF RelayHolds
<1>6. conn' = conn /\ open' = open
  BY DEF RelayClosed
<1> QED
  BY <1>2, <1>3, <1>4, <1>5, <1>6 DEF Owned, ConnHolds, RelayHolds

\* Every step keeps DescriptorsOwned, if the core never calls
\* wish_relay_client_close.
LEMMA OwnedStep ==
  ASSUME TypeOK, DescriptorsOwned, ~RelayClosable, [Next]_vars
  PROVE  DescriptorsOwned'
<1>1. CASE UNCHANGED vars
  BY <1>1, OwnedStays DEF vars, DescriptorsOwned, SameResets, BeingReset
<1> SUFFICES ASSUME Next, pc \notin Aborts, pc' \notin Aborts
             PROVE  Owned'
  BY <1>1 DEF DescriptorsOwned, Next, Core, Loop, Aborted, Aborts,
     CoreOpen, CoreOpenDns, CoreClose, CoreRelayOpen, CoreRelayClose, CoreAdvertize, CoreCloseResolving,
     CoreReturn,
     DnsIdle, Select, Wld, RelayClosed, RelayDone, ConnDone, AcceptNone, AcceptRefuse,
     Events, Periodic, Ipc, Turn, DnsRelay, RelaySkip, RelayConnectDone, RelayRead,
     DnsConn, ConnSkip, ConnRead, ConnWrite, Accept
<1>2. Owned
  BY DEF DescriptorsOwned
<1>3. ASSUME NEW c \in Conns, CoreOpen(c) PROVE Owned'
  <2>1. SameResets
    BY <1>3 DEF CoreOpen, OpenConnection, Goto, Aborts, loopVars, SameResets, BeingReset
  <2>2. PICK fd \in Fds, s \in ConnStates :
          /\ fd \notin open /\ open' = open \cup {fd}
          /\ conn' = [conn EXCEPT ![c] = [st |-> s, fd |-> fd]]
    BY <1>3, ConstantsAssumption
       DEF CoreOpen, OpenConnection, IsLowestFree, Goto, Aborts, Outcomes, ConnStates
  <2> QED
    BY <1>2, <1>3, <2>1, <2>2, OwnedConnOpened DEF CoreOpen
<1>4. ASSUME NEW c \in Conns, CoreOpenDns(c) PROVE Owned'
  BY <1>2, <1>4, OwnedConnState
     DEF CoreOpenDns, ConnStates, loopVars, SameResets, BeingReset
<1>5. ASSUME NEW c \in Conns, CoreClose(c) PROVE Owned'
  BY <1>2, <1>5, OwnedConnReleased
     DEF CoreClose, CloseConnection, loopVars, SameResets, BeingReset
<1>6. ASSUME NEW r \in Relays, CoreRelayOpen(r) PROVE Owned'
  <2>1. SameResets
    BY <1>6 DEF CoreRelayOpen, loopVars, SameResets, BeingReset
  <2>2. ~BeingReset(r)
    BY <1>6 DEF CoreRelayOpen, BeingReset
  <2>3. CASE OpenRelay(r)
    BY <1>2, <1>6, <2>1, <2>2, <2>3, OwnedRelayOpened DEF CoreRelayOpen
  <2>4. CASE relay' = [relay EXCEPT ![r].st = "resolving"] /\ open' = open
    BY <1>2, <1>6, <2>1, <2>4, OwnedRelayState DEF CoreRelayOpen, RelayStates
  <2>5. CASE relay' = [relay EXCEPT ![r].st = "wait"] /\ open' = open
    BY <1>2, <1>6, <2>1, <2>5, OwnedRelayState DEF CoreRelayOpen, RelayStates
  <2> QED
    BY <1>6, <2>3, <2>4, <2>5 DEF CoreRelayOpen
<1>7. ASSUME NEW r \in Relays PROVE ~CoreRelayClose(r)
  BY DEF CoreRelayClose
<1>8. CASE CoreReturn \/ CoreAdvertize \/ (\E c \in Conns : CoreCloseResolving(c))
  BY <1>2, <1>8, OwnedStays DEF CoreReturn, CoreAdvertize, CoreCloseResolving,
     Goto, Aborts, SameResets, BeingReset
<1>9. ASSUME NEW r \in Relays, DnsRelay(r) PROVE Owned'
  <2>1. SameResets /\ ~BeingReset(r)
    BY <1>9 DEF DnsRelay, OpenRelay, Goto, CallCore, SameResets, BeingReset
  <2>2. CASE OpenRelay(r)
    BY <1>2, <1>9, <2>1, <2>2, OwnedRelayOpened DEF DnsRelay
  <2>3. CASE relay' = [relay EXCEPT ![r].st = "wait"] /\ open' = open
    BY <1>2, <1>9, <2>1, <2>3, OwnedRelayState DEF DnsRelay, RelayStates
  <2> QED
    BY <1>9, <2>2, <2>3 DEF DnsRelay
<1>10. ASSUME NEW c \in Conns, DnsConn(c) PROVE Owned'
  <2>1. SameResets
    BY <1>10 DEF DnsConn, OpenConnection, Goto, CallCore, Aborts, SameResets, BeingReset
  <2>2. CASE Release(c) /\ open' = open
    BY <1>2, <1>10, <2>1, <2>2, OwnedConnReleased DEF DnsConn
  <2>3. CASE OpenConnection(c, Goto("select"), CallCore("select"))
    <3>1. PICK fd \in Fds, res \in ConnectResults :
            /\ fd \notin open /\ open' = open \cup {fd}
            /\ conn' = [conn EXCEPT ![c] =
                 [fd |-> fd,
                  st |-> CASE res = "inprogress" -> "connecting"
                           [] res = "immediate" -> "connected"
                           [] res = "error" -> IF @.st = "free" THEN "initial" ELSE @.st]]
      BY <2>3 DEF OpenConnection, IsLowestFree, Goto, Aborts
    <3>2. conn[c].st \in ConnStates
      BY Records DEF TypeOK
    <3>3. PICK s \in ConnStates : conn' = [conn EXCEPT ![c] = [st |-> s, fd |-> fd]]
      BY <3>1, <3>2, ConstantsAssumption DEF Outcomes, ConnStates
    <3> QED
      BY <1>2, <1>10, <2>1, <3>1, <3>3, OwnedConnOpened DEF DnsConn
  <2> QED
    BY <1>10, <2>2, <2>3 DEF DnsConn
<1>11. CASE DnsIdle \/ Select \/ Wld
  BY <1>2, <1>11, OwnedStays
     DEF DnsIdle, Select, Wld, Goto, CallCore, SameResets, BeingReset
<1>12. ASSUME NEW r \in Relays, RelaySkip(r) PROVE Owned'
  BY <1>2, <1>12, OwnedStays DEF RelaySkip, NextRelay, MoveTo, SameResets, BeingReset
<1>13. ASSUME NEW r \in Relays, RelayConnectDone(r) PROVE Owned'
  <2>1. CASE DropRelay(r)
    BY <1>2, <1>13, <2>1, OwnedRelayDropped DEF RelayConnectDone
  <2>2. CASE relay' = [relay EXCEPT ![r].st = "open"] /\ open' = open /\ CallCore("relayNext")
    <3>1. SameResets
      BY <1>13, <2>2 DEF RelayConnectDone, CallCore, SameResets, BeingReset
    <3>2. RelayHolds(r)
      BY <1>2, <1>13 DEF Owned, RelayConnectDone, RelayWritable
    <3> QED
      BY <1>2, <1>13, <2>2, <3>1, <3>2, OwnedRelayState DEF RelayConnectDone, RelayStates
  <2> QED
    BY <1>13, <2>1, <2>2 DEF RelayConnectDone, Goto, Aborts
<1>14. ASSUME NEW r \in Relays, RelayRead(r) PROVE Owned'
  <2>1. CASE DropRelay(r)
    BY <1>2, <1>14, <2>1, OwnedRelayDropped DEF RelayRead
  <2>2. CASE UNCHANGED <<relay, open>> /\ CallCore("relayNext")
    BY <1>2, <1>14, <2>2, OwnedStays DEF RelayRead, CallCore, SameResets, BeingReset
  <2> QED
    BY <1>14, <2>1, <2>2 DEF RelayRead
<1>15. CASE RelayClosed
  BY <1>2, <1>15, OwnedRelayReset
<1>16. CASE RelayDone \/ ConnDone
  BY <1>2, <1>16, OwnedStays
     DEF RelayDone, ConnDone, NextRelay, NextConn, MoveTo, SameResets, BeingReset
<1>17. ASSUME NEW c \in Conns, ConnSkip(c) PROVE Owned'
  BY <1>2, <1>17, OwnedStays DEF ConnSkip, NextConn, MoveTo, SameResets, BeingReset
<1>18. ASSUME NEW c \in Conns, ConnRead(c) PROVE Owned'
  <2>1. SameResets
    BY <1>18 DEF ConnRead, SameResets, BeingReset
  <2>2. CASE UNCHANGED <<conn, open>>
    BY <1>2, <1>18, <2>1, <2>2, OwnedStays DEF ConnRead
  <2>3. CASE CloseConnection(c)
    BY <1>2, <1>18, <2>1, <2>3, OwnedConnReleased DEF ConnRead, CloseConnection
  <2> QED
    BY <1>18, <2>2, <2>3 DEF ConnRead
<1>19. ASSUME NEW c \in Conns, ConnWrite(c) PROVE Owned'
  <2>1. SameResets
    BY <1>19 DEF ConnWrite, NextConn, MoveTo, Goto, CallCore, SameResets, BeingReset
  <2>2. CASE UNCHANGED <<conn, open>>
    BY <1>2, <1>19, <2>1, <2>2, OwnedStays DEF ConnWrite
  <2>3. CASE CloseConnection(c)
    BY <1>2, <1>19, <2>1, <2>3, OwnedConnReleased DEF ConnWrite, CloseConnection
  <2>4. CASE conn[c].st = "connecting" /\ conn' = [conn EXCEPT ![c].st = "connected"] /\ open' = open
    <3>1. ConnHolds(c)
      BY <1>2, <2>4 DEF Owned
    <3> QED
      BY <1>2, <1>19, <2>1, <2>4, <3>1, OwnedConnState DEF ConnWrite, ConnStates
  <2> QED
    BY <1>19, <2>2, <2>3, <2>4 DEF ConnWrite
<1>20. ASSUME NEW c \in Conns, Accept(c) PROVE Owned'
  <2>1. SameResets
    BY <1>20 DEF Accept, CallCore, SameResets, BeingReset
  <2> QED
    BY <1>2, <1>20, <2>1, OwnedConnOpened DEF Accept, IsLowestFree, ConnStates
<1>21. CASE AcceptNone \/ AcceptRefuse
  BY <1>2, <1>21, OwnedStays DEF AcceptNone, AcceptRefuse, Goto, SameResets, BeingReset
<1>22. CASE Events \/ Periodic \/ Ipc
  BY <1>2, <1>22, OwnedStays
     DEF Events, Periodic, Ipc, Turn, Goto, CallCore, SameResets, BeingReset
<1> QED
  BY <1>3, <1>4, <1>5, <1>6, <1>7, <1>8, <1>9, <1>10, <1>11, <1>12, <1>13, <1>14, <1>15,
     <1>16, <1>17, <1>18, <1>19, <1>20, <1>21, <1>22 DEF Next, Core, Loop, Aborted

\* As long as the core never calls wish_relay_client_close, what a connection or
\* a relay holds is open and its own, whatever connect() answers, in whatever
\* order the core opens and closes, inside a pass or between two.
THEOREM OwnershipHolds == ~RelayClosable => (Spec => []DescriptorsOwned)
<1> SUFFICES ASSUME ~RelayClosable PROVE Spec => []DescriptorsOwned
  OBVIOUS
<1>1. Init => DescriptorsOwned
  BY DEF Init, DescriptorsOwned, Owned, ConnHolds, RelayHolds, FreeConn
<1>2. TypeOK /\ TypeOK' /\ DescriptorsOwned /\ [Next]_vars => DescriptorsOwned'
  BY OwnedStep
<1> QED
  BY <1>1, <1>2, TypeCorrect, PTL DEF Spec

-----------------------------------------------------------------------------
(* What is live.  A relay the core closed keeps a number that is not its own, *)
(* so Owned fails as soon as the number is handed out again.  What remains,   *)
(* as long as it is not, is the ownership of connections and live relays.     *)

Live(r) == relay[r].st \in {"connecting", "open"}

LiveOwned ==
  /\ \A c \in Conns : ConnHolds(c) => conn[c].fd \in open
  /\ \A r \in Relays : Live(r) => relay[r].fd \in open /\ ~BeingReset(r)
  /\ \A c, d \in Conns : c # d /\ ConnHolds(c) => conn[c].fd # conn[d].fd
  /\ \A r, q \in Relays : r # q /\ Live(r) /\ Live(q) => relay[r].fd # relay[q].fd
  /\ \A c \in Conns, r \in Relays : ConnHolds(c) /\ Live(r) => conn[c].fd # relay[r].fd
  /\ \A c \in Conns : conn[c].st \in {"initial", "connecting", "connected"} => ConnHolds(c)

LiveDescriptors == pc \notin Aborts => LiveOwned

\* The weaker half of ownership.
LEMMA OwnedIsLive == DescriptorsOwned => LiveDescriptors
  BY DEF DescriptorsOwned, LiveDescriptors, Owned, LiveOwned, Live, RelayHolds

\* No relay begins to be reset.
NoNewResets == \A r \in Relays : BeingReset(r)' => BeingReset(r)

\* Nothing that is owned changes.
LEMMA LiveStays ==
  ASSUME LiveOwned, UNCHANGED <<conn, relay, open>>, NoNewResets
  PROVE  LiveOwned'
  BY DEF LiveOwned, Live, NoNewResets, ConnHolds

\* A slot gets a descriptor that was not open.
LEMMA LiveConnOpened ==
  ASSUME TypeOK, LiveOwned, NoNewResets, UNCHANGED relay,
         NEW c \in Conns, NEW s \in ConnStates, NEW fd \in Fds, fd \notin open,
         open' = open \cup {fd},
         conn' = [conn EXCEPT ![c] = [st |-> s, fd |-> fd]]
  PROVE  LiveOwned'
<1>1. fd # NoFd
  BY DEF Fds, NoFd
<1>2. \A d \in Conns : conn'[d] = IF d = c THEN [st |-> s, fd |-> fd] ELSE conn[d]
  BY DEF TypeOK
<1>3. \A r \in Relays : Live(r)' <=> Live(r)
  BY DEF Live
<1> QED
  BY <1>1, <1>2, <1>3 DEF LiveOwned, NoNewResets, ConnHolds

\* A slot gives up its descriptor, which may be closed.
LEMMA LiveConnReleased ==
  ASSUME TypeOK, LiveOwned, NoNewResets, UNCHANGED relay,
         NEW c \in Conns, Release(c),
         open' = open \/ open' = open \ {conn[c].fd}
  PROVE  LiveOwned'
<1>1. \A d \in Conns : conn'[d] = IF d = c THEN FreeConn ELSE conn[d]
  BY DEF TypeOK, Release
<1>2. \A r \in Relays : Live(r)' <=> Live(r)
  BY DEF Live
<1>3. ~ (ConnHolds(c)')
  BY <1>1 DEF ConnHolds, FreeConn
<1>4. \A d \in Conns : d # c /\ ConnHolds(d) => conn[d].fd \in open'
  BY DEF LiveOwned
<1>5. \A r \in Relays : Live(r) => relay[r].fd \in open'
  <2> SUFFICES ASSUME NEW r \in Relays, Live(r) PROVE relay[r].fd \in open'
    OBVIOUS
  <2>1. relay[r].fd \in open /\ relay[r].fd # NoFd
    BY DEF LiveOwned, TypeOK, Fds, NoFd
  <2>2. relay[r].fd # conn[c].fd
    BY <2>1 DEF LiveOwned, ConnHolds
  <2> QED
    BY <2>1, <2>2
<1> QED
  BY <1>1, <1>2, <1>3, <1>4, <1>5 DEF LiveOwned, NoNewResets, ConnHolds, FreeConn

\* Only the state of a slot changes, to one in which it has its descriptor.
LEMMA LiveConnState ==
  ASSUME TypeOK, LiveOwned, NoNewResets, UNCHANGED <<relay, open>>,
         NEW c \in Conns, NEW s \in ConnStates, ConnHolds(c) \/ s = "resolving",
         conn' = [conn EXCEPT ![c].st = s]
  PROVE  LiveOwned'
<1>1. \A d \in Conns : conn'[d].fd = conn[d].fd
  BY Records DEF TypeOK, ConnContext
<1>2. \A d \in Conns : conn'[d].st = IF d = c THEN s ELSE conn[d].st
  BY DEF TypeOK, ConnContext
<1>3. \A r \in Relays : Live(r)' <=> Live(r)
  BY DEF Live
<1> QED
  BY <1>1, <1>2, <1>3 DEF LiveOwned, NoNewResets, ConnHolds

\* A relay gets a descriptor that was not open; one it had is forgotten.
LEMMA LiveRelayOpened ==
  ASSUME TypeOK, LiveOwned, NoNewResets, UNCHANGED conn,
         NEW r \in Relays, ~BeingReset(r), OpenRelay(r)
  PROVE  LiveOwned'
<1>1. CASE open' = open /\ relay' = [relay EXCEPT ![r] = [st |-> "wait", fd |-> NoFd]]
  <2>1. \A q \in Relays : relay'[q] = IF q = r THEN [st |-> "wait", fd |-> NoFd] ELSE relay[q]
    BY <1>1 DEF TypeOK
  <2>2. \A q \in Relays : Live(q)' <=> q # r /\ Live(q)
    BY <2>1 DEF Live
  <2> QED
    BY <1>1, <2>1, <2>2 DEF LiveOwned, NoNewResets, ConnHolds
<1>2. ASSUME NEW fd \in Fds, NEW s \in {"wait", "connecting"}, fd \notin open,
             open' = open \cup {fd}, relay' = [relay EXCEPT ![r] = [fd |-> fd, st |-> s]]
      PROVE  LiveOwned'
  <2>1. \A q \in Relays : relay'[q] = IF q = r THEN [fd |-> fd, st |-> s] ELSE relay[q]
    BY <1>2 DEF TypeOK
  <2>2. \A q \in Relays : q # r => (Live(q)' <=> Live(q))
    BY <2>1 DEF Live
  <2>3. ~ (BeingReset(r)')
    BY DEF NoNewResets
  <2> QED
    BY <1>2, <2>1, <2>2, <2>3 DEF LiveOwned, NoNewResets, ConnHolds
<1> QED
  BY <1>1, <1>2 DEF OpenRelay, IsLowestFree

\* A relay comes to rest.  The number it keeps may be closed, if it is its own or
\* nobody else's: what others own stays open.
LEMMA LiveRelayRests ==
  ASSUME TypeOK, LiveOwned, UNCHANGED conn,
         NEW r \in Relays, NEW s \in {"wait", "resolving"},
         relay' = [relay EXCEPT ![r].st = s],
         \A q \in Relays \ {r} : BeingReset(q)' => BeingReset(q),
         \/ open' = open
         \/ /\ open' = open \ {relay[r].fd}
            /\ \A c \in Conns : ConnHolds(c) => conn[c].fd # relay[r].fd
            /\ \A q \in Relays \ {r} : Live(q) => relay[q].fd # relay[r].fd
  PROVE  LiveOwned'
<1>1. \A q \in Relays : relay'[q].fd = relay[q].fd
  BY DEF TypeOK, RelayClient
<1>2. \A q \in Relays : relay'[q].st = IF q = r THEN s ELSE relay[q].st
  BY DEF TypeOK, RelayClient
<1>3. \A q \in Relays : Live(q)' <=> q # r /\ Live(q)
  BY <1>2 DEF Live
<1>4. \A q \in Relays : q # r /\ Live(q) => relay[q].fd \in open'
  BY DEF LiveOwned
<1>5. \A c \in Conns : ConnHolds(c) => conn[c].fd \in open'
  BY DEF LiveOwned, ConnHolds
<1> QED
  BY <1>1, <1>3, <1>4, <1>5 DEF LiveOwned, ConnHolds

\* A relay's connect() has succeeded.
LEMMA LiveRelayConnected ==
  ASSUME TypeOK, LiveOwned, NoNewResets, UNCHANGED <<conn, open>>,
         NEW r \in Relays, Live(r), relay' = [relay EXCEPT ![r].st = "open"]
  PROVE  LiveOwned'
<1>1. \A q \in Relays : relay'[q].fd = relay[q].fd
  BY DEF TypeOK, RelayClient
<1>2. \A q \in Relays : Live(q)' <=> Live(q)
  BY DEF Live, TypeOK, RelayClient
<1> QED
  BY <1>1, <1>2 DEF LiveOwned, NoNewResets, ConnHolds

\* relay->sockfd = -1, of a relay that is not live.
LEMMA LiveRelayReset ==
  ASSUME TypeOK, LiveOwned, RelayClosed
  PROVE  LiveOwned'
<1>1. \A q \in Relays : ~ (BeingReset(q)')
  BY DEF RelayClosed, NextRelay, MoveTo, BeingReset
<1>2. \A q \in Relays : relay'[q].fd = IF q = cursor THEN NoFd ELSE relay[q].fd
  BY DEF TypeOK, RelayClient, RelayClosed
<1>3. \A q \in Relays : Live(q)' <=> Live(q)
  BY DEF TypeOK, RelayClient, RelayClosed, Live
<1>4. \A q \in Relays : Live(q) => q # cursor
  BY DEF LiveOwned, RelayClosed, BeingReset
<1>5. conn' = conn /\ open' = open
  BY DEF RelayClosed
<1> QED
  BY <1>1, <1>2, <1>3, <1>4, <1>5 DEF LiveOwned, ConnHolds

\* What a relay owns as its own is nobody else's.
LEMMA LiveUnshared ==
  ASSUME TypeOK, LiveOwned, NEW r \in Relays, Live(r)
  PROVE  /\ \A c \in Conns : ConnHolds(c) => conn[c].fd # relay[r].fd
         /\ \A q \in Relays \ {r} : Live(q) => relay[q].fd # relay[r].fd
  BY DEF LiveOwned

\* Nor is the number of a relay the pass closes, live or at rest.
LEMMA LiveRelayDropped ==
  ASSUME TypeOK, LiveOwned, KeptNumberUnshared, UNCHANGED conn,
         NEW r \in Relays, relay[r].st # "initial", pc = "relay", cursor = r, DropRelay(r)
  PROVE  LiveOwned'
<1>1. \A q \in Relays : ~BeingReset(q)
  BY DEF BeingReset
<1>2. \A q \in Relays \ {r} : ~ (BeingReset(q)')
  BY DEF DropRelay, CallCore, BeingReset
<1>3. /\ \A c \in Conns : ConnHolds(c) => conn[c].fd # relay[r].fd
      /\ \A q \in Relays \ {r} : Live(q) => relay[q].fd # relay[r].fd
  <2>1. CASE Live(r)
    BY <2>1, LiveUnshared
  <2>2. CASE relay[r].fd = NoFd
    <3>1. \A q \in Relays : Live(q) => relay[q].fd # NoFd
      BY DEF LiveOwned, TypeOK, Fds, NoFd
    <3> QED
      BY <2>2, <3>1 DEF ConnHolds
  <2>3. CASE ~Live(r) /\ relay[r].fd # NoFd
    <3>1. relay[r].st \in {"wait", "resolving"}
      BY <2>3, Records DEF TypeOK, Live, RelayStates
    <3>2. /\ \A c \in Conns : conn[c].fd # relay[r].fd
          /\ \A q \in Relays \ {r} : RelayHolds(q) => relay[q].fd # relay[r].fd
      BY <1>1, <2>3, <3>1 DEF KeptNumberUnshared, RelayHolds, Aborts
    <3>3. \A q \in Relays : Live(q) => RelayHolds(q)
      BY <1>1 DEF LiveOwned, RelayHolds, TypeOK, Fds, NoFd
    <3> QED
      BY <3>2, <3>3
  <2> QED
    BY <2>1, <2>2, <2>3
<1> QED
  BY <1>2, <1>3, LiveRelayRests DEF DropRelay

\* Every step keeps LiveDescriptors, wish_relay_client_close included, if no
\* number a relay at rest keeps is somebody else's.
LEMMA LiveStep ==
  ASSUME TypeOK, KeptNumberUnshared, LiveDescriptors, [Next]_vars
  PROVE  LiveDescriptors'
<1>1. CASE UNCHANGED vars
  BY <1>1, LiveStays DEF vars, LiveDescriptors, NoNewResets, BeingReset
<1> SUFFICES ASSUME Next, pc \notin Aborts, pc' \notin Aborts
             PROVE  LiveOwned'
  BY <1>1 DEF LiveDescriptors, Next, Core, Loop, Aborted, Aborts,
     CoreOpen, CoreOpenDns, CoreClose, CoreRelayOpen, CoreRelayClose, CoreAdvertize, CoreCloseResolving,
     CoreReturn,
     DnsIdle, Select, Wld, RelayClosed, RelayDone, ConnDone, AcceptNone, AcceptRefuse,
     Events, Periodic, Ipc, Turn, DnsRelay, RelaySkip, RelayConnectDone, RelayRead,
     DnsConn, ConnSkip, ConnRead, ConnWrite, Accept
<1>2. LiveOwned
  BY DEF LiveDescriptors
<1>3. ASSUME NEW c \in Conns, CoreOpen(c) PROVE LiveOwned'
  <2>1. NoNewResets
    BY <1>3 DEF CoreOpen, OpenConnection, Goto, Aborts, loopVars, NoNewResets, BeingReset
  <2>2. PICK fd \in Fds, s \in ConnStates :
          /\ fd \notin open /\ open' = open \cup {fd}
          /\ conn' = [conn EXCEPT ![c] = [st |-> s, fd |-> fd]]
    BY <1>3, ConstantsAssumption
       DEF CoreOpen, OpenConnection, IsLowestFree, Goto, Aborts, Outcomes, ConnStates
  <2> QED
    BY <1>2, <1>3, <2>1, <2>2, LiveConnOpened DEF CoreOpen
<1>4. ASSUME NEW c \in Conns, CoreOpenDns(c) PROVE LiveOwned'
  BY <1>2, <1>4, LiveConnState
     DEF CoreOpenDns, ConnStates, loopVars, NoNewResets, BeingReset
<1>5. ASSUME NEW c \in Conns, CoreClose(c) PROVE LiveOwned'
  BY <1>2, <1>5, LiveConnReleased
     DEF CoreClose, CloseConnection, loopVars, NoNewResets, BeingReset
<1>6. ASSUME NEW r \in Relays, CoreRelayOpen(r) PROVE LiveOwned'
  <2>1. NoNewResets /\ ~BeingReset(r) /\ UNCHANGED conn
    BY <1>6 DEF CoreRelayOpen, loopVars, NoNewResets, BeingReset
  <2>2. CASE OpenRelay(r)
    BY <1>2, <2>1, <2>2, LiveRelayOpened
  <2>3. ASSUME NEW s \in {"wait", "resolving"}, relay' = [relay EXCEPT ![r].st = s], open' = open
        PROVE  LiveOwned'
    BY <1>2, <2>1, <2>3, LiveRelayRests DEF NoNewResets
  <2> QED
    BY <1>6, <2>2, <2>3 DEF CoreRelayOpen
<1>7. ASSUME NEW r \in Relays, CoreRelayClose(r) PROVE LiveOwned'
  <2>1. NoNewResets /\ UNCHANGED conn
    BY <1>7 DEF CoreRelayClose, loopVars, NoNewResets, BeingReset
  <2>2. Live(r) /\ open' = open \ {relay[r].fd} /\ relay' = [relay EXCEPT ![r].st = "wait"]
    BY <1>7 DEF CoreRelayClose, Live
  <2> QED
    BY <1>2, <2>1, <2>2, LiveUnshared, LiveRelayRests DEF NoNewResets
<1>8. CASE CoreReturn \/ CoreAdvertize \/ (\E c \in Conns : CoreCloseResolving(c))
  BY <1>2, <1>8, LiveStays
     DEF CoreReturn, CoreAdvertize, CoreCloseResolving,
     Goto, Aborts, NoNewResets, BeingReset
<1>9. ASSUME NEW r \in Relays, DnsRelay(r) PROVE LiveOwned'
  <2>1. NoNewResets /\ ~BeingReset(r) /\ UNCHANGED conn
    BY <1>9 DEF DnsRelay, OpenRelay, Goto, CallCore, NoNewResets, BeingReset
  <2>2. CASE OpenRelay(r)
    BY <1>2, <2>1, <2>2, LiveRelayOpened
  <2>3. CASE relay' = [relay EXCEPT ![r].st = "wait"] /\ open' = open
    BY <1>2, <2>1, <2>3, LiveRelayRests DEF NoNewResets
  <2> QED
    BY <1>9, <2>2, <2>3 DEF DnsRelay
<1>10. ASSUME NEW c \in Conns, DnsConn(c) PROVE LiveOwned'
  <2>1. NoNewResets /\ UNCHANGED relay
    BY <1>10 DEF DnsConn, OpenConnection, Goto, CallCore, Aborts, NoNewResets, BeingReset
  <2>2. CASE Release(c) /\ open' = open
    BY <1>2, <2>1, <2>2, LiveConnReleased
  <2>3. CASE OpenConnection(c, Goto("select"), CallCore("select"))
    <3>1. PICK fd \in Fds, res \in ConnectResults :
            /\ fd \notin open /\ open' = open \cup {fd}
            /\ conn' = [conn EXCEPT ![c] =
                 [fd |-> fd,
                  st |-> CASE res = "inprogress" -> "connecting"
                           [] res = "immediate" -> "connected"
                           [] res = "error" -> IF @.st = "free" THEN "initial" ELSE @.st]]
      BY <2>3 DEF OpenConnection, IsLowestFree, Goto, Aborts
    <3>2. conn[c].st \in ConnStates
      BY Records DEF TypeOK
    <3>3. PICK s \in ConnStates : conn' = [conn EXCEPT ![c] = [st |-> s, fd |-> fd]]
      BY <3>1, <3>2, ConstantsAssumption DEF Outcomes, ConnStates
    <3> QED
      BY <1>2, <2>1, <3>1, <3>3, LiveConnOpened
  <2> QED
    BY <1>10, <2>2, <2>3 DEF DnsConn
<1>11. CASE DnsIdle \/ Select \/ Wld
  BY <1>2, <1>11, LiveStays
     DEF DnsIdle, Select, Wld, Goto, CallCore, NoNewResets, BeingReset
<1>12. ASSUME NEW r \in Relays, RelaySkip(r) PROVE LiveOwned'
  BY <1>2, <1>12, LiveStays DEF RelaySkip, NextRelay, MoveTo, NoNewResets, BeingReset
<1>13. ASSUME NEW r \in Relays, RelayConnectDone(r) PROVE LiveOwned'
  <2>1. CASE DropRelay(r)
    BY <1>2, <1>13, <2>1, LiveRelayDropped DEF RelayConnectDone, RelayWritable
  <2>2. CASE relay' = [relay EXCEPT ![r].st = "open"] /\ open' = open /\ CallCore("relayNext")
    <3>1. NoNewResets /\ Live(r) /\ UNCHANGED conn
      BY <1>13, <2>2
         DEF RelayConnectDone, RelayWritable, Live, CallCore, NoNewResets, BeingReset
    <3> QED
      BY <1>2, <2>2, <3>1, LiveRelayConnected
  <2> QED
    BY <1>13, <2>1, <2>2 DEF RelayConnectDone, Goto, Aborts
<1>14. ASSUME NEW r \in Relays, RelayRead(r) PROVE LiveOwned'
  <2>1. CASE DropRelay(r)
    BY <1>2, <1>14, <2>1, LiveRelayDropped DEF RelayRead, RelayReadable
  <2>2. CASE UNCHANGED <<relay, open>> /\ CallCore("relayNext")
    BY <1>2, <1>14, <2>2, LiveStays DEF RelayRead, CallCore, NoNewResets, BeingReset
  <2> QED
    BY <1>14, <2>1, <2>2 DEF RelayRead
<1>15. CASE RelayClosed
  BY <1>2, <1>15, LiveRelayReset
<1>16. CASE RelayDone \/ ConnDone
  BY <1>2, <1>16, LiveStays
     DEF RelayDone, ConnDone, NextRelay, NextConn, MoveTo, NoNewResets, BeingReset
<1>17. ASSUME NEW c \in Conns, ConnSkip(c) PROVE LiveOwned'
  BY <1>2, <1>17, LiveStays DEF ConnSkip, NextConn, MoveTo, NoNewResets, BeingReset
<1>18. ASSUME NEW c \in Conns, ConnRead(c) PROVE LiveOwned'
  <2>1. NoNewResets
    BY <1>18 DEF ConnRead, NoNewResets, BeingReset
  <2>2. CASE UNCHANGED <<conn, open>>
    BY <1>2, <1>18, <2>1, <2>2, LiveStays DEF ConnRead
  <2>3. CASE CloseConnection(c)
    BY <1>2, <1>18, <2>1, <2>3, LiveConnReleased DEF ConnRead, CloseConnection
  <2> QED
    BY <1>18, <2>2, <2>3 DEF ConnRead
<1>19. ASSUME NEW c \in Conns, ConnWrite(c) PROVE LiveOwned'
  <2>1. NoNewResets
    BY <1>19 DEF ConnWrite, NextConn, MoveTo, Goto, CallCore, NoNewResets, BeingReset
  <2>2. CASE UNCHANGED <<conn, open>>
    BY <1>2, <1>19, <2>1, <2>2, LiveStays DEF ConnWrite
  <2>3. CASE CloseConnection(c)
    BY <1>2, <1>19, <2>1, <2>3, LiveConnReleased DEF ConnWrite, CloseConnection
  <2>4. CASE conn[c].st = "connecting" /\ conn' = [conn EXCEPT ![c].st = "connected"] /\ open' = open
    <3>1. ConnHolds(c)
      BY <1>2, <2>4 DEF LiveOwned
    <3> QED
      BY <1>2, <1>19, <2>1, <2>4, <3>1, LiveConnState DEF ConnWrite, ConnStates
  <2> QED
    BY <1>19, <2>2, <2>3, <2>4 DEF ConnWrite
<1>20. ASSUME NEW c \in Conns, Accept(c) PROVE LiveOwned'
  <2>1. NoNewResets
    BY <1>20 DEF Accept, CallCore, NoNewResets, BeingReset
  <2> QED
    BY <1>2, <1>20, <2>1, LiveConnOpened DEF Accept, IsLowestFree, ConnStates
<1>21. CASE AcceptNone \/ AcceptRefuse
  BY <1>2, <1>21, LiveStays DEF AcceptNone, AcceptRefuse, Goto, NoNewResets, BeingReset
<1>22. CASE Events \/ Periodic \/ Ipc
  BY <1>2, <1>22, LiveStays
     DEF Events, Periodic, Ipc, Turn, Goto, CallCore, NoNewResets, BeingReset
<1> QED
  BY <1>3, <1>4, <1>5, <1>6, <1>7, <1>8, <1>9, <1>10, <1>11, <1>12, <1>13, <1>14, <1>15,
     <1>16, <1>17, <1>18, <1>19, <1>20, <1>21, <1>22 DEF Next, Core, Loop, Aborted

-----------------------------------------------------------------------------
(* The pass acts on open descriptors only.                                   *)

\* select() looks at a descriptor for reading or for writing, never for both; so
\* what the readable half of the connection pass has handled is not handled by
\* the writable half, and what that half handles is still the slot's own.
PassInv ==
  /\ rfds \cap wfds = {}
  /\ pc = "core" /\ resume = "connW" => sockfd \notin wfds
  /\ pc = "connW" /\ sockfd \in wfds => cursor \in Conns /\ conn[cursor].fd = sockfd
  /\ NoDescriptorAbort

\* What is polled is open, and not in both sets.
LEMMA PolledOpen ==
  ASSUME TypeOK, LiveOwned, pc = "select"
  PROVE  PollRead \cup PollWrite \subseteq open /\ PollRead \cap PollWrite = {}
<1>1. PollRead \cup PollWrite \subseteq open
  BY DEF LiveOwned, Live, PollRead, PollWrite, RelayFds, ConnFds, ConnHolds
<1>2. ConnFds({"initial", "connected"}) \cap ConnFds({"connecting"}) = {}
  BY DEF LiveOwned, ConnFds, ConnHolds
<1>3. RelayFds({"open"}) \cap RelayFds({"connecting"}) = {}
  BY DEF LiveOwned, Live, RelayFds
<1>4. RelayFds({"open"}) \cap ConnFds({"connecting"}) = {}
  BY DEF LiveOwned, Live, RelayFds, ConnFds
<1>5. RelayFds({"connecting"}) \cap ConnFds({"initial", "connected"}) = {}
  BY DEF LiveOwned, Live, RelayFds, ConnFds
<1> QED
  BY <1>1, <1>2, <1>3, <1>4, <1>5 DEF PollRead, PollWrite

\* A descriptor the writable half acts on is open.
LEMMA WritableOpen ==
  ASSUME TypeOK, LiveDescriptors, PassInv, pc = "connW", sockfd \in wfds
  PROVE  conn[cursor].fd = sockfd /\ sockfd \in open
<1>1. sockfd # NoFd
  BY DEF TypeOK, Fds, NoFd
<1> QED
  BY <1>1 DEF PassInv, LiveDescriptors, LiveOwned, ConnHolds, Aborts

\* Every step keeps PassInv.
LEMMA PassStep ==
  ASSUME TypeOK, LiveDescriptors, PassInv, [Next]_vars
  PROVE  PassInv'
<1> USE DEF PassInv, NoDescriptorAbort
<1>1. CASE UNCHANGED vars
  BY <1>1 DEF vars
<1>2. ASSUME NEW c \in Conns, CoreOpen(c) \/ CoreOpenDns(c) \/ CoreClose(c) PROVE PassInv'
  BY <1>2 DEF CoreOpen, OpenConnection, Goto, CoreOpenDns, CoreClose, loopVars
<1>3. ASSUME NEW r \in Relays, CoreRelayOpen(r) \/ CoreRelayClose(r) PROVE PassInv'
  BY <1>3 DEF CoreRelayOpen, CoreRelayClose, loopVars
<1>4. CASE CoreReturn \/ CoreAdvertize \/ (\E c \in Conns : CoreCloseResolving(c))
  BY <1>4 DEF CoreReturn, CoreAdvertize, CoreCloseResolving, Goto, TypeOK, Aborts
<1>5. CASE DnsIdle \/ Wld
  BY <1>5 DEF DnsIdle, Wld, Goto, CallCore
<1>6. CASE Select
  <2>1. PollRead \cup PollWrite \subseteq open /\ PollRead \cap PollWrite = {}
    BY <1>6, PolledOpen DEF Select, LiveDescriptors, Aborts
  <2> QED
    BY <1>6, <2>1 DEF Select
<1>7. ASSUME NEW r \in Relays, DnsRelay(r) PROVE PassInv'
  BY <1>7 DEF DnsRelay, Goto, CallCore
<1>8. ASSUME NEW c \in Conns, DnsConn(c) PROVE PassInv'
  BY <1>8 DEF DnsConn, OpenConnection, Goto, CallCore
<1>9. ASSUME NEW r \in Relays, RelaySkip(r) \/ RelayRead(r) PROVE PassInv'
  BY <1>9 DEF RelaySkip, RelayRead, DropRelay, NextRelay, MoveTo, CallCore
<1>10. ASSUME NEW r \in Relays, RelayConnectDone(r) PROVE PassInv'
  <2>1. relay[r].fd \in open
    BY <1>10
       DEF RelayConnectDone, RelayWritable, LiveDescriptors, LiveOwned, Live, Aborts
  <2> QED
    BY <1>10, <2>1 DEF RelayConnectDone, DropRelay, CallCore
<1>11. CASE RelayClosed \/ RelayDone \/ ConnDone
  BY <1>11 DEF RelayClosed, RelayDone, ConnDone, NextRelay, NextConn, MoveTo
<1>12. ASSUME NEW c \in Conns, ConnSkip(c) PROVE PassInv'
  BY <1>12 DEF ConnSkip, NextConn, MoveTo
<1>13. ASSUME NEW c \in Conns, ConnRead(c) PROVE PassInv'
  BY <1>13 DEF ConnRead
<1>14. ASSUME NEW c \in Conns, ConnWrite(c) PROVE PassInv'
  <2>1. sockfd \in wfds => sockfd \in open
    BY <1>14, WritableOpen DEF ConnWrite
  <2> QED
    BY <1>14, <2>1 DEF ConnWrite, NextConn, MoveTo, Goto, CallCore
<1>15. ASSUME NEW c \in Conns, Accept(c) PROVE PassInv'
  BY <1>15 DEF Accept, EndOfPass, CallCore
<1>16. CASE AcceptNone \/ AcceptRefuse
  BY <1>16 DEF AcceptNone, AcceptRefuse, EndOfPass, Goto
<1>17. CASE Events \/ Periodic \/ Ipc
  BY <1>17 DEF Events, Periodic, Ipc, Turn, Goto, CallCore
<1> QED
  BY <1>1, <1>2, <1>3, <1>4, <1>5, <1>6, <1>7, <1>8, <1>9, <1>10, <1>11, <1>12, <1>13,
     <1>14, <1>15, <1>16, <1>17 DEF Next, Core, Loop, Aborted

LEMMA PassHolds == ~RelayClosable => (Spec => []PassInv)
<1> SUFFICES ASSUME ~RelayClosable PROVE Spec => []PassInv
  OBVIOUS
<1>1. Init => PassInv
  BY DEF Init, PassInv, NoDescriptorAbort
<1>2. TypeOK /\ DescriptorsOwned /\ PassInv /\ [Next]_vars => PassInv'
  BY PassStep, OwnedIsLive
<1>3. Spec => []DescriptorsOwned
  BY OwnershipHolds
<1> QED
  BY <1>1, <1>2, <1>3, TypeCorrect, PTL DEF Spec

\* Although the core runs between the reading of the local sockfd and its use,
\* the writable half only acts on the descriptor its slot still has.
THEOREM WritableHalfSound == ~RelayClosable => (Spec => []WritableBranchLive)
<1> SUFFICES ASSUME ~RelayClosable PROVE Spec => []WritableBranchLive
  OBVIOUS
<1>1. TypeOK /\ DescriptorsOwned /\ PassInv => WritableBranchLive
  BY WritableOpen, OwnedIsLive DEF WritableBranchLive
<1>2. Spec => []DescriptorsOwned
  BY OwnershipHolds
<1>3. Spec => []PassInv
  BY PassHolds
<1> QED
  BY <1>1, <1>2, <1>3, TypeCorrect, PTL

\* The thread never ends on EBADF: neither select() nor getsockopt() is given a
\* descriptor that is not open.
THEOREM NoBadDescriptor == ~RelayClosable => (Spec => []NoDescriptorAbort)
<1> SUFFICES ASSUME ~RelayClosable PROVE Spec => []NoDescriptorAbort
  OBVIOUS
<1>1. PassInv => NoDescriptorAbort
  BY DEF PassInv
<1>2. Spec => []PassInv
  BY PassHolds
<1> QED
  BY <1>1, <1>2, PTL

\* The antecedent of HarmlessUntilReused is about wish_relay_client_close alone: a
\* relay keeps a number that is somebody else's only if the core closed it, never
\* because a connect() failed at once and left the relay its open socket.
THEOREM OnlyClosedRelaysShare == ~RelayClosable => (Spec => []KeptNumberUnshared)
<1>1. DescriptorsOwned => KeptNumberUnshared
  BY DEF DescriptorsOwned, Owned, KeptNumberUnshared, RelayHolds, ConnHolds
<1> QED
  BY <1>1, OwnershipHolds, PTL

\* wish_relay_client_close leaves a relay a number that is not its own any more.
\* As long as the kernel has not handed that number out again, the loop neither
\* aborts nor acts on a descriptor that is not its slot's: whatever connect()
\* answers and FD_ISSET(-1, ..) says, and however many slots and relays there are.
THEOREM ClosedRelayHarmless == Spec => HarmlessUntilReused
<1>1. Init => LiveDescriptors /\ PassInv
  BY DEF Init, LiveDescriptors, LiveOwned, Live, ConnHolds, FreeConn, PassInv, NoDescriptorAbort
<1>2. TypeOK /\ KeptNumberUnshared /\ (LiveDescriptors /\ PassInv) /\ [Next]_vars
        => (LiveDescriptors /\ PassInv)'
  BY LiveStep, PassStep
<1>3. TypeOK /\ LiveDescriptors /\ PassInv => NoDescriptorAbort /\ WritableBranchLive
  BY WritableOpen DEF WritableBranchLive, PassInv
<1> QED
  BY <1>1, <1>2, <1>3, TypeCorrect, PTL DEF Spec, HarmlessUntilReused

-----------------------------------------------------------------------------
(* A connection keeps its socket.                                            *)

\* A slot somebody resolves a name for waits for that, and has no socket; nor
\* has a slot in the pool.
SlotInv == \A c \in Conns :
  /\ ConnTask(c) \in dns => conn[c].st = "resolving" /\ conn[c].fd = NoFd
  /\ conn[c].st = "free" => conn[c].fd = NoFd

KeepsSocket(c) == conn[c].fd # NoFd => conn'[c].fd \in {conn[c].fd, NoFd}

\* Every step keeps SlotInv and replaces no socket.
LEMMA SlotStep ==
  ASSUME TypeOK, DescriptorsOwned, PassInv, SlotInv, [Next]_vars
  PROVE  SlotInv' /\ \A c \in Conns : KeepsSocket(c)
<1> USE DEF SlotInv, KeepsSocket, ConnTask, TypeOK
<1> DEFINE Goal == SlotInv' /\ \A c \in Conns : KeepsSocket(c)
<1>1. CASE UNCHANGED <<conn, dns>>
  BY <1>1
<1>2. ASSUME NEW c \in Conns, conn[c].fd = NoFd, ConnTask(c) \notin dns', dns' \subseteq dns,
             NEW k \in ConnContext, k.st = "free" => k.fd = NoFd,
             conn' = [conn EXCEPT ![c] = k]
      PROVE  Goal
  BY <1>2
<1>3. ASSUME NEW c \in Conns, dns' = dns, conn' = [conn EXCEPT ![c] = FreeConn], ConnTask(c) \notin dns
      PROVE  Goal
  BY <1>3 DEF FreeConn
<1>4. ASSUME NEW c \in Conns, CoreOpen(c) PROVE Goal
  <2>1. conn[c].fd = NoFd /\ ConnTask(c) \notin dns /\ dns' = dns
    BY <1>4 DEF CoreOpen
  <2>2. CASE UNCHANGED conn
    BY <1>1, <2>1, <2>2
  <2>3. ASSUME NEW fd \in Fds, NEW s \in ConnStates \ {"free"},
               conn' = [conn EXCEPT ![c] = [st |-> s, fd |-> fd]]
        PROVE  Goal
    BY <1>2, <2>1, <2>3, Records
  <2> QED
    BY <1>4, <2>2, <2>3, ConstantsAssumption DEF CoreOpen, OpenConnection, Outcomes, ConnStates
<1>5. ASSUME NEW c \in Conns, CoreOpenDns(c) PROVE Goal
  <2>1. dns' = dns \cup {ConnTask(c)} /\ conn[c].st = "free" /\ conn[c].fd = NoFd
    BY <1>5 DEF CoreOpenDns
  <2>2. \A d \in Conns : conn'[d].fd = conn[d].fd
    BY <1>5 DEF CoreOpenDns, ConnContext
  <2>3. \A d \in Conns : conn'[d].st = IF d = c THEN "resolving" ELSE conn[d].st
    BY <1>5 DEF CoreOpenDns, ConnContext
  <2> QED
    BY <2>1, <2>2, <2>3
<1>6. ASSUME NEW c \in Conns, CoreClose(c) PROVE Goal
  BY <1>3, <1>6 DEF CoreClose, CloseConnection, Release
<1>7. ASSUME NEW r \in Relays, CoreRelayOpen(r) PROVE Goal
  <2>1. conn' = conn /\ (dns' = dns \/ dns' = dns \cup {RelayTask(r)})
    BY <1>7 DEF CoreRelayOpen
  <2>2. \A c \in Conns : ConnTask(c) # RelayTask(r)
    BY DEF RelayTask
  <2> QED
    BY <2>1, <2>2
<1>8. ASSUME NEW r \in Relays, CoreRelayClose(r) PROVE Goal
  BY <1>1, <1>8 DEF CoreRelayClose
<1>9. CASE CoreReturn \/ CoreAdvertize \/ DnsIdle \/ Wld \/ Select
            \/ (\E c \in Conns : CoreCloseResolving(c))
  BY <1>1, <1>9 DEF CoreReturn, CoreAdvertize, CoreCloseResolving, DnsIdle, Wld, Select
<1>10. ASSUME NEW r \in Relays, DnsRelay(r) PROVE Goal
  BY <1>10 DEF DnsRelay
<1>11. ASSUME NEW c \in Conns, DnsConn(c) PROVE Goal
  <2>1. conn[c].fd = NoFd /\ conn[c].st = "resolving" /\ dns' = dns \ {ConnTask(c)}
    BY <1>11 DEF DnsConn
  <2>2. CASE UNCHANGED conn
    BY <2>1, <2>2
  <2>3. CASE Release(c)
    BY <2>1, <2>3 DEF Release, FreeConn
  <2>4. ASSUME NEW fd \in Fds, NEW s \in ConnStates \ {"free"},
               conn' = [conn EXCEPT ![c] = [st |-> s, fd |-> fd]]
        PROVE  Goal
    BY <1>2, <2>1, <2>4, Records
  <2> QED
    BY <1>11, <2>1, <2>2, <2>3, <2>4, ConstantsAssumption
       DEF DnsConn, OpenConnection, Outcomes, ConnStates
<1>12. ASSUME NEW r \in Relays, RelaySkip(r) \/ RelayConnectDone(r) \/ RelayRead(r) PROVE Goal
  BY <1>1, <1>12 DEF RelaySkip, RelayConnectDone, RelayRead
<1>13. CASE RelayClosed \/ RelayDone \/ ConnDone
  BY <1>1, <1>13 DEF RelayClosed, RelayDone, ConnDone
<1>14. ASSUME NEW c \in Conns, ConnSkip(c) PROVE Goal
  BY <1>1, <1>14 DEF ConnSkip
<1>15. ASSUME NEW c \in Conns, ConnRead(c) PROVE Goal
  <2>1. ConnTask(c) \notin dns /\ dns' = dns
    BY <1>15 DEF ConnRead
  <2> QED
    BY <1>1, <1>3, <1>15, <2>1 DEF ConnRead, CloseConnection, Release
<1>16. ASSUME NEW c \in Conns, ConnWrite(c) PROVE Goal
  <2>1. dns' = dns
    BY <1>16 DEF ConnWrite
  <2>2. CASE UNCHANGED conn
    BY <1>1, <2>1, <2>2
  <2>3. CASE conn[c].st = "connecting" /\ conn' = [conn EXCEPT ![c].st = "connected"]
    <3>1. \A d \in Conns : conn'[d].fd = conn[d].fd
      BY <2>3 DEF ConnContext
    <3>2. \A d \in Conns : conn'[d].st = IF d = c THEN "connected" ELSE conn[d].st
      BY <2>3 DEF ConnContext
    <3> QED
      BY <2>1, <2>3, <3>1, <3>2
  <2>4. CASE sockfd \in wfds /\ Release(c)
    <3>1. conn[c].fd # NoFd
      BY <1>16, <2>4, WritableOpen, OwnedIsLive DEF ConnWrite, TypeOK, Fds, NoFd
    <3> QED
      BY <2>1, <2>4, <3>1 DEF Release, FreeConn
  <2> QED
    BY <1>16, <2>2, <2>3, <2>4 DEF ConnWrite, CloseConnection
<1>17. ASSUME NEW c \in Conns, Accept(c) PROVE Goal
  <2>1. conn[c].fd = NoFd /\ ConnTask(c) \notin dns /\ dns' = dns
    BY <1>17 DEF Accept
  <2>2. PICK fd \in Fds : conn' = [conn EXCEPT ![c] = [st |-> "connected", fd |-> fd]]
    BY <1>17 DEF Accept
  <2> QED
    BY <1>2, <2>1, <2>2, Records DEF ConnStates
<1>18. CASE AcceptNone \/ AcceptRefuse
  BY <1>1, <1>18 DEF AcceptNone, AcceptRefuse
<1>19. CASE Events \/ Periodic \/ Ipc
  BY <1>1, <1>19 DEF Events, Periodic, Ipc, Turn
<1> QED
  BY <1>1, <1>4, <1>5, <1>6, <1>7, <1>8, <1>9, <1>10, <1>11, <1>12, <1>13, <1>14, <1>15,
     <1>16, <1>17, <1>18, <1>19 DEF Next, Core, Loop, Aborted, vars

\* A connection keeps the socket it was opened with until it is closed, whenever
\* the resolver answers and whatever the core did meanwhile.
THEOREM SocketKept == ~RelayClosable => (Spec => SocketNotReplaced)
<1> SUFFICES ASSUME ~RelayClosable PROVE Spec => SocketNotReplaced
  OBVIOUS
<1>1. Init => SlotInv
  BY DEF Init, SlotInv, FreeConn
<1>2. TypeOK /\ DescriptorsOwned /\ PassInv /\ SlotInv /\ [Next]_vars
        => SlotInv' /\ [\A c \in Conns : conn[c].fd # NoFd => conn'[c].fd \in {conn[c].fd, NoFd}]_vars
  BY SlotStep DEF KeepsSocket
<1>3. Spec => []DescriptorsOwned
  BY OwnershipHolds
<1>4. Spec => []PassInv
  BY PassHolds
<1> QED
  BY <1>1, <1>2, <1>3, <1>4, TypeCorrect, PTL DEF Spec, SocketNotReplaced

-----------------------------------------------------------------------------
(* Lookups and leaks.                                                        *)

\* The core closes no relay itself, connect() of a relay starts or succeeds, and
\* FD_ISSET(-1, &rfds) reads nothing that happens to be set.
OrderlyRelays == ~RelayClosable /\ "error" \notin RelayConnectResults /\ TRUE \notin NoFdIsSet

\* A relay that has no transport has no number either, unless it is being reset.
IdleRelays == \A r \in Relays :
  relay[r].st \in {"initial", "wait", "resolving"} => relay[r].fd = NoFd \/ BeingReset(r)
RelaysWait == \A r \in Relays : RelayTask(r) \in dns => relay[r].st = "resolving"
ResolvingIdle == \A r \in Relays : relay[r].st = "resolving" => relay[r].fd = NoFd
RelayInv == RelaysWait /\ ResolvingIdle /\ (pc \notin Aborts => IdleRelays)

\* Steps that change no relay and start no lookup for one.
LEMMA RelayStays ==
  ASSUME RelayInv, UNCHANGED relay,
         \A r \in Relays : RelayTask(r) \in dns' => RelayTask(r) \in dns,
         pc' \in Aborts \/ (pc \notin Aborts /\ SameResets) \/ UNCHANGED <<pc, resume, cursor>>
  PROVE  RelayInv'
  BY DEF RelayInv, RelaysWait, ResolvingIdle, IdleRelays, SameResets, BeingReset

\* A relay takes a new state, with the descriptor that goes with it.
LEMMA RelayChanges ==
  ASSUME TypeOK, RelayInv, pc \notin Aborts, NEW r \in Relays, NEW k \in RelayClient,
         relay' = [relay EXCEPT ![r] = k],
         RelayTask(r) \in dns' => k.st = "resolving",
         \A q \in Relays \ {r} : RelayTask(q) \in dns' => RelayTask(q) \in dns,
         k.st \in {"initial", "wait", "resolving"}
           => k.fd = NoFd \/ (k.st = "wait" /\ BeingReset(r)'),
         \A q \in Relays \ {r} : BeingReset(q) => BeingReset(q)'
  PROVE  RelayInv'
<1>1. \A q \in Relays : relay'[q] = IF q = r THEN k ELSE relay[q]
  BY DEF TypeOK
<1>2. RelaysWait' /\ ResolvingIdle'
  BY <1>1 DEF RelayInv, RelaysWait, ResolvingIdle
<1>3. IdleRelays'
  BY <1>1 DEF RelayInv, IdleRelays
<1> QED
  BY <1>2, <1>3 DEF RelayInv

\* What opening a relay makes of it, when connect() does not fail.
LEMMA OpenedRelay ==
  ASSUME TypeOK, OrderlyRelays, NEW r \in Relays, OpenRelay(r)
  PROVE  \E k \in RelayClient :
           /\ relay' = [relay EXCEPT ![r] = k]
           /\ \/ k.st = "wait" /\ k.fd = NoFd /\ open' = open
              \/ k.st = "connecting" /\ k.fd \in Fds /\ open' = open \cup {k.fd}
<1>1. CASE /\ relay' = [relay EXCEPT ![r] = [st |-> "wait", fd |-> NoFd]]
           /\ open' = open
  <2>1. [st |-> "wait", fd |-> NoFd] \in RelayClient
    BY Records DEF RelayStates
  <2> QED
    BY <1>1, <2>1
<1>2. ASSUME NEW fd \in Fds, open' = open \cup {fd},
             relay' = [relay EXCEPT ![r] = [fd |-> fd, st |-> "connecting"]]
      PROVE  \E k \in RelayClient :
               /\ relay' = [relay EXCEPT ![r] = k]
               /\ k.st = "connecting" /\ k.fd \in Fds /\ open' = open \cup {k.fd}
  <2>1. [fd |-> fd, st |-> "connecting"] \in RelayClient
    BY Records DEF RelayStates
  <2> QED
    BY <1>2, <2>1
<1> QED
  BY <1>1, <1>2 DEF OpenRelay, OrderlyRelays

\* A relay the pass reads from or connects has a transport.
LEMMA ServedRelay ==
  ASSUME TypeOK, OrderlyRelays, RelayInv, NEW r \in Relays, pc = "relay",
         RelayWritable(r) \/ RelayReadable(r)
  PROVE  relay[r].st \in {"connecting", "open"} /\ relay[r].fd # NoFd /\ RelayTask(r) \notin dns
<1>1. relay[r].fd # NoFd
  <2>1. relay[r].fd \in wfds \/ relay[r].fd \in rfds
    BY Zenon DEF RelayWritable, RelayReadable, OrderlyRelays
  <2> QED
    BY <2>1 DEF TypeOK, Fds, NoFd
<1>2. ~BeingReset(r) /\ pc \notin Aborts
  BY DEF BeingReset, Aborts
<1>3. relay[r].st \in RelayStates
  BY Records DEF TypeOK
<1> QED
  BY <1>1, <1>2, <1>3 DEF RelayInv, IdleRelays, RelaysWait, RelayStates

\* Every step keeps RelayInv.
LEMMA RelayStep ==
  ASSUME TypeOK, OrderlyRelays, RelayInv, [Next]_vars
  PROVE  RelayInv'
<1>1. CASE UNCHANGED vars
  BY <1>1, RelayStays DEF vars
<1>2. ASSUME NEW c \in Conns, CoreOpen(c) \/ CoreOpenDns(c) \/ CoreClose(c) PROVE RelayInv'
  <2>1. \A r \in Relays : RelayTask(r) \in dns' => RelayTask(r) \in dns
    BY <1>2 DEF CoreOpen, CoreOpenDns, CoreClose, RelayTask, ConnTask
  <2>2. pc' \in Aborts \/ UNCHANGED <<pc, resume, cursor>>
    BY <1>2 DEF CoreOpen, OpenConnection, Goto, CoreOpenDns, CoreClose, loopVars, Aborts
  <2>3. UNCHANGED relay
    BY <1>2 DEF CoreOpen, CoreOpenDns, CoreClose
  <2> QED
    BY <2>1, <2>2, <2>3, RelayStays
<1>3. ASSUME NEW r \in Relays, CoreRelayOpen(r) PROVE RelayInv'
  <2>1. /\ pc \notin Aborts /\ UNCHANGED <<pc, resume, cursor>>
        /\ relay[r].st \in {"initial", "wait"} /\ ~BeingReset(r)
    BY <1>3 DEF CoreRelayOpen, loopVars, Aborts, BeingReset
  <2>2. relay[r].fd = NoFd /\ RelayTask(r) \notin dns
    BY <2>1 DEF RelayInv, IdleRelays, RelaysWait
  <2>3. \A q \in Relays : BeingReset(q)' <=> BeingReset(q)
    BY <2>1 DEF BeingReset
  <2>4. CASE OpenRelay(r) /\ dns' = dns
    BY <2>1, <2>2, <2>3, <2>4, OpenedRelay, RelayChanges
  <2>5. ASSUME NEW s \in {"resolving", "wait"}, relay' = [relay EXCEPT ![r].st = s],
               (dns' = dns \cup {RelayTask(r)} /\ s = "resolving") \/ dns' = dns
        PROVE  RelayInv'
    <3> DEFINE k == [relay[r] EXCEPT !.st = s]
    <3>1. k \in RelayClient /\ k.st = s /\ k.fd = NoFd
      BY <2>2, Records DEF TypeOK, RelayStates, RelayClient
    <3>2. relay' = [relay EXCEPT ![r] = k]
      BY <2>5 DEF TypeOK
    <3>3. \A q \in Relays \ {r} : RelayTask(q) \in dns' => RelayTask(q) \in dns
      BY <2>5 DEF RelayTask
    <3>4. RelayTask(r) \in dns' => k.st = "resolving"
      BY <2>2, <2>5, <3>1
    <3> HIDE DEF k
    <3> QED
      BY <2>1, <2>2, <2>3, <3>1, <3>2, <3>3, <3>4, RelayChanges
  <2>6. \/ OpenRelay(r) /\ dns' = dns
        \/ \E s \in {"resolving", "wait"} :
             /\ relay' = [relay EXCEPT ![r].st = s]
             /\ (dns' = dns \cup {RelayTask(r)} /\ s = "resolving") \/ dns' = dns
    BY <1>3 DEF CoreRelayOpen
  <2> QED
    BY <2>4, <2>5, <2>6
<1>4. ASSUME NEW r \in Relays PROVE ~CoreRelayClose(r)
  BY DEF CoreRelayClose, OrderlyRelays
<1>5. CASE CoreAdvertize \/ (\E c \in Conns : CoreCloseResolving(c))
  BY <1>5, RelayStays DEF CoreAdvertize, CoreCloseResolving, Goto, Aborts
<1>6. CASE CoreReturn
  BY <1>6, RelayStays DEF CoreReturn, SameResets, BeingReset, Aborts
<1>7. CASE DnsIdle \/ Wld \/ Select
  BY <1>7, RelayStays DEF DnsIdle, Wld, Select, Goto, CallCore, SameResets, BeingReset, Aborts
<1>8. ASSUME NEW r \in Relays, DnsRelay(r) PROVE RelayInv'
  <2>1. /\ pc = "dns" /\ RelayTask(r) \in dns /\ dns' = dns \ {RelayTask(r)}
        /\ \A q \in Relays : ~BeingReset(q)
    BY <1>8 DEF DnsRelay, BeingReset
  <2>2. relay[r].st = "resolving" /\ relay[r].fd = NoFd
    BY <2>1 DEF RelayInv, IdleRelays, RelaysWait, Aborts
  <2>3. CASE OpenRelay(r)
    BY <2>1, <2>3, OpenedRelay, RelayChanges DEF Aborts
  <2>4. CASE relay' = [relay EXCEPT ![r].st = "wait"]
    <3> DEFINE k == [relay[r] EXCEPT !.st = "wait"]
    <3>1. k \in RelayClient /\ k.st = "wait" /\ k.fd = NoFd
      BY <2>2, Records DEF TypeOK, RelayStates, RelayClient
    <3>2. relay' = [relay EXCEPT ![r] = k]
      BY <2>4 DEF TypeOK
    <3> HIDE DEF k
    <3> QED
      BY <2>1, <3>1, <3>2, RelayChanges DEF Aborts
  <2> QED
    BY <1>8, <2>3, <2>4 DEF DnsRelay
<1>9. ASSUME NEW c \in Conns, DnsConn(c) PROVE RelayInv'
  <2>1. UNCHANGED relay /\ \A r \in Relays : RelayTask(r) \in dns' => RelayTask(r) \in dns
    BY <1>9 DEF DnsConn
  <2>2. pc' \in Aborts \/ (pc \notin Aborts /\ SameResets)
    BY <1>9 DEF DnsConn, OpenConnection, Goto, CallCore, SameResets, BeingReset, Aborts
  <2> QED
    BY <2>1, <2>2, RelayStays
<1>10. ASSUME NEW r \in Relays, RelaySkip(r) PROVE RelayInv'
  BY <1>10, RelayStays DEF RelaySkip, NextRelay, MoveTo, SameResets, BeingReset, Aborts
<1>11. ASSUME NEW r \in Relays, RelayConnectDone(r) \/ RelayRead(r) PROVE RelayInv'
  <2>1. /\ pc = "relay" /\ cursor = r /\ dns' = dns
        /\ RelayWritable(r) \/ RelayReadable(r)
        /\ \A q \in Relays : ~BeingReset(q)
    BY <1>11 DEF RelayConnectDone, RelayRead, BeingReset
  <2>2. RelayTask(r) \notin dns /\ relay[r].fd # NoFd
    BY <2>1, ServedRelay
  <2>3. CASE UNCHANGED relay /\ (pc' \in Aborts \/ (pc' = "core" /\ resume' = "relayNext"))
    BY <2>1, <2>3, RelayStays DEF SameResets, BeingReset, Aborts
  <2>4. ASSUME NEW s \in {"open", "wait"}, relay' = [relay EXCEPT ![r].st = s],
               s = "wait" => BeingReset(r)'
        PROVE  RelayInv'
    <3> DEFINE k == [relay[r] EXCEPT !.st = s]
    <3>1. k \in RelayClient /\ k.st = s
      BY Records DEF TypeOK, RelayStates, RelayClient
    <3>2. relay' = [relay EXCEPT ![r] = k]
      BY <2>4 DEF TypeOK
    <3> HIDE DEF k
    <3> QED
      BY <2>1, <2>2, <2>4, <3>1, <3>2, RelayChanges DEF Aborts
  <2>5. DropRelay(r) => relay' = [relay EXCEPT ![r].st = "wait"] /\ BeingReset(r)'
    BY <2>1 DEF DropRelay, CallCore, BeingReset
  <2>6. \/ UNCHANGED relay /\ (pc' \in Aborts \/ (pc' = "core" /\ resume' = "relayNext"))
        \/ relay' = [relay EXCEPT ![r].st = "open"]
        \/ DropRelay(r)
    <3>1. CASE RelayConnectDone(r)
      <4>1. \/ UNCHANGED relay /\ Goto("abortGetsockopt")
            \/ relay' = [relay EXCEPT ![r].st = "open"]
            \/ DropRelay(r)
        BY <3>1, Zenon DEF RelayConnectDone
      <4>2. Goto("abortGetsockopt") => pc' \in Aborts
        BY DEF Goto, Aborts
      <4> QED
        BY <4>1, <4>2
    <3>2. CASE RelayRead(r)
      BY <3>2 DEF RelayRead, CallCore
    <3> QED
      BY <1>11, <3>1, <3>2
  <2> QED
    BY <2>3, <2>4, <2>5, <2>6
<1>12. CASE RelayClosed
  <2>1. /\ pc = "relayClosed" /\ relay' = [relay EXCEPT ![cursor].fd = NoFd] /\ dns' = dns
        /\ pc' \notin Aborts
    BY <1>12 DEF RelayClosed, NextRelay, MoveTo, Aborts
  <2>2. \A q \in Relays : relay'[q].st = relay[q].st
    BY <2>1 DEF TypeOK, RelayClient
  <2>3. \A q \in Relays : relay'[q].fd = IF q = cursor THEN NoFd ELSE relay[q].fd
    BY <2>1 DEF TypeOK, RelayClient
  <2>4. \A q \in Relays : BeingReset(q) => q = cursor
    BY DEF BeingReset
  <2> QED
    BY <2>1, <2>2, <2>3, <2>4 DEF RelayInv, RelaysWait, ResolvingIdle, IdleRelays, Aborts
<1>13. CASE RelayDone \/ ConnDone
  BY <1>13, RelayStays
     DEF RelayDone, ConnDone, NextRelay, NextConn, MoveTo, SameResets, BeingReset, Aborts
<1>14. ASSUME NEW c \in Conns, ConnSkip(c) \/ ConnRead(c) \/ ConnWrite(c) PROVE RelayInv'
  <2>1. pc \notin {"core", "relayClosed"} \cup Aborts /\ UNCHANGED <<relay, dns>>
    BY <1>14 DEF ConnSkip, ConnRead, ConnWrite, Aborts
  <2>2. pc' # "relayClosed" /\ (pc' = "core" => resume' # "relayClosed")
    BY <1>14 DEF ConnSkip, ConnRead, ConnWrite, NextConn, MoveTo, Goto, CallCore
  <2> QED
    BY <2>1, <2>2, RelayStays DEF SameResets, BeingReset
<1>15. ASSUME NEW c \in Conns, Accept(c) PROVE RelayInv'
  BY <1>15, RelayStays DEF Accept, CallCore, SameResets, BeingReset, Aborts
<1>16. CASE AcceptNone \/ AcceptRefuse
  BY <1>16, RelayStays DEF AcceptNone, AcceptRefuse, Goto, SameResets, BeingReset, Aborts
<1>17. CASE Events \/ Periodic \/ Ipc
  BY <1>17, RelayStays
     DEF Events, Periodic, Ipc, Turn, Goto, CallCore, SameResets, BeingReset, Aborts
<1> QED
  BY <1>1, <1>2, <1>3, <1>4, <1>5, <1>6, <1>7, <1>8, <1>9, <1>10, <1>11, <1>12, <1>13,
     <1>14, <1>15, <1>16, <1>17 DEF Next, Core, Loop, Aborted

LEMMA RelayInvHolds == OrderlyRelays => (Spec => []RelayInv)
<1> SUFFICES ASSUME OrderlyRelays PROVE Spec => []RelayInv
  OBVIOUS
<1>1. Init => RelayInv
  BY DEF Init, RelayInv, RelaysWait, ResolvingIdle, IdleRelays
<1>2. TypeOK /\ RelayInv /\ [Next]_vars => RelayInv'
  BY RelayStep
<1> QED
  BY <1>1, <1>2, TypeCorrect, PTL DEF Spec

LEMMA SlotInvHolds == ~RelayClosable => (Spec => []SlotInv)
<1> SUFFICES ASSUME ~RelayClosable PROVE Spec => []SlotInv
  OBVIOUS
<1>1. Init => SlotInv
  BY DEF Init, SlotInv, FreeConn
<1>2. TypeOK /\ DescriptorsOwned /\ PassInv /\ SlotInv /\ [Next]_vars => SlotInv'
  BY SlotStep
<1>3. Spec => []DescriptorsOwned
  BY OwnershipHolds
<1>4. Spec => []PassInv
  BY PassHolds
<1> QED
  BY <1>1, <1>2, <1>3, <1>4, TypeCorrect, PTL DEF Spec

\* The resolver works only for slots and relays that still wait for it, however
\* many there are: an answer never opens what was closed or opened meanwhile.
THEOREM LookupsCurrent == OrderlyRelays => (Spec => []LookupCurrent)
<1> SUFFICES ASSUME OrderlyRelays PROVE Spec => []LookupCurrent
  OBVIOUS
<1>1. SlotInv /\ RelayInv => LookupCurrent
  BY DEF SlotInv, RelayInv, RelaysWait, LookupCurrent
<1>2. Spec => []SlotInv
  BY SlotInvHolds DEF OrderlyRelays
<1>3. Spec => []RelayInv
  BY RelayInvHolds
<1> QED
  BY <1>1, <1>2, <1>3, PTL

\* Nothing new is open, and nobody gives up what stays open.
LEMMA HeldStays ==
  ASSUME OpenImpliesHeld, open' \subseteq open,
         \A c \in Conns : conn[c].fd \in open' => conn'[c].fd = conn[c].fd,
         \A r \in Relays : RelayHolds(r) /\ relay[r].fd \in open'
           => RelayHolds(r)' /\ relay'[r].fd = relay[r].fd
  PROVE  OpenImpliesHeld'
  BY DEF OpenImpliesHeld

\* Steps that disturb neither slots nor relays.
LEMMA HeldUntouched ==
  ASSUME OpenImpliesHeld, UNCHANGED <<conn, relay, open>>,
         pc' \in Aborts \/ SameResets
  PROVE  OpenImpliesHeld'
<1>1. \A r \in Relays : RelayHolds(r) => RelayHolds(r)'
  BY DEF RelayHolds, SameResets, BeingReset, Aborts
<1> QED
  BY <1>1, HeldStays

\* A slot without a descriptor gets the one that was opened.
LEMMA HeldConnOpened ==
  ASSUME TypeOK, OpenImpliesHeld, UNCHANGED relay, pc' \in Aborts \/ SameResets,
         NEW c \in Conns, conn[c].fd = NoFd, NEW s \in ConnStates, NEW fd \in Fds,
         open' = open \cup {fd}, conn' = [conn EXCEPT ![c] = [st |-> s, fd |-> fd]]
  PROVE  OpenImpliesHeld'
<1>1. \A d \in Conns : conn'[d].fd = IF d = c THEN fd ELSE conn[d].fd
  BY DEF TypeOK
<1>2. \A r \in Relays : RelayHolds(r) => RelayHolds(r)'
  BY DEF RelayHolds, SameResets, BeingReset, Aborts
<1>3. NoFd \notin open
  BY DEF TypeOK, Fds, NoFd
<1> QED
  BY <1>1, <1>2, <1>3 DEF OpenImpliesHeld

\* A slot gives up its descriptor, which is closed, or has none.
LEMMA HeldConnReleased ==
  ASSUME TypeOK, OpenImpliesHeld, UNCHANGED relay, SameResets,
         NEW c \in Conns, Release(c),
         open' = open \ {conn[c].fd} \/ (open' = open /\ conn[c].fd = NoFd)
  PROVE  OpenImpliesHeld'
<1>1. \A d \in Conns : d # c => conn'[d] = conn[d]
  BY DEF TypeOK, Release
<1>2. \A r \in Relays : RelayHolds(r) => RelayHolds(r)'
  BY DEF RelayHolds, SameResets
<1>3. conn[c].fd \notin open' /\ open' \subseteq open
  BY DEF TypeOK, Fds, NoFd
<1> QED
  BY <1>1, <1>2, <1>3, HeldStays

\* Only the state of a slot changes.
LEMMA HeldConnState ==
  ASSUME TypeOK, OpenImpliesHeld, UNCHANGED <<relay, open>>, SameResets,
         NEW c \in Conns, NEW s \in ConnStates, conn' = [conn EXCEPT ![c].st = s]
  PROVE  OpenImpliesHeld'
<1>1. \A d \in Conns : conn'[d].fd = conn[d].fd
  BY DEF TypeOK, ConnContext
<1>2. \A r \in Relays : RelayHolds(r) => RelayHolds(r)'
  BY DEF RelayHolds, SameResets
<1> QED
  BY <1>1, <1>2, HeldStays

\* A relay without a descriptor gets the one that was opened.
LEMMA HeldRelayOpened ==
  ASSUME TypeOK, OrderlyRelays, OpenImpliesHeld, UNCHANGED conn, SameResets,
         NEW r \in Relays, relay[r].fd = NoFd, ~BeingReset(r), OpenRelay(r)
  PROVE  OpenImpliesHeld'
<1>1. PICK k \in RelayClient :
        /\ relay' = [relay EXCEPT ![r] = k]
        /\ \/ k.st = "wait" /\ k.fd = NoFd /\ open' = open
           \/ k.st = "connecting" /\ k.fd \in Fds /\ open' = open \cup {k.fd}
  BY OpenedRelay
<1>2. \A q \in Relays : relay'[q] = IF q = r THEN k ELSE relay[q]
  BY <1>1 DEF TypeOK
<1>3. \A q \in Relays : q # r /\ RelayHolds(q) => RelayHolds(q)'
  BY <1>2 DEF RelayHolds, SameResets
<1>4. k.fd # NoFd => RelayHolds(r)'
  BY <1>2 DEF RelayHolds, SameResets
<1>5. NoFd \notin open /\ NoFd \notin Fds
  BY DEF TypeOK, Fds, NoFd
<1> QED
  BY <1>1, <1>2, <1>3, <1>4, <1>5 DEF OpenImpliesHeld

\* Only the state of a relay changes.
LEMMA HeldRelayState ==
  ASSUME TypeOK, OpenImpliesHeld, UNCHANGED <<conn, open>>, SameResets,
         NEW r \in Relays, NEW s \in RelayStates, relay' = [relay EXCEPT ![r].st = s]
  PROVE  OpenImpliesHeld'
<1>1. \A q \in Relays : relay'[q].fd = relay[q].fd
  BY DEF TypeOK, RelayClient
<1>2. \A q \in Relays : RelayHolds(q) => RelayHolds(q)'
  BY <1>1 DEF RelayHolds, SameResets
<1> QED
  BY <1>1, <1>2, HeldStays

\* A relay's descriptor is closed before the relay is reset.
LEMMA HeldRelayDropped ==
  ASSUME TypeOK, OpenImpliesHeld, UNCHANGED conn,
         NEW r \in Relays, pc = "relay", cursor = r, DropRelay(r)
  PROVE  OpenImpliesHeld'
<1>1. \A q \in Relays : relay'[q].fd = relay[q].fd
  BY DEF DropRelay, TypeOK, RelayClient
<1>2. \A q \in Relays : RelayHolds(q) /\ q # r => RelayHolds(q)'
  BY <1>1 DEF RelayHolds, BeingReset, DropRelay, CallCore
<1>3. relay[r].fd \notin open' /\ open' \subseteq open
  BY DEF DropRelay
<1> QED
  BY <1>1, <1>2, <1>3, HeldStays

\* Every step keeps OpenImpliesHeld.
LEMMA HeldStep ==
  ASSUME TypeOK, OrderlyRelays, DescriptorsOwned, PassInv, SlotInv, RelayInv,
         OpenImpliesHeld, [Next]_vars
  PROVE  OpenImpliesHeld'
<1>1. CASE UNCHANGED vars
  BY <1>1, HeldUntouched DEF vars, SameResets, BeingReset
<1>2. ASSUME NEW c \in Conns, CoreOpen(c) PROVE OpenImpliesHeld'
  <2>1. conn[c].fd = NoFd
    BY <1>2 DEF CoreOpen, SlotInv
  <2>2. CASE pc' \in Aborts /\ UNCHANGED <<conn, relay, open>>
    BY <2>2, HeldUntouched
  <2>3. ASSUME NEW fd \in Fds, NEW s \in ConnStates, open' = open \cup {fd},
               conn' = [conn EXCEPT ![c] = [st |-> s, fd |-> fd]]
        PROVE  OpenImpliesHeld'
    <3>1. (pc' \in Aborts \/ SameResets) /\ UNCHANGED relay
      BY <1>2, <2>3
         DEF CoreOpen, OpenConnection, loopVars, SameResets, BeingReset, Goto, Aborts
    <3> QED
      BY <2>1, <2>3, <3>1, HeldConnOpened
  <2> QED
    BY <1>2, <2>2, <2>3, ConstantsAssumption
       DEF CoreOpen, OpenConnection, Goto, Aborts, Outcomes, ConnStates
<1>3. ASSUME NEW c \in Conns, CoreOpenDns(c) PROVE OpenImpliesHeld'
  BY <1>3, HeldConnState DEF CoreOpenDns, ConnStates, loopVars, SameResets, BeingReset
<1>4. ASSUME NEW c \in Conns, CoreClose(c) PROVE OpenImpliesHeld'
  BY <1>4, HeldConnReleased DEF CoreClose, CloseConnection, loopVars, SameResets, BeingReset
<1>5. ASSUME NEW r \in Relays, CoreRelayOpen(r) PROVE OpenImpliesHeld'
  <2>1. SameResets /\ ~BeingReset(r) /\ UNCHANGED conn /\ pc \notin Aborts
    BY <1>5 DEF CoreRelayOpen, loopVars, SameResets, BeingReset, Aborts
  <2>2. relay[r].fd = NoFd
    BY <1>5, <2>1 DEF CoreRelayOpen, RelayInv, IdleRelays
  <2>3. CASE OpenRelay(r)
    BY <2>1, <2>2, <2>3, HeldRelayOpened
  <2>4. CASE relay' = [relay EXCEPT ![r].st = "resolving"] /\ open' = open
    BY <2>1, <2>4, HeldRelayState DEF RelayStates
  <2>5. CASE relay' = [relay EXCEPT ![r].st = "wait"] /\ open' = open
    BY <2>1, <2>5, HeldRelayState DEF RelayStates
  <2> QED
    BY <1>5, <2>3, <2>4, <2>5 DEF CoreRelayOpen
<1>6. ASSUME NEW r \in Relays PROVE ~CoreRelayClose(r)
  BY DEF CoreRelayClose, OrderlyRelays
<1>7. CASE CoreAdvertize \/ (\E c \in Conns : CoreCloseResolving(c))
  BY <1>7, HeldUntouched DEF CoreAdvertize, CoreCloseResolving, Goto, Aborts
<1>8. CASE CoreReturn
  BY <1>8, HeldUntouched DEF CoreReturn, SameResets, BeingReset
<1>9. CASE DnsIdle \/ Wld \/ Select
  BY <1>9, HeldUntouched DEF DnsIdle, Wld, Select, Goto, CallCore, SameResets, BeingReset
<1>10. ASSUME NEW r \in Relays, DnsRelay(r) PROVE OpenImpliesHeld'
  <2>1. pc = "dns" /\ relay[r].st = "resolving" /\ UNCHANGED conn
    BY <1>10 DEF DnsRelay, RelayInv, RelaysWait
  <2>2. SameResets /\ ~BeingReset(r)
    BY <1>10 DEF DnsRelay, Goto, CallCore, SameResets, BeingReset
  <2>3. relay[r].fd = NoFd
    BY <2>1, <2>2 DEF RelayInv, IdleRelays, Aborts
  <2>4. CASE OpenRelay(r)
    BY <2>1, <2>2, <2>3, <2>4, HeldRelayOpened
  <2>5. CASE relay' = [relay EXCEPT ![r].st = "wait"] /\ open' = open
    BY <2>1, <2>2, <2>5, HeldRelayState DEF RelayStates
  <2> QED
    BY <1>10, <2>4, <2>5 DEF DnsRelay
<1>11. ASSUME NEW c \in Conns, DnsConn(c) PROVE OpenImpliesHeld'
  <2>1. pc = "dns" /\ conn[c].fd = NoFd /\ UNCHANGED relay
    BY <1>11 DEF DnsConn, SlotInv
  <2>2. SameResets
    BY <1>11 DEF DnsConn, OpenConnection, Goto, CallCore, SameResets, BeingReset
  <2>3. CASE UNCHANGED <<conn, open>>
    BY <2>1, <2>2, <2>3, HeldUntouched
  <2>4. CASE Release(c) /\ UNCHANGED open
    BY <2>1, <2>2, <2>4, HeldConnReleased
  <2>5. ASSUME NEW fd \in Fds, NEW s \in ConnStates, open' = open \cup {fd},
               conn' = [conn EXCEPT ![c] = [st |-> s, fd |-> fd]]
        PROVE  OpenImpliesHeld'
    BY <2>1, <2>2, <2>5, HeldConnOpened
  <2>6. CASE OpenConnection(c, Goto("select"), CallCore("select"))
    <3>1. OpenConnection(c, TRUE, TRUE)
      BY <2>6, Zenon DEF OpenConnection
    <3>2. CASE open = Fds /\ UNCHANGED <<conn, open>>
      BY <2>3, <3>2
    <3>3. CASE \E fd \in Fds, s \in ConnStates :
                 /\ open' = open \cup {fd}
                 /\ conn' = [conn EXCEPT ![c] = [st |-> s, fd |-> fd]]
      BY <2>5, <3>3
    <3> QED
      BY <3>1, <3>2, <3>3, OpenConnectionChoice
  <2> QED
    BY <1>11, <2>4, <2>6 DEF DnsConn
<1>12. ASSUME NEW r \in Relays, RelaySkip(r) PROVE OpenImpliesHeld'
  BY <1>12, HeldUntouched DEF RelaySkip, NextRelay, MoveTo, SameResets, BeingReset
<1>13. ASSUME NEW r \in Relays, RelayConnectDone(r) \/ RelayRead(r) PROVE OpenImpliesHeld'
  <2>1. pc = "relay" /\ cursor = r /\ UNCHANGED conn
    BY <1>13 DEF RelayConnectDone, RelayRead
  <2>2. CASE DropRelay(r)
    BY <2>1, <2>2, HeldRelayDropped
  <2>3. CASE UNCHANGED <<relay, open>> /\ Goto("abortGetsockopt")
    BY <2>1, <2>3, HeldUntouched DEF Goto, Aborts
  <2>4. CASE UNCHANGED <<relay, open>> /\ CallCore("relayNext")
    BY <2>1, <2>4, HeldUntouched DEF CallCore, SameResets, BeingReset
  <2>5. CASE /\ relay' = [relay EXCEPT ![r].st = "open"]
             /\ CallCore("relayNext") /\ UNCHANGED open
    BY <2>1, <2>5, HeldRelayState DEF CallCore, RelayStates, SameResets, BeingReset
  <2> QED
    BY <1>13, <2>2, <2>3, <2>4, <2>5, Zenon DEF RelayConnectDone, RelayRead
<1>14. CASE RelayClosed
  <2>1. pc = "relayClosed" /\ UNCHANGED <<conn, open>>
    BY <1>14 DEF RelayClosed
  <2>2. \A q \in Relays : q # cursor => relay'[q] = relay[q]
    BY <1>14 DEF RelayClosed, TypeOK
  <2>3. \A q \in Relays : RelayHolds(q) => q # cursor
    BY <2>1 DEF RelayHolds, BeingReset
  <2>4. \A q \in Relays : ~BeingReset(q)'
    BY <1>14 DEF RelayClosed, NextRelay, MoveTo, BeingReset
  <2> QED
    BY <2>1, <2>2, <2>3, <2>4, HeldStays DEF RelayHolds
<1>15. CASE RelayDone \/ ConnDone
  BY <1>15, HeldUntouched
     DEF RelayDone, ConnDone, NextRelay, NextConn, MoveTo, SameResets, BeingReset
<1>16. ASSUME NEW c \in Conns, ConnSkip(c) \/ ConnRead(c) \/ ConnWrite(c)
       PROVE  OpenImpliesHeld'
  <2>1. pc \notin {"core", "relayClosed"} /\ UNCHANGED relay
    BY <1>16 DEF ConnSkip, ConnRead, ConnWrite
  <2>2. SameResets
    <3>1. pc' # "relayClosed" /\ (pc' = "core" => resume' # "relayClosed")
      BY <1>16 DEF ConnSkip, ConnRead, ConnWrite, NextConn, MoveTo, Goto, CallCore
    <3> QED
      BY <2>1, <3>1 DEF SameResets, BeingReset
  <2>3. CASE UNCHANGED <<conn, open>>
    BY <2>1, <2>2, <2>3, HeldUntouched
  <2>4. CASE CloseConnection(c)
    BY <2>1, <2>2, <2>4, HeldConnReleased DEF CloseConnection
  <2>5. CASE conn' = [conn EXCEPT ![c].st = "connected"] /\ UNCHANGED open
    BY <2>1, <2>2, <2>5, HeldConnState DEF ConnStates
  <2> QED
    BY <1>16, <2>3, <2>4, <2>5, Zenon DEF ConnSkip, ConnRead, ConnWrite
<1>17. ASSUME NEW c \in Conns, Accept(c) PROVE OpenImpliesHeld'
  <2>1. conn[c].fd = NoFd /\ UNCHANGED relay
    BY <1>17 DEF Accept, SlotInv
  <2>2. SameResets
    BY <1>17 DEF Accept, CallCore, SameResets, BeingReset
  <2>3. PICK fd \in Fds : /\ open' = open \cup {fd}
                          /\ conn' = [conn EXCEPT ![c] = [st |-> "connected", fd |-> fd]]
    BY <1>17 DEF Accept
  <2> QED
    BY <2>1, <2>2, <2>3, HeldConnOpened DEF ConnStates
<1>18. CASE AcceptNone \/ AcceptRefuse
  BY <1>18, HeldUntouched DEF AcceptNone, AcceptRefuse, Goto, SameResets, BeingReset
<1>19. CASE Events \/ Periodic \/ Ipc
  BY <1>19, HeldUntouched
     DEF Events, Periodic, Ipc, Turn, Goto, CallCore, SameResets, BeingReset
<1> QED
  BY <1>1, <1>2, <1>3, <1>4, <1>5, <1>6, <1>7, <1>8, <1>9, <1>10, <1>11, <1>12, <1>13,
     <1>14, <1>15, <1>16, <1>17, <1>18, <1>19 DEF Next, Core, Loop, Aborted

\* No descriptor is leaked: however long the loop runs, and however the core and
\* the peers behave, what is open is held by a slot or a relay.
THEOREM NothingLeaks == OrderlyRelays => (Spec => []OpenImpliesHeld)
<1> SUFFICES ASSUME OrderlyRelays PROVE Spec => []OpenImpliesHeld
  OBVIOUS
<1>1. Init => OpenImpliesHeld
  BY DEF Init, OpenImpliesHeld
<1>2. TypeOK /\ DescriptorsOwned /\ PassInv /\ SlotInv /\ RelayInv /\ OpenImpliesHeld
        /\ [Next]_vars => OpenImpliesHeld'
  BY HeldStep
<1>3. ~RelayClosable
  BY DEF OrderlyRelays
<1>4. Spec => []DescriptorsOwned
  BY <1>3, OwnershipHolds
<1>5. Spec => []PassInv
  BY <1>3, PassHolds
<1>6. Spec => []SlotInv
  BY <1>3, SlotInvHolds
<1>7. Spec => []RelayInv
  BY RelayInvHolds
<1> QED
  BY <1>1, <1>2, <1>4, <1>5, <1>6, <1>7, TypeCorrect, PTL DEF Spec

-----------------------------------------------------------------------------
(* What comments and assertions of the code say, and what makes them true.   *)

\* The comment on a resolving relay is true of a port in which the core closes no
\* relay itself and connect() of a relay does not fail at once: the number that
\* is "not valid" is no open descriptor's.
THEOREM ResolvingRelaysIdle == OrderlyRelays => (Spec => []ResolvingRelayHasNoSocket)
<1> SUFFICES ASSUME OrderlyRelays PROVE Spec => []ResolvingRelayHasNoSocket
  OBVIOUS
<1>1. TypeOK /\ RelayInv => ResolvingRelayHasNoSocket
  BY DEF TypeOK, Fds, NoFd, RelayInv, ResolvingIdle, ResolvingRelayHasNoSocket
<1>2. Spec => []RelayInv
  BY RelayInvHolds
<1> QED
  BY <1>1, <1>2, TypeCorrect, PTL

\* A step that changes no slot's state to "resolving" and ends no lookup of one.
LEMMA LookupStays ==
  ASSUME ResolvingHasLookup, pc \notin Aborts,
         \A c \in Conns : conn'[c].st = "resolving" => conn[c].st = "resolving",
         \A c \in Conns : ConnTask(c) \in dns => ConnTask(c) \in dns'
  PROVE  ResolvingHasLookup'
  BY DEF ResolvingHasLookup

\* What opening a connection makes of its slot, when connect() does not fail.
LEMMA OpenedConnection ==
  ASSUME TypeOK, "error" \notin ConnectResults, NEW c \in Conns, OpenConnection(c, TRUE, TRUE)
  PROVE  \/ open = Fds /\ UNCHANGED <<conn, open>>
         \/ \E fd \in Fds, s \in {"connecting", "connected"} :
              /\ "inprogress" \notin ConnectResults => s = "connected"
              /\ "immediate" \notin ConnectResults => s = "connecting"
              /\ conn' = [conn EXCEPT ![c] = [st |-> s, fd |-> fd]]
  BY ConstantsAssumption DEF OpenConnection, Outcomes

\* Every step keeps ResolvingHasLookup, if connect() does not fail at once.
LEMMA LookupStep ==
  ASSUME TypeOK, "error" \notin ConnectResults, ResolvingHasLookup, [Next]_vars
  PROVE  ResolvingHasLookup'
<1>1. CASE UNCHANGED vars
  BY <1>1 DEF vars, ResolvingHasLookup
<1>2. CASE pc \in Aborts
  BY <1>1, <1>2 DEF ResolvingHasLookup, Next, Core, Loop, Aborted, Aborts,
     CoreOpen, CoreOpenDns, CoreClose, CoreRelayOpen, CoreRelayClose, CoreAdvertize, CoreCloseResolving,
     CoreReturn,
     DnsIdle, Select, Wld, RelayClosed, RelayDone, ConnDone, AcceptNone, AcceptRefuse,
     Events, Periodic, Ipc, Turn, DnsRelay, RelaySkip, RelayConnectDone, RelayRead,
     DnsConn, ConnSkip, ConnRead, ConnWrite, Accept
<1> SUFFICES ASSUME Next, pc \notin Aborts PROVE ResolvingHasLookup'
  BY <1>1, <1>2
<1>3. CASE UNCHANGED <<conn, dns>>
  BY <1>3, LookupStays
<1>4. ASSUME NEW c \in Conns, NEW k \in ConnContext, k.st # "resolving", dns' = dns,
             conn' = [conn EXCEPT ![c] = k]
      PROVE  ResolvingHasLookup'
  BY <1>4, LookupStays DEF TypeOK
<1>5. FreeConn \in ConnContext /\ FreeConn.st # "resolving"
  BY Records DEF FreeConn, ConnStates
<1>6. ASSUME NEW c \in Conns, CoreOpen(c) PROVE ResolvingHasLookup'
  <2>1. OpenConnection(c, TRUE, TRUE) /\ dns' = dns
    BY <1>6, Zenon DEF CoreOpen, OpenConnection
  <2>2. ASSUME NEW fd \in Fds, NEW s \in {"connecting", "connected"},
               conn' = [conn EXCEPT ![c] = [st |-> s, fd |-> fd]]
        PROVE  ResolvingHasLookup'
    BY <1>4, <2>1, <2>2, Records DEF ConnStates
  <2> QED
    BY <1>3, <2>1, <2>2, OpenedConnection
<1>7. ASSUME NEW c \in Conns, CoreOpenDns(c) PROVE ResolvingHasLookup'
  <2>1. dns' = dns \cup {ConnTask(c)}
    BY <1>7 DEF CoreOpenDns
  <2>2. \A d \in Conns : conn'[d].st = IF d = c THEN "resolving" ELSE conn[d].st
    BY <1>7 DEF CoreOpenDns, TypeOK, ConnContext
  <2> QED
    BY <2>1, <2>2 DEF ResolvingHasLookup
<1>8. ASSUME NEW c \in Conns, CoreClose(c) PROVE ResolvingHasLookup'
  BY <1>4, <1>5, <1>8 DEF CoreClose, CloseConnection, Release
<1>9. ASSUME NEW r \in Relays, CoreRelayOpen(r) PROVE ResolvingHasLookup'
  BY <1>9, LookupStays DEF CoreRelayOpen
<1>10. ASSUME NEW r \in Relays, CoreRelayClose(r) PROVE ResolvingHasLookup'
  BY <1>3, <1>10 DEF CoreRelayClose
<1>11. CASE CoreReturn \/ CoreAdvertize \/ DnsIdle \/ Wld \/ Select
            \/ (\E c \in Conns : CoreCloseResolving(c))
  BY <1>3, <1>11 DEF CoreReturn, CoreAdvertize, CoreCloseResolving, DnsIdle, Wld, Select
<1>12. ASSUME NEW r \in Relays, DnsRelay(r) PROVE ResolvingHasLookup'
  <2>1. \A c \in Conns : ConnTask(c) # RelayTask(r)
    BY DEF ConnTask, RelayTask
  <2>2. dns' = dns \ {RelayTask(r)} /\ UNCHANGED conn
    BY <1>12 DEF DnsRelay
  <2> QED
    BY <2>1, <2>2, LookupStays
<1>13. ASSUME NEW c \in Conns, DnsConn(c) PROVE ResolvingHasLookup'
  <2>1. dns' = dns \ {ConnTask(c)} /\ \A d \in Conns \ {c} : ConnTask(d) # ConnTask(c)
    BY <1>13 DEF DnsConn, ConnTask
  <2>2. ASSUME NEW k \in ConnContext, k.st # "resolving", conn' = [conn EXCEPT ![c] = k]
        PROVE  ResolvingHasLookup'
    BY <2>1, <2>2 DEF ResolvingHasLookup, TypeOK
  <2>3. CASE Release(c)
    BY <1>5, <2>2, <2>3 DEF Release
  <2>4. CASE OpenConnection(c, Goto("select"), CallCore("select"))
    <3>1. CASE open = Fds
      BY <2>4, <3>1 DEF OpenConnection, IsLowestFree, Goto, Aborts, ResolvingHasLookup
    <3>2. OpenConnection(c, TRUE, TRUE)
      BY <2>4, Zenon DEF OpenConnection
    <3>3. ASSUME NEW fd \in Fds, NEW s \in {"connecting", "connected"},
                 conn' = [conn EXCEPT ![c] = [st |-> s, fd |-> fd]]
          PROVE  ResolvingHasLookup'
      BY <2>2, <3>3, Records DEF ConnStates
    <3> QED
      BY <3>1, <3>2, <3>3, OpenedConnection
  <2> QED
    BY <1>13, <2>3, <2>4 DEF DnsConn
<1>14. ASSUME NEW r \in Relays, RelaySkip(r) \/ RelayConnectDone(r) \/ RelayRead(r)
       PROVE  ResolvingHasLookup'
  BY <1>3, <1>14 DEF RelaySkip, RelayConnectDone, RelayRead
<1>15. CASE RelayClosed \/ RelayDone \/ ConnDone \/ AcceptNone \/ AcceptRefuse
  BY <1>3, <1>15 DEF RelayClosed, RelayDone, ConnDone, AcceptNone, AcceptRefuse
<1>16. ASSUME NEW c \in Conns, ConnSkip(c) PROVE ResolvingHasLookup'
  BY <1>3, <1>16 DEF ConnSkip
<1>17. ASSUME NEW c \in Conns, ConnRead(c) PROVE ResolvingHasLookup'
  BY <1>3, <1>4, <1>5, <1>17 DEF ConnRead, CloseConnection, Release
<1>18. ASSUME NEW c \in Conns, ConnWrite(c) PROVE ResolvingHasLookup'
  <2>1. CASE conn' = [conn EXCEPT ![c].st = "connected"]
    <3>1. \A d \in Conns : conn'[d].st = IF d = c THEN "connected" ELSE conn[d].st
      BY <2>1 DEF TypeOK, ConnContext
    <3>2. dns' = dns
      BY <1>18 DEF ConnWrite
    <3> QED
      BY <3>1, <3>2, LookupStays
  <2> QED
    BY <1>3, <1>4, <1>5, <1>18, <2>1 DEF ConnWrite, CloseConnection, Release
<1>19. ASSUME NEW c \in Conns, Accept(c) PROVE ResolvingHasLookup'
  <2>1. dns' = dns /\ \E fd \in Fds : conn' = [conn EXCEPT ![c] = [st |-> "connected", fd |-> fd]]
    BY <1>19 DEF Accept
  <2> QED
    BY <1>4, <2>1, Records DEF ConnStates
<1>20. CASE Events \/ Periodic \/ Ipc
  BY <1>3, <1>20 DEF Events, Periodic, Ipc, Turn
<1> QED
  BY <1>1, <1>6, <1>7, <1>8, <1>9, <1>10, <1>11, <1>12, <1>13, <1>14, <1>15, <1>16, <1>17,
     <1>18, <1>19, <1>20, <1>3 DEF Next, Core, Loop, Aborted, vars

\* A connection in the resolving state is being resolved, so that an answer will
\* move it on, unless connect() failed at once after an earlier answer: that
\* errno is the only way to be stuck in that state.
THEOREM NobodyStuck == "error" \notin ConnectResults => (Spec => []ResolvingHasLookup)
<1> SUFFICES ASSUME "error" \notin ConnectResults PROVE Spec => []ResolvingHasLookup
  OBVIOUS
<1>1. Init => ResolvingHasLookup
  BY DEF Init, FreeConn, ResolvingHasLookup
<1>2. TypeOK /\ ResolvingHasLookup /\ [Next]_vars => ResolvingHasLookup'
  BY LookupStep
<1> QED
  BY <1>1, <1>2, TypeCorrect, PTL DEF Spec

\* Where the loop is, and the slots its connection pass is done with.
Place == IF pc = "core" THEN resume ELSE pc
Visited(c) ==
  \/ Place \in {"conn", "connW"} /\ c < cursor
  \/ Place = "connNext" /\ c <= cursor
  \/ Place = "accept"

\* A slot still to be visited whose descriptor select() reported writable waits
\* for that, even if the slot and the descriptor are both new.
ConnectsPending ==
  pc \notin Aborts => \A c \in Conns :
    ~Visited(c) /\ conn[c].fd \in wfds => conn[c].st = "connecting"
ConsistentInv == ConnectsPending /\ NeverInconsistent

\* The pass moves on, or the core does something, and what changes of a slot that
\* is still to be visited is at most that it starts connecting or gives up.
LEMMA ConnectsStay ==
  ASSUME TypeOK, ConnectsPending, pc \notin Aborts, wfds' \subseteq wfds,
         \A c \in Conns : Visited(c) => Visited(c)',
         \A c \in Conns : \/ conn'[c] = conn[c]
                          \/ conn'[c].st = "connecting" \/ conn'[c].fd = NoFd
                          \/ Visited(c)'
  PROVE  ConnectsPending'
<1>1. NoFd \notin wfds
  BY DEF TypeOK, Fds, NoFd
<1> QED
  BY <1>1 DEF ConnectsPending

\* Steps during which the loop stays where it is.
LEMMA ConnectsStayHere ==
  ASSUME TypeOK, ConsistentInv, pc \notin Aborts, wfds' \subseteq wfds,
         UNCHANGED <<pc, resume, cursor>>,
         \A c \in Conns : conn'[c] \in {conn[c], FreeConn} \/ conn'[c].st = "connecting"
                            \/ conn'[c].fd = NoFd
  PROVE  ConsistentInv'
<1>1. \A c \in Conns : Visited(c)' <=> Visited(c)
  BY DEF Visited, Place
<1>2. \A c \in Conns : conn'[c] = FreeConn => conn'[c].fd = NoFd
  BY DEF FreeConn
<1>3. NeverInconsistent'
  BY DEF ConsistentInv, NeverInconsistent
<1> QED
  BY <1>1, <1>2, <1>3, ConnectsStay DEF ConsistentInv

\* Every step keeps ConsistentInv, if connect() of a connection is never finished
\* at once and the core closes no relay itself.
LEMMA ConsistentStep ==
  ASSUME TypeOK, ConnectResults \subseteq {"inprogress"},
         LiveDescriptors, PassInv, ConsistentInv, [Next]_vars
  PROVE  ConsistentInv'
<1> USE DEF NeverInconsistent
<1>1. CASE UNCHANGED vars
  BY <1>1 DEF vars, ConsistentInv, ConnectsPending, Visited, Place
<1>2. CASE pc \in Aborts
  BY <1>1, <1>2 DEF Next, Core, Loop, Aborted, Aborts,
     CoreOpen, CoreOpenDns, CoreClose, CoreRelayOpen, CoreRelayClose, CoreAdvertize, CoreCloseResolving,
     CoreReturn,
     DnsIdle, Select, Wld, RelayClosed, RelayDone, ConnDone, AcceptNone, AcceptRefuse,
     Events, Periodic, Ipc, Turn, DnsRelay, RelaySkip, RelayConnectDone, RelayRead,
     DnsConn, ConnSkip, ConnRead, ConnWrite, Accept
<1> SUFFICES ASSUME Next, pc \notin Aborts PROVE ConsistentInv'
  BY <1>1, <1>2
<1>3. ConnectsPending
  BY DEF ConsistentInv
<1>4. CASE pc' \in Aborts \ {"abortInconsistent"}
  BY <1>4 DEF ConsistentInv, ConnectsPending
<1>5. CASE wfds' = {} /\ pc' # "abortInconsistent"
  BY <1>5 DEF ConsistentInv, ConnectsPending
<1>6. ASSUME UNCHANGED <<conn, wfds>>, \A c \in Conns : Visited(c) => Visited(c)',
             pc' # "abortInconsistent"
      PROVE  ConsistentInv'
  BY <1>3, <1>6, ConnectsStay DEF ConsistentInv
<1>7. ASSUME NEW c \in Conns, OpenConnection(c, TRUE, TRUE)
      PROVE  \A d \in Conns : conn'[d] = conn[d] \/ conn'[d].st = "connecting"
  <2>1. ASSUME NEW fd \in Fds, conn' = [conn EXCEPT ![c] = [st |-> "connecting", fd |-> fd]],
               NEW d \in Conns
        PROVE  conn'[d] = conn[d] \/ conn'[d].st = "connecting"
    BY <2>1 DEF TypeOK
  <2>2. "error" \notin ConnectResults /\ "immediate" \notin ConnectResults
    OBVIOUS
  <2> QED
    BY <1>7, <2>1, <2>2, OpenedConnection
<1>8. ASSUME NEW c \in Conns, CoreOpen(c) PROVE ConsistentInv'
  <2>1. OpenConnection(c, TRUE, TRUE) /\ wfds' = wfds
    BY <1>8, Zenon DEF CoreOpen, OpenConnection
  <2>2. pc' = "abortSocket" \/ UNCHANGED <<pc, resume, cursor>>
    BY <1>8 DEF CoreOpen, OpenConnection, Goto, loopVars
  <2> QED
    BY <1>4, <1>7, <2>1, <2>2, ConnectsStayHere DEF Aborts
<1>9. ASSUME NEW c \in Conns, CoreOpenDns(c) PROVE ConsistentInv'
  <2>1. \A d \in Conns : conn'[d].fd = conn[d].fd /\ (d # c => conn'[d] = conn[d])
    BY <1>9 DEF CoreOpenDns, TypeOK, ConnContext
  <2>2. UNCHANGED <<pc, resume, cursor, wfds>> /\ conn[c].st = "free"
    BY <1>9 DEF CoreOpenDns, loopVars
  <2>3. \A d \in Conns : Visited(d)' <=> Visited(d)
    BY <2>2 DEF Visited, Place
  <2> QED
    BY <2>1, <2>2, <2>3 DEF ConsistentInv, ConnectsPending
<1>10. ASSUME NEW c \in Conns, CoreClose(c) PROVE ConsistentInv'
  BY <1>10, ConnectsStayHere DEF CoreClose, CloseConnection, Release, TypeOK, loopVars
<1>11. ASSUME NEW r \in Relays, CoreRelayOpen(r) \/ CoreRelayClose(r) PROVE ConsistentInv'
  BY <1>11, ConnectsStayHere DEF CoreRelayOpen, CoreRelayClose, loopVars
<1>12. CASE CoreAdvertize \/ (\E c \in Conns : CoreCloseResolving(c))
  BY <1>4, <1>12 DEF CoreAdvertize, CoreCloseResolving, Goto, Aborts
<1>13. CASE CoreReturn
  BY <1>6, <1>13 DEF CoreReturn, TypeOK, Aborts, Visited, Place
<1>14. CASE DnsIdle \/ Wld
  BY <1>6, <1>14 DEF DnsIdle, Wld, Goto, CallCore, Visited, Place
<1>15. CASE Select
  <2>1. LiveOwned /\ UNCHANGED conn /\ pc = "select"
    BY <1>15 DEF Select, LiveDescriptors
  <2>2. \A c \in Conns : conn[c].fd \in PollWrite => conn[c].st = "connecting"
    <3> SUFFICES ASSUME NEW c \in Conns, conn[c].fd \in PollWrite
                 PROVE  conn[c].st = "connecting"
      OBVIOUS
    <3>1. ASSUME conn[c].fd \in RelayFds({"connecting"}) PROVE FALSE
      <4>1. PICK r \in Relays : relay[r].st = "connecting" /\ relay[r].fd = conn[c].fd
                                  /\ conn[c].fd # NoFd
        BY <3>1 DEF RelayFds
      <4> QED
        BY <2>1, <4>1 DEF LiveOwned, Live, ConnHolds
    <3>2. PICK d \in Conns : conn[d].st = "connecting" /\ conn[d].fd = conn[c].fd
      BY <3>1 DEF PollWrite, ConnFds
    <3> QED
      BY <2>1, <3>2 DEF LiveOwned, ConnHolds
  <2>3. wfds' \subseteq PollWrite \/ pc' = "abortSelect"
    BY <1>15 DEF Select
  <2>4. pc' # "abortInconsistent"
    BY <1>15 DEF Select
  <2> QED
    BY <1>4, <2>1, <2>2, <2>3, <2>4 DEF ConsistentInv, ConnectsPending, Aborts
<1>16. ASSUME NEW r \in Relays, DnsRelay(r) PROVE ConsistentInv'
  BY <1>6, <1>16 DEF DnsRelay, Goto, CallCore, Visited, Place
<1>17. ASSUME NEW c \in Conns, DnsConn(c) PROVE ConsistentInv'
  <2>1. pc = "dns" /\ wfds' = wfds /\ pc' # "abortInconsistent"
    BY <1>17 DEF DnsConn, OpenConnection, Goto, CallCore
  <2>2. \A d \in Conns : conn'[d] = conn[d] \/ conn'[d].st = "connecting" \/ conn'[d].fd = NoFd
    <3>1. CASE Release(c)
      BY <3>1 DEF Release, FreeConn, TypeOK
    <3>2. CASE OpenConnection(c, Goto("select"), CallCore("select"))
      <4>1. OpenConnection(c, TRUE, TRUE)
        BY <3>2, Zenon DEF OpenConnection
      <4> QED
        BY <1>7, <4>1
    <3> QED
      BY <1>17, <3>1, <3>2 DEF DnsConn
  <2>3. \A d \in Conns : ~Visited(d)
    BY <2>1 DEF Visited, Place
  <2> QED
    BY <1>3, <2>1, <2>2, <2>3, ConnectsStay DEF ConsistentInv
<1>18. ASSUME NEW r \in Relays, RelaySkip(r) \/ RelayConnectDone(r) \/ RelayRead(r)
       PROVE  ConsistentInv'
  <2>1. pc = "relay" /\ UNCHANGED <<conn, wfds>>
    BY <1>18 DEF RelaySkip, RelayConnectDone, RelayRead
  <2>2. pc' # "abortInconsistent"
    BY <1>18 DEF RelaySkip, RelayConnectDone, RelayRead, DropRelay, NextRelay, MoveTo,
                 Goto, CallCore
  <2>3. \A c \in Conns : ~Visited(c)
    BY <2>1 DEF Visited, Place
  <2> QED
    BY <1>6, <2>1, <2>2, <2>3
<1>19. CASE RelayClosed \/ RelayDone
  <2>1. pc \in {"relayClosed", "relayNext"} /\ UNCHANGED <<conn, wfds>> /\ pc' # "abortInconsistent"
    BY <1>19 DEF RelayClosed, RelayDone, NextRelay, MoveTo
  <2>2. \A c \in Conns : ~Visited(c)
    BY <2>1 DEF Visited, Place
  <2> QED
    BY <1>6, <2>1, <2>2
<1>20. ASSUME pc \in {"conn", "connW", "connNext"}, NextConn PROVE \A c \in Conns : Visited(c) => Visited(c)'
  BY <1>20 DEF NextConn, MoveTo, Visited, Place, Conns, TypeOK
<1>21. CASE ConnDone
  BY <1>6, <1>20, <1>21 DEF ConnDone, NextConn, MoveTo
<1>22. ASSUME NEW c \in Conns, ConnSkip(c) PROVE ConsistentInv'
  BY <1>6, <1>20, <1>22 DEF ConnSkip, NextConn, MoveTo
<1>23. ASSUME NEW c \in Conns, ConnRead(c) PROVE ConsistentInv'
  <2>1. \A d \in Conns : conn'[d] = conn[d] \/ conn'[d].fd = NoFd
    BY <1>23 DEF ConnRead, CloseConnection, Release, FreeConn, TypeOK
  <2>2. /\ pc = "conn" /\ UNCHANGED <<cursor, wfds>> /\ pc' # "abortInconsistent"
        /\ Place' \in {"connW", "connNext"}
    BY <1>23 DEF ConnRead, Place
  <2>3. \A d \in Conns : Visited(d) => Visited(d)'
    BY <2>2 DEF Visited, Place, Conns, TypeOK
  <2> QED
    BY <1>3, <2>1, <2>2, <2>3, ConnectsStay DEF ConsistentInv
<1>24. ASSUME NEW c \in Conns, ConnWrite(c) PROVE ConsistentInv'
  <2>1. pc = "connW" /\ cursor = c /\ wfds' = wfds
    BY <1>24 DEF ConnWrite
  <2>2. sockfd \in wfds => conn[c].st = "connecting"
    <3>1. ~Visited(c)
      BY <2>1 DEF Visited, Place, Conns
    <3> QED
      BY <1>3, <2>1, <3>1 DEF ConnectsPending, PassInv
  <2>3. CASE NextConn /\ UNCHANGED conn
    BY <1>6, <1>20, <2>1, <2>3 DEF NextConn, MoveTo
  <2>4. CASE Goto("abortGetsockopt")
    BY <1>4, <2>4 DEF Goto, Aborts
  <2>5. CASE CallCore("connNext") /\ \A d \in Conns \ {c} : conn'[d] = conn[d]
    <3>1. \A d \in Conns : Visited(d) => Visited(d)'
      BY <2>1, <2>5 DEF CallCore, Visited, Place, Conns
    <3>2. Visited(c)' /\ pc' # "abortInconsistent"
      BY <2>1, <2>5 DEF CallCore, Visited, Place, Conns
    <3> QED
      BY <1>3, <2>1, <2>5, <3>1, <3>2, ConnectsStay DEF ConsistentInv
  <2> QED
    BY <1>24, <2>2, <2>3, <2>4, <2>5 DEF ConnWrite, CloseConnection, Release, TypeOK
<1>25. ASSUME NEW c \in Conns, Accept(c) PROVE ConsistentInv'
  BY <1>5, <1>25 DEF Accept, EndOfPass, CallCore
<1>26. CASE AcceptNone \/ AcceptRefuse
  BY <1>5, <1>26 DEF AcceptNone, AcceptRefuse, EndOfPass, Goto
<1>27. CASE Events \/ Periodic \/ Ipc
  BY <1>6, <1>27 DEF Events, Periodic, Ipc, Turn, Goto, CallCore, Visited, Place
<1> QED
  BY <1>1, <1>2, <1>8, <1>9, <1>10, <1>11, <1>12, <1>13, <1>14, <1>15, <1>16, <1>17, <1>18,
     <1>19, <1>21, <1>22, <1>23, <1>24, <1>25, <1>26, <1>27 DEF Next, Core, Loop, Aborted

\* The assertion of the writable half is true of sockets whose connect() always
\* takes its time, although the core opens and closes slots within the pass and
\* numbers come back: only a connect() that ends at once can break it.
THEOREM AssertionHolds ==
  ~RelayClosable /\ ConnectResults \subseteq {"inprogress"} => (Spec => []NeverInconsistent)
<1> SUFFICES ASSUME ~RelayClosable, ConnectResults \subseteq {"inprogress"}
             PROVE  Spec => []NeverInconsistent
  OBVIOUS
<1>1. Init => ConsistentInv
  BY DEF Init, ConsistentInv, ConnectsPending, NeverInconsistent
<1>2. TypeOK /\ DescriptorsOwned /\ PassInv /\ ConsistentInv /\ [Next]_vars => ConsistentInv'
  BY ConsistentStep, OwnedIsLive
<1>3. ConsistentInv => NeverInconsistent
  BY DEF ConsistentInv
<1>4. Spec => []DescriptorsOwned
  BY OwnershipHolds
<1>5. Spec => []PassInv
  BY PassHolds
<1> QED
  BY <1>1, <1>2, <1>3, <1>4, <1>5, TypeCorrect, PTL DEF Spec

-----------------------------------------------------------------------------
(* The relay pass acts on sockets of its own, and the whole loop as Sockets. *)

\* The relay pass is at a relay, and a number is given up only while the core is
\* told so or the process ends.
RelayPass == {"wld", "relay", "relayClosed", "relayNext"}
CursorInv ==
  /\ pc \in RelayPass \/ (pc = "core" /\ resume \in RelayPass) => cursor \in Relays
  /\ resume = "relayClosed" => pc = "core" \/ pc \in Aborts

\* Every step keeps CursorInv.
LEMMA CursorStep == TypeOK /\ CursorInv /\ [Next]_vars => CursorInv'
<1> SUFFICES ASSUME TypeOK, CursorInv, [Next]_vars
             PROVE  CursorInv'
  OBVIOUS
<1> USE DEF CursorInv, RelayPass, Aborts
<1>1. CASE UNCHANGED <<pc, resume, cursor>> \/ (pc' \in Aborts /\ UNCHANGED resume)
  BY <1>1
<1>2. ASSUME NEW c \in Conns, CoreOpen(c) \/ CoreOpenDns(c) \/ CoreClose(c) PROVE CursorInv'
  BY <1>1, <1>2 DEF CoreOpen, OpenConnection, Goto, CoreOpenDns, CoreClose, loopVars
<1>3. ASSUME NEW r \in Relays, CoreRelayOpen(r) \/ CoreRelayClose(r) PROVE CursorInv'
  BY <1>1, <1>3 DEF CoreRelayOpen, CoreRelayClose, loopVars
<1>4. CASE CoreAdvertize \/ (\E c \in Conns : CoreCloseResolving(c))
  BY <1>1, <1>4 DEF CoreAdvertize, CoreCloseResolving, Goto
<1>5. CASE CoreReturn
  BY <1>5 DEF CoreReturn, TypeOK
<1>6. CASE DnsIdle
  BY <1>6 DEF DnsIdle, Goto
<1>7. CASE Select
  BY <1>7, ConstantsAssumption DEF Select, Relays
<1>8. CASE Wld
  BY <1>8 DEF Wld, Goto, CallCore
<1>9. ASSUME NEW r \in Relays, DnsRelay(r) PROVE CursorInv'
  BY <1>9 DEF DnsRelay, Goto, CallCore
<1>10. ASSUME NEW c \in Conns, DnsConn(c) PROVE CursorInv'
  BY <1>10 DEF DnsConn, OpenConnection, Goto, CallCore
<1>11. CASE NextRelay /\ cursor \in Relays /\ resume # "relayClosed"
  BY <1>11, ConstantsAssumption DEF NextRelay, MoveTo, Relays
<1>12. CASE NextConn /\ resume # "relayClosed"
  BY <1>12 DEF NextConn, MoveTo
<1>13. ASSUME NEW r \in Relays, RelaySkip(r) PROVE CursorInv'
  BY <1>11, <1>13 DEF RelaySkip
<1>14. ASSUME NEW r \in Relays, RelayConnectDone(r) \/ RelayRead(r) PROVE CursorInv'
  BY <1>14 DEF RelayConnectDone, RelayRead, DropRelay, Goto, CallCore
<1>15. CASE RelayClosed \/ RelayDone
  BY <1>11, <1>15 DEF RelayClosed, RelayDone
<1>16. CASE ConnDone
  BY <1>12, <1>16 DEF ConnDone
<1>17. ASSUME NEW c \in Conns, ConnSkip(c) PROVE CursorInv'
  BY <1>12, <1>17 DEF ConnSkip
<1>18. ASSUME NEW c \in Conns, ConnRead(c) PROVE CursorInv'
  BY <1>18 DEF ConnRead
<1>19. ASSUME NEW c \in Conns, ConnWrite(c) PROVE CursorInv'
  <2>1. pc = "connW" /\ (NextConn \/ (pc' \in Aborts /\ UNCHANGED resume) \/ CallCore("connNext"))
    BY <1>19 DEF ConnWrite, Goto
  <2> QED
    BY <1>12, <2>1 DEF CallCore
<1>20. ASSUME NEW c \in Conns, Accept(c) PROVE CursorInv'
  BY <1>20 DEF Accept, CallCore
<1>21. CASE AcceptNone \/ AcceptRefuse
  BY <1>21 DEF AcceptNone, AcceptRefuse, Goto
<1>22. CASE Events \/ Periodic \/ Ipc
  BY <1>22 DEF Events, Periodic, Ipc, Turn, Goto, CallCore
<1> QED
  BY <1>1, <1>2, <1>3, <1>4, <1>5, <1>6, <1>7, <1>8, <1>9, <1>10, <1>13, <1>14, <1>15, <1>16,
     <1>17, <1>18, <1>19, <1>20, <1>21, <1>22 DEF Next, Core, Loop, Aborted, vars

LEMMA CursorHolds == Spec => []CursorInv
<1>1. Init => CursorInv
  BY DEF Init, CursorInv, RelayPass
<1> QED
  BY <1>1, CursorStep, TypeCorrect, PTL DEF Spec

\* What the relay pass connects or reads is a relay's own open socket, although
\* the core may have closed and opened others since select() returned.
THEOREM RelaysServedLive == OrderlyRelays => (Spec => []RelayPassLive)
<1> SUFFICES ASSUME OrderlyRelays PROVE Spec => []RelayPassLive
  OBVIOUS
<1>1. TypeOK /\ RelayInv /\ DescriptorsOwned /\ CursorInv => RelayPassLive
  <2> SUFFICES ASSUME TypeOK, RelayInv, DescriptorsOwned, CursorInv, pc = "relay",
                      RelayWritable(cursor) \/ RelayReadable(cursor)
               PROVE  /\ relay[cursor].st \in {"connecting", "open"}
                      /\ relay[cursor].fd \in open
    BY DEF RelayPassLive
  <2>1. cursor \in Relays
    BY DEF CursorInv, RelayPass
  <2>2. relay[cursor].st \in {"connecting", "open"} /\ relay[cursor].fd # NoFd
    BY <2>1, ServedRelay
  <2>3. Owned /\ ~BeingReset(cursor)
    BY DEF DescriptorsOwned, Aborts, BeingReset
  <2> QED
    BY <2>1, <2>2, <2>3 DEF Owned, RelayHolds
<1>2. Spec => []DescriptorsOwned
  BY OwnershipHolds DEF OrderlyRelays
<1>3. Spec => []RelayInv
  BY RelayInvHolds
<1> QED
  BY <1>1, <1>2, <1>3, CursorHolds, TypeCorrect, PTL

\* The sockets as the abstract specification sees them.
Sock == [u \in DnsTasks |-> SocketOf(u)]
SameGiven == \A r \in Relays : GivenUp(r)' <=> GivenUp(r)

LEMMA Tasks ==
  /\ \A c \in Conns : ConnTask(c) \in DnsTasks
  /\ \A r \in Relays : RelayTask(r) \in DnsTasks
  /\ \A u \in DnsTasks : \/ \E c \in Conns : u = ConnTask(c)
                         \/ \E r \in Relays : u = RelayTask(r)
  /\ \A c, d \in Conns : ConnTask(c) = ConnTask(d) => c = d
  /\ \A r, q \in Relays : RelayTask(r) = RelayTask(q) => r = q
  /\ \A c \in Conns, r \in Relays : ConnTask(c) # RelayTask(r)
  BY DEF DnsTasks, ConnTask, RelayTask

LEMMA SockIs ==
  /\ \A c \in Conns : Sock[ConnTask(c)] = conn[c].fd
  /\ \A r \in Relays : Sock[RelayTask(r)] = IF GivenUp(r) THEN NoFd ELSE relay[r].fd
  /\ Sock = [u \in DnsTasks |-> Sock[u]]
<1>1. \A c \in Conns : SocketOf(ConnTask(c)) = conn[c].fd
  BY DEF SocketOf, ConnTask
<1>2. \A r \in Relays : SocketOf(RelayTask(r)) = IF GivenUp(r) THEN NoFd ELSE relay[r].fd
  BY DEF SocketOf, RelayTask
<1> QED
  BY <1>1, <1>2, Tasks DEF Sock

LEMMA SockIsNext ==
  /\ \A c \in Conns : Sock'[ConnTask(c)] = conn'[c].fd
  /\ \A r \in Relays : Sock'[RelayTask(r)] = IF GivenUp(r)' THEN NoFd ELSE relay'[r].fd
  /\ Sock' = [u \in DnsTasks |-> Sock'[u]]
<1>1. \A c \in Conns : SocketOf(ConnTask(c))' = conn'[c].fd
  BY DEF SocketOf, ConnTask
<1>2. \A r \in Relays : SocketOf(RelayTask(r))' = IF GivenUp(r)' THEN NoFd ELSE relay'[r].fd
  BY DEF SocketOf, RelayTask
<1> QED
  BY <1>1, <1>2, Tasks DEF Sock

\* No socket changes hands.
LEMMA SockStays ==
  ASSUME \A c \in Conns : conn'[c].fd = conn[c].fd,
         \A r \in Relays : \/ relay'[r].fd = relay[r].fd /\ (GivenUp(r)' <=> GivenUp(r))
                           \/ relay'[r].fd = NoFd /\ (GivenUp(r) \/ relay[r].fd = NoFd)
  PROVE  Sock' = Sock
<1>1. \A c \in Conns : Sock'[ConnTask(c)] = Sock[ConnTask(c)]
  BY SockIs, SockIsNext
<1>2. \A r \in Relays : Sock'[RelayTask(r)] = Sock[RelayTask(r)]
  BY SockIs, SockIsNext
<1>3. \A u \in DnsTasks : Sock'[u] = Sock[u]
  BY <1>1, <1>2, Tasks
<1> QED
  BY <1>3, SockIs, SockIsNext

\* One slot changes.
LEMMA SockConn ==
  ASSUME TypeOK, SameGiven, UNCHANGED relay, NEW c \in Conns, NEW k,
         conn' = [conn EXCEPT ![c] = k]
  PROVE  Sock' = [Sock EXCEPT ![ConnTask(c)] = k.fd]
<1>1. \A d \in Conns : conn'[d] = IF d = c THEN k ELSE conn[d]
  BY DEF TypeOK
<1>2. \A u \in DnsTasks : Sock'[u] = IF u = ConnTask(c) THEN k.fd ELSE Sock[u]
  BY <1>1, Tasks, SockIs, SockIsNext, SMTT(60) DEF SameGiven
<1> QED
  BY <1>2, Tasks, SockIs, SockIsNext

\* One relay changes.
LEMMA SockRelay ==
  ASSUME TypeOK, UNCHANGED conn, NEW r \in Relays, NEW k,
         relay' = [relay EXCEPT ![r] = k],
         \A q \in Relays \ {r} : GivenUp(q)' <=> GivenUp(q)
  PROVE  Sock' = [Sock EXCEPT ![RelayTask(r)] = IF GivenUp(r)' THEN NoFd ELSE k.fd]
<1>1. \A q \in Relays : relay'[q] = IF q = r THEN k ELSE relay[q]
  BY DEF TypeOK
<1> DEFINE new == IF GivenUp(r)' THEN NoFd ELSE k.fd
<1>2. Sock'[RelayTask(r)] = new
  BY <1>1, SockIsNext
<1>3. \A q \in Relays \ {r} : Sock'[RelayTask(q)] = Sock[RelayTask(q)]
  BY <1>1, SockIs, SockIsNext
<1>4. \A c \in Conns : Sock'[ConnTask(c)] = Sock[ConnTask(c)]
  BY SockIs, SockIsNext
<1> HIDE DEF new
<1>5. \A u \in DnsTasks : Sock'[u] = IF u = RelayTask(r) THEN new ELSE Sock[u]
  BY <1>2, <1>3, <1>4, Tasks
<1>6. Sock' = [Sock EXCEPT ![RelayTask(r)] = new]
  BY <1>5, Tasks, SockIs, SockIsNext
<1> QED
  BY <1>6 DEF new

\* The steps of the abstract specification.
AbsStep == [Sockets!Next]_(Sockets!vars)
LEMMA AbsStays == Sock' = Sock /\ dns' = dns => AbsStep
  BY DEF AbsStep, Sockets!vars, Sock

LEMMA AbsAsks ==
  ASSUME NEW u \in DnsTasks, u \notin dns, Sock[u] = NoFd, dns' = dns \cup {u}, Sock' = Sock
  PROVE  AbsStep
  BY DEF AbsStep, Sockets!Next, Sockets!Ask, Sockets!NoFd, NoFd, Sock

LEMMA AbsFails ==
  ASSUME NEW u \in DnsTasks, u \in dns, dns' = dns \ {u}, Sock' = Sock
  PROVE  AbsStep
  BY DEF AbsStep, Sockets!Next, Sockets!Fail, Sock

LEMMA AbsOpens ==
  ASSUME NEW u \in DnsTasks, Sock[u] = NoFd, NEW fd \in Fds, fd \notin Sockets!InUse,
         \A g \in Fds \ Sockets!InUse : fd <= g,
         Sock' = [Sock EXCEPT ![u] = fd], dns' = dns \ {u}
  PROVE  AbsStep
  BY DEF AbsStep, Sockets!Next, Sockets!Open, Sockets!Fds, Fds, Sockets!NoFd, NoFd, Sock

LEMMA AbsCloses ==
  ASSUME NEW u \in DnsTasks, Sock[u] # NoFd, Sock' = [Sock EXCEPT ![u] = NoFd], dns' = dns
  PROVE  AbsStep
  BY DEF AbsStep, Sockets!Next, Sockets!Close, Sockets!NoFd, NoFd, Sock

SocketsInv ==
  /\ TypeOK /\ DescriptorsOwned /\ PassInv /\ SlotInv /\ RelayInv
  /\ OpenImpliesHeld /\ CursorInv

\* The numbers in use are those the kernel has given out.
LEMMA InUseIsOpen ==
  ASSUME SocketsInv, pc \notin Aborts
  PROVE  Sockets!InUse = open
<1>1. Sockets!InUse = {Sock[u] : u \in DnsTasks} \ {NoFd}
  BY DEF Sockets!InUse, Sockets!NoFd, NoFd, Sock
<1>2. \A r \in Relays : GivenUp(r) <=> BeingReset(r)
  BY DEF SocketsInv, CursorInv, GivenUp, BeingReset
<1>3. NoFd \notin open
  BY DEF SocketsInv, TypeOK, Fds, NoFd
<1>4. ASSUME NEW u \in DnsTasks, Sock[u] # NoFd PROVE Sock[u] \in open
  BY <1>2, <1>4, Tasks, SockIs DEF SocketsInv, DescriptorsOwned, Owned, ConnHolds, RelayHolds
<1>5. ASSUME NEW fd \in open PROVE \E u \in DnsTasks : Sock[u] = fd
  BY <1>2, <1>3, Tasks, SockIs DEF SocketsInv, OpenImpliesHeld, RelayHolds
<1> QED
  BY <1>1, <1>3, <1>4, <1>5

\* The resolver's answer, and the core, open a slot the way Sockets says.
LEMMA ConnOpens ==
  ASSUME SocketsInv, pc \notin Aborts, NEW c \in Conns, conn[c].fd = NoFd,
         UNCHANGED relay, SameGiven, dns' = dns \ {ConnTask(c)},
         NEW fd \in Fds, IsLowestFree(fd), NEW s \in ConnStates,
         conn' = [conn EXCEPT ![c] = [st |-> s, fd |-> fd]]
  PROVE  AbsStep
<1> DEFINE k == [st |-> s, fd |-> fd]
<1>1. Sock' = [Sock EXCEPT ![ConnTask(c)] = fd]
  <2>1. conn' = [conn EXCEPT ![c] = k] /\ k.fd = fd
    OBVIOUS
  <2> HIDE DEF k
  <2> QED
    BY <2>1, SockConn DEF SocketsInv
<1>2. Sock[ConnTask(c)] = NoFd
  BY SockIs
<1>3. Sockets!InUse = open
  BY InUseIsOpen
<1>4. fd \notin Sockets!InUse /\ \A g \in Fds \ Sockets!InUse : fd <= g
  BY <1>3 DEF IsLowestFree
<1> QED
  BY <1>1, <1>2, <1>4, Tasks, AbsOpens

\* What OpenConnection makes of a slot without a socket.
LEMMA ConnTried ==
  ASSUME SocketsInv, pc \notin Aborts, NEW c \in Conns, conn[c].fd = NoFd,
         UNCHANGED relay, SameGiven, dns' = dns \ {ConnTask(c)},
         OpenConnection(c, TRUE, TRUE)
  PROVE  AbsStep
<1>1. TypeOK /\ conn[c].st \in ConnStates
  BY Records DEF SocketsInv, TypeOK
<1>2. CASE UNCHANGED <<conn, open>>
  <2>1. Sock' = Sock
    BY <1>2, SockStays DEF SameGiven
  <2>2. CASE ConnTask(c) \in dns
    BY <2>1, <2>2, Tasks, AbsFails
  <2>3. CASE ConnTask(c) \notin dns
    BY <2>1, <2>3, AbsStays
  <2> QED
    BY <2>2, <2>3
<1>3. ASSUME NEW fd \in Fds, IsLowestFree(fd), NEW s \in ConnStates,
             conn' = [conn EXCEPT ![c] = [st |-> s, fd |-> fd]]
      PROVE  AbsStep
  BY <1>3, ConnOpens
<1>4. \/ UNCHANGED <<conn, open>>
      \/ \E fd \in Fds, s \in ConnStates :
           /\ IsLowestFree(fd)
           /\ conn' = [conn EXCEPT ![c] = [st |-> s, fd |-> fd]]
  BY <1>1, ConstantsAssumption DEF OpenConnection, TypeOK, Outcomes, ConnStates
<1> QED
  BY <1>2, <1>3, <1>4

\* A slot's socket is closed, whoever closes it.
LEMMA ConnCloses ==
  ASSUME SocketsInv, NEW c \in Conns, conn[c].fd # NoFd, UNCHANGED <<relay, dns>>, SameGiven,
         CloseConnection(c)
  PROVE  AbsStep
<1>1. Sock' = [Sock EXCEPT ![ConnTask(c)] = NoFd]
  <2>1. conn' = [conn EXCEPT ![c] = FreeConn] /\ FreeConn.fd = NoFd
    BY DEF CloseConnection, Release, FreeConn
  <2> QED
    BY <2>1, SockConn DEF SocketsInv
<1>2. Sock[ConnTask(c)] # NoFd
  BY SockIs
<1> QED
  BY <1>1, <1>2, Tasks, AbsCloses

\* What opening a relay without a socket comes to.
LEMMA RelayTried ==
  ASSUME SocketsInv, OrderlyRelays, pc \notin Aborts, NEW r \in Relays, relay[r].fd = NoFd,
         ~GivenUp(r), UNCHANGED conn, SameGiven, dns' = dns \ {RelayTask(r)}, OpenRelay(r)
  PROVE  AbsStep
<1>1. TypeOK
  BY DEF SocketsInv
<1>2. CASE relay' = [relay EXCEPT ![r] = [st |-> "wait", fd |-> NoFd]]
  <2>1. Sock' = Sock
    BY <1>1, <1>2, SockStays DEF SameGiven, TypeOK
  <2>2. CASE RelayTask(r) \in dns
    BY <2>1, <2>2, Tasks, AbsFails
  <2>3. CASE RelayTask(r) \notin dns
    BY <2>1, <2>3, AbsStays
  <2> QED
    BY <2>2, <2>3
<1>3. ASSUME NEW fd \in Fds, IsLowestFree(fd),
             relay' = [relay EXCEPT ![r] = [fd |-> fd, st |-> "connecting"]]
      PROVE  AbsStep
  <2>1. Sock' = [Sock EXCEPT ![RelayTask(r)] = IF GivenUp(r)' THEN NoFd ELSE fd]
    BY <1>1, <1>3, SockRelay DEF SameGiven
  <2>2. Sock' = [Sock EXCEPT ![RelayTask(r)] = fd] /\ Sock[RelayTask(r)] = NoFd
    BY <2>1, SockIs DEF SameGiven
  <2>3. Sockets!InUse = open
    BY InUseIsOpen
  <2>4. fd \notin Sockets!InUse /\ \A g \in Fds \ Sockets!InUse : fd <= g
    BY <1>3, <2>3 DEF IsLowestFree
  <2> QED
    BY <2>2, <2>4, Tasks, AbsOpens
<1>4. \/ relay' = [relay EXCEPT ![r] = [st |-> "wait", fd |-> NoFd]]
      \/ \E fd \in Fds : /\ IsLowestFree(fd)
                         /\ relay' = [relay EXCEPT ![r] = [fd |-> fd, st |-> "connecting"]]
  BY DEF OpenRelay, OrderlyRelays
<1> QED
  BY <1>2, <1>3, <1>4

\* Only the state of a relay changes.
LEMMA RelayStateOnly ==
  ASSUME TypeOK, NEW r \in Relays, NEW s, relay' = [relay EXCEPT ![r].st = s],
         UNCHANGED conn, SameGiven
  PROVE  Sock' = Sock
<1>1. \A q \in Relays : relay'[q].fd = relay[q].fd
  BY DEF TypeOK, RelayClient
<1> QED
  BY <1>1, SockStays DEF SameGiven

\* Every step of the loop is a step of Sockets, or none.
LEMMA SocketsStep ==
  ASSUME SocketsInv, OrderlyRelays, [Next]_vars
  PROVE  AbsStep
<1> USE DEF Aborts
<1>1. CASE UNCHANGED vars
  BY <1>1, SockStays, AbsStays DEF vars, GivenUp
<1>2. CASE UNCHANGED <<conn, relay, dns>> /\ SameGiven
  BY <1>2, SockStays, AbsStays DEF SameGiven
<1>3. TypeOK /\ SlotInv /\ RelayInv /\ CursorInv /\ DescriptorsOwned
  BY DEF SocketsInv
<1>4. ASSUME NEW c \in Conns, CoreOpen(c) PROVE AbsStep
  <2>1. pc = "core" /\ conn[c].fd = NoFd /\ ConnTask(c) \notin dns
    BY <1>3, <1>4 DEF CoreOpen, SlotInv
  <2>2. OpenConnection(c, TRUE, TRUE) /\ UNCHANGED <<relay, dns>>
    BY <1>4, Zenon DEF CoreOpen, OpenConnection
  <2>3. pc' \in {"core", "abortSocket"} /\ UNCHANGED <<resume, cursor>>
    BY <1>4 DEF CoreOpen, OpenConnection, Goto, loopVars
  <2>4. SameGiven
    BY <2>1, <2>3 DEF SameGiven, GivenUp
  <2> QED
    BY <2>1, <2>2, <2>4, ConnTried
<1>5. ASSUME NEW c \in Conns, CoreOpenDns(c) PROVE AbsStep
  <2>1. conn[c].fd = NoFd /\ ConnTask(c) \notin dns
    BY <1>3, <1>5 DEF CoreOpenDns, SlotInv
  <2>2. \A d \in Conns : conn'[d].fd = conn[d].fd
    BY <1>3, <1>5 DEF CoreOpenDns, TypeOK, ConnContext
  <2>3. UNCHANGED relay /\ SameGiven /\ dns' = dns \cup {ConnTask(c)}
    BY <1>5 DEF CoreOpenDns, loopVars, SameGiven, GivenUp
  <2>4. Sock' = Sock
    BY <2>2, <2>3, SockStays DEF SameGiven
  <2>5. Sock[ConnTask(c)] = NoFd
    BY <2>1, SockIs
  <2> QED
    BY <2>1, <2>3, <2>4, <2>5, Tasks, AbsAsks
<1>6. ASSUME NEW c \in Conns, CoreClose(c) PROVE AbsStep
  BY <1>6, ConnCloses DEF CoreClose, loopVars, SameGiven, GivenUp
<1>7. ASSUME NEW r \in Relays, CoreRelayOpen(r) PROVE AbsStep
  <2>1. /\ pc = "core" /\ SameGiven /\ ~GivenUp(r) /\ ~BeingReset(r) /\ UNCHANGED conn
        /\ relay[r].st \in {"initial", "wait"}
    BY <1>7 DEF CoreRelayOpen, loopVars, SameGiven, GivenUp, BeingReset
  <2>2. relay[r].fd = NoFd /\ RelayTask(r) \notin dns
    BY <1>3, <2>1 DEF RelayInv, IdleRelays, RelaysWait
  <2>3. CASE OpenRelay(r) /\ dns' = dns
    BY <2>1, <2>2, <2>3, RelayTried
  <2>4. CASE relay' = [relay EXCEPT ![r].st = "resolving"] /\ dns' = dns \cup {RelayTask(r)}
    <3>1. Sock' = Sock
      BY <1>3, <2>1, <2>4, RelayStateOnly
    <3>2. Sock[RelayTask(r)] = NoFd
      BY <2>1, <2>2, SockIs
    <3> QED
      BY <2>2, <2>4, <3>1, <3>2, Tasks, AbsAsks
  <2>5. CASE relay' = [relay EXCEPT ![r].st = "wait"] /\ dns' = dns
    BY <1>3, <2>1, <2>5, RelayStateOnly, AbsStays
  <2> QED
    BY <1>7, <2>3, <2>4, <2>5 DEF CoreRelayOpen
<1>8. ASSUME NEW r \in Relays PROVE ~CoreRelayClose(r)
  BY DEF CoreRelayClose, OrderlyRelays
<1>9. CASE CoreAdvertize \/ CoreReturn \/ (\E c \in Conns : CoreCloseResolving(c))
  BY <1>2, <1>9 DEF CoreAdvertize, CoreCloseResolving, CoreReturn, Goto, SameGiven, GivenUp
<1>10. ASSUME pc \notin {"core", "relayClosed"} \cup Aborts, pc' # "relayClosed",
              resume' = resume \/ resume' # "relayClosed"
       PROVE  SameGiven
  BY <1>3, <1>10 DEF CursorInv, SameGiven, GivenUp
<1>11. CASE DnsIdle \/ Wld \/ Select
  BY <1>2, <1>10, <1>11 DEF DnsIdle, Wld, Select, Goto, CallCore
<1>12. ASSUME NEW r \in Relays, DnsRelay(r) PROVE AbsStep
  <2>1. /\ pc = "dns" /\ UNCHANGED conn /\ RelayTask(r) \in dns /\ dns' = dns \ {RelayTask(r)}
        /\ OpenRelay(r) \/ relay' = [relay EXCEPT ![r].st = "wait"]
    BY <1>12 DEF DnsRelay
  <2>2. SameGiven
    BY <1>10, <1>12 DEF DnsRelay, Goto, CallCore
  <2>3. relay[r].fd = NoFd /\ ~GivenUp(r)
    BY <1>3, <2>1 DEF RelayInv, RelaysWait, ResolvingIdle, CursorInv, GivenUp
  <2>4. CASE OpenRelay(r)
    BY <2>1, <2>2, <2>3, <2>4, RelayTried
  <2>5. CASE relay' = [relay EXCEPT ![r].st = "wait"]
    BY <1>3, <2>1, <2>2, <2>5, RelayStateOnly, Tasks, AbsFails
  <2> QED
    BY <2>1, <2>4, <2>5
<1>13. ASSUME NEW c \in Conns, DnsConn(c) PROVE AbsStep
  <2>1. /\ pc = "dns" /\ UNCHANGED relay /\ ConnTask(c) \in dns /\ dns' = dns \ {ConnTask(c)}
        /\ OpenConnection(c, TRUE, TRUE) \/ Release(c)
    BY <1>13, Zenon DEF DnsConn, OpenConnection
  <2>2. SameGiven
    BY <1>10, <1>13 DEF DnsConn, OpenConnection, Goto, CallCore
  <2>3. conn[c].fd = NoFd
    BY <1>3, <2>1 DEF SlotInv
  <2>4. CASE OpenConnection(c, TRUE, TRUE)
    BY <2>1, <2>2, <2>3, <2>4, ConnTried
  <2>5. CASE Release(c)
    <3>1. \A d \in Conns : conn'[d].fd = conn[d].fd
      BY <1>3, <2>3, <2>5 DEF Release, FreeConn, TypeOK
    <3>2. Sock' = Sock
      BY <2>1, <2>2, <3>1, SockStays DEF SameGiven
    <3> QED
      BY <2>1, <3>2, Tasks, AbsFails
  <2> QED
    BY <2>1, <2>4, <2>5
<1>14. ASSUME NEW r \in Relays, RelaySkip(r) PROVE AbsStep
  BY <1>2, <1>10, <1>14 DEF RelaySkip, NextRelay, MoveTo
<1>15. ASSUME NEW r \in Relays, RelayConnectDone(r) \/ RelayRead(r) PROVE AbsStep
  <2>1. /\ pc = "relay" /\ cursor = r /\ UNCHANGED <<conn, dns>>
        /\ RelayWritable(r) \/ RelayReadable(r)
    BY <1>15 DEF RelayConnectDone, RelayRead
  <2>2. relay[r].fd # NoFd /\ \A q \in Relays : ~GivenUp(q)
    BY <1>3, <2>1, ServedRelay DEF CursorInv, GivenUp
  <2>3. CASE DropRelay(r)
    <3> DEFINE k == [relay[r] EXCEPT !.st = "wait"]
    <3>1. relay' = [relay EXCEPT ![r] = k]
      BY <1>3, <2>3 DEF DropRelay, TypeOK
    <3>2. GivenUp(r)' /\ \A q \in Relays \ {r} : GivenUp(q)' <=> GivenUp(q)
      BY <2>1, <2>2, <2>3 DEF DropRelay, CallCore, GivenUp
    <3> HIDE DEF k
    <3>3. Sock' = [Sock EXCEPT ![RelayTask(r)] = NoFd]
      BY <1>3, <2>1, <3>1, <3>2, SockRelay
    <3>4. Sock[RelayTask(r)] # NoFd
      BY <2>2, SockIs
    <3> QED
      BY <2>1, <3>3, <3>4, Tasks, AbsCloses
  <2>4. CASE UNCHANGED relay /\ (Goto("abortGetsockopt") \/ CallCore("relayNext"))
    BY <1>2, <1>10, <2>1, <2>4 DEF Goto, CallCore
  <2>5. CASE relay' = [relay EXCEPT ![r].st = "open"] /\ CallCore("relayNext")
    <3>1. SameGiven
      BY <1>10, <2>1, <2>5 DEF CallCore
    <3> QED
      BY <1>3, <2>1, <2>5, <3>1, RelayStateOnly, AbsStays
  <2> QED
    BY <1>15, <2>3, <2>4, <2>5, Zenon DEF RelayConnectDone, RelayRead
<1>16. CASE RelayClosed
  <2>1. /\ pc = "relayClosed" /\ UNCHANGED <<conn, dns>>
        /\ relay' = [relay EXCEPT ![cursor].fd = NoFd]
    BY <1>16 DEF RelayClosed
  <2>2. \A q \in Relays : relay'[q].fd = IF q = cursor THEN NoFd ELSE relay[q].fd
    BY <1>3, <2>1 DEF TypeOK, RelayClient
  <2>3. \A q \in Relays : ~GivenUp(q)' /\ (GivenUp(q) <=> q = cursor)
    BY <1>3, <1>16 DEF RelayClosed, NextRelay, MoveTo, GivenUp, CursorInv
  <2>4. Sock' = Sock
    BY <2>1, <2>2, <2>3, SockStays
  <2> QED
    BY <2>1, <2>4, AbsStays
<1>17. CASE RelayDone \/ ConnDone
  BY <1>2, <1>10, <1>17 DEF RelayDone, ConnDone, NextRelay, NextConn, MoveTo
<1>18. ASSUME NEW c \in Conns, ConnSkip(c) \/ ConnRead(c) \/ ConnWrite(c) PROVE AbsStep
  <2>1. pc \in {"conn", "connW"} /\ cursor = c /\ UNCHANGED <<relay, dns>>
    BY <1>18 DEF ConnSkip, ConnRead, ConnWrite
  <2>2. SameGiven
    BY <1>10, <1>18, <2>1 DEF ConnSkip, ConnRead, ConnWrite, NextConn, MoveTo, Goto, CallCore
  <2>3. CASE UNCHANGED conn
    BY <1>2, <2>1, <2>2, <2>3
  <2>4. CASE CloseConnection(c) /\ (ConnRead(c) \/ sockfd \in wfds)
    <3>1. CASE ConnRead(c)
      <4>1. conn[c].st \in ConnStates \ {"free", "resolving"}
        BY <1>3, <3>1, Records DEF ConnRead, TypeOK
      <4>2. conn[c].fd # NoFd
        BY <1>3, <2>1, <4>1 DEF ConnStates, DescriptorsOwned, Owned, ConnHolds
      <4> QED
        BY <2>1, <2>2, <2>4, <4>2, ConnCloses
    <3>2. CASE ConnWrite(c) /\ sockfd \in wfds
      <4>1. conn[c].fd = sockfd /\ sockfd # NoFd
        BY <1>3, <2>1, <3>2, WritableOpen, OwnedIsLive
           DEF ConnWrite, SocketsInv, TypeOK, Fds, NoFd
      <4> QED
        BY <2>1, <2>2, <2>4, <4>1, ConnCloses
    <3> QED
      BY <1>18, <2>3, <2>4, <3>1, <3>2 DEF ConnSkip
  <2>5. CASE conn' = [conn EXCEPT ![c].st = "connected"]
    <3>1. \A d \in Conns : conn'[d].fd = conn[d].fd
      BY <1>3, <2>5 DEF TypeOK, ConnContext
    <3>2. Sock' = Sock
      BY <2>1, <2>2, <3>1, SockStays DEF SameGiven
    <3> QED
      BY <2>1, <3>2, AbsStays
  <2> QED
    BY <1>18, <2>3, <2>4, <2>5 DEF ConnSkip, ConnRead, ConnWrite
<1>19. ASSUME NEW c \in Conns, Accept(c) PROVE AbsStep
  <2>1. pc = "accept" /\ conn[c].fd = NoFd /\ ConnTask(c) \notin dns /\ UNCHANGED <<relay, dns>>
    BY <1>3, <1>19 DEF Accept, SlotInv
  <2>2. SameGiven
    BY <1>10, <1>19 DEF Accept, CallCore
  <2>3. PICK fd \in Fds : /\ IsLowestFree(fd)
                          /\ conn' = [conn EXCEPT ![c] = [st |-> "connected", fd |-> fd]]
    BY <1>19 DEF Accept
  <2> QED
    BY <2>1, <2>2, <2>3, ConnOpens DEF ConnStates
<1>20. CASE AcceptNone \/ AcceptRefuse
  BY <1>2, <1>10, <1>20 DEF AcceptNone, AcceptRefuse, Goto
<1>21. CASE Events \/ Periodic \/ Ipc
  BY <1>2, <1>10, <1>21 DEF Events, Periodic, Ipc, Turn, Goto, CallCore
<1> QED
  BY <1>1, <1>4, <1>5, <1>6, <1>7, <1>8, <1>9, <1>11, <1>12, <1>13, <1>14, <1>15, <1>16,
     <1>17, <1>18, <1>19, <1>20, <1>21 DEF Next, Core, Loop, Aborted

\* However the passes of the loop and the core get in each other's way, the slots
\* and the relays, any number of them, get their sockets as Sockets says.
THEOREM SocketsAsPromised == OrderlyRelays => (Spec => AsSockets)
<1> SUFFICES ASSUME OrderlyRelays PROVE Spec => AsSockets
  OBVIOUS
<1>1. Init => Sockets!Init
  BY DEF Init, Sockets!Init, Sockets!NoFd, NoFd, FreeConn, SocketOf, GivenUp, DnsTasks
<1>2. SocketsInv /\ [Next]_vars => [Sockets!Next]_(Sockets!vars)
  BY SocketsStep DEF AbsStep
<1>3. ~RelayClosable
  BY DEF OrderlyRelays
<1>4. Spec => []DescriptorsOwned
  BY <1>3, OwnershipHolds
<1>5. Spec => []PassInv
  BY <1>3, PassHolds
<1>6. Spec => []SlotInv
  BY <1>3, SlotInvHolds
<1>7. Spec => []RelayInv
  BY RelayInvHolds
<1>8. Spec => []OpenImpliesHeld
  BY NothingLeaks
<1>9. Spec => []SocketsInv
  BY <1>4, <1>5, <1>6, <1>7, <1>8, CursorHolds, TypeCorrect, PTL DEF SocketsInv
<1> QED
  BY <1>1, <1>2, <1>9, PTL DEF Spec, AsSockets, Sockets!Spec
=============================================================================
