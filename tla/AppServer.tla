------------------------------ MODULE AppServer ------------------------------
(***************************************************************************)
(* Apps connected over TCP (ios_port/app_server.c): the bytes an app sends *)
(* arrive cut anywhere; app_connection_feed puts them into the connection's*)
(* ring buffer and runs the transport automaton over it until it needs     *)
(* more: a preamble, then frames of two length bytes and a payload.  Each  *)
(* frame goes to the core under the wsid the app logged in with.           *)
(*                                                                         *)
(* Accepting apps and reading their sockets is left to a caller that this  *)
(* port does not have (WITH_APP_TCP_SERVER is commented out).  It is taken *)
(* to feed accepted connections only, with what the ring buffer has room   *)
(* for, as the loop does for Wish connections.                             *)
(***************************************************************************)
EXTENDS AppFrames

CONSTANTS
  NUM_APP_CONNECTIONS,
  APP_RX_RB_SZ,         \* what a ring buffer holds
  Streams               \* what an app may send in a connection

Word == {n \in Nat : n < 65536}   \* uint16_t

ASSUME ConstantsAssumption ==
  /\ NUM_APP_CONNECTIONS \in Nat \ {0}
  /\ APP_RX_RB_SZ \in Nat \ {0}
  /\ Wsids \subseteq Byte
  /\ Streams \subseteq Seq(Byte)

Slots == 1 .. NUM_APP_CONNECTIONS
NoSlot == 0

VARIABLES
  feeding,      \* the connection app_connection_feed is at, or NoSlot
  app_states, app_transport_states, app_transport_expect_bytes,
  app_rx_ring_bufs, app_login_complete,
  wsid,         \* apps[i].wsid
  wire,         \* what the app has still to send in this connection
  received,     \* history: the bytes fed in this connection
  delivered     \* history: the frames given to receive_app_to_core, and under which wsid

automaton == <<app_transport_states, app_transport_expect_bytes>>
login == <<app_login_complete, wsid>>
vars == <<feeding, app_states, automaton, app_rx_ring_bufs, login, wire, received, delivered>>

TransportStates == {"INITIAL", "WAIT_FRAME_LEN", "WAIT_PAYLOAD", "CLOSING"}

TypeOK ==
  /\ feeding \in Slots \cup {NoSlot}
  /\ app_states \in [Slots -> {"INITIAL", "CONNECTED"}]
  /\ app_transport_states \in [Slots -> TransportStates]
  /\ app_transport_expect_bytes \in [Slots -> Word]
  /\ app_rx_ring_bufs \in [Slots -> Seq(Byte)]
  /\ \A i \in Slots : Len(app_rx_ring_bufs[i]) <= APP_RX_RB_SZ
  /\ app_login_complete \in [Slots -> BOOLEAN]
  /\ wsid \in [Slots -> Byte]
  /\ wire \in [Slots -> Seq(Byte)]
  /\ received \in [Slots -> Seq(Byte)]
  /\ delivered \in [Slots -> Seq(Frame)]

\* setup_app_server, and the zeros of static data
Init ==
  /\ feeding = NoSlot
  /\ app_states = [i \in Slots |-> "INITIAL"]
  /\ app_transport_states = [i \in Slots |-> "INITIAL"]
  /\ app_transport_expect_bytes = [i \in Slots |-> 0]
  /\ app_rx_ring_bufs = [i \in Slots |-> <<>>]
  /\ app_login_complete = [i \in Slots |-> FALSE]
  /\ wsid = [i \in Slots |-> NoWsid]
  /\ wire = [i \in Slots |-> <<>>]
  /\ received = [i \in Slots |-> <<>>]
  /\ delivered = [i \in Slots |-> <<>>]

-----------------------------------------------------------------------------
(* What is not in app_connection_feed.                                     *)

\* Mutant: the bytes are signed.
FrameLenSigned(s) == 256 * s[1] + (IF s[2] > 127 THEN s[2] - 256 ELSE s[2])

FrameLen(s) == 256 * s[1] + s[2]

\* The caller accepts an app.
Connect(i) ==
  /\ feeding = NoSlot
  /\ app_states[i] = "INITIAL"
  /\ app_states' = [app_states EXCEPT ![i] = "CONNECTED"]
  /\ \E s \in Streams : wire' = [wire EXCEPT ![i] = s]
  /\ UNCHANGED <<feeding, automaton, app_rx_ring_bufs, login, received, delivered>>

-----------------------------------------------------------------------------
(* app_connection_feed: one action per case of the switch.                 *)

Buffered(i) == Len(app_rx_ring_bufs[i])
Read(i, n) == app_rx_ring_bufs' = [app_rx_ring_bufs EXCEPT ![i] = Rest(@, n)]
TransportState(i, st) == app_transport_states' = [app_transport_states EXCEPT ![i] = st]
Break == feeding' = NoSlot
Again == UNCHANGED feeding

\* ring_buffer_write
Feed(i) ==
  /\ feeding = NoSlot
  /\ app_states[i] = "CONNECTED"
  /\ \E n \in 1 .. Len(wire[i]) :
       /\ Buffered(i) + n <= APP_RX_RB_SZ
       /\ app_rx_ring_bufs' = [app_rx_ring_bufs EXCEPT ![i] = @ \o First(wire[i], n)]
       /\ received' = [received EXCEPT ![i] = @ \o First(wire[i], n)]
       /\ wire' = [wire EXCEPT ![i] = Rest(@, n)]
  /\ feeding' = i
  /\ UNCHANGED <<app_states, automaton, login, delivered>>

\* Three bytes that are no preamble are dropped, and what follows waits for the
\* next call.
Preamble(i) ==
  /\ feeding = i
  /\ app_transport_states[i] = "INITIAL"
  /\ LET preamble == First(app_rx_ring_bufs[i], 3) IN
     \/ Buffered(i) < 3 /\ Break /\ UNCHANGED <<app_transport_states, app_rx_ring_bufs>>
     \/ Buffered(i) >= 3 /\ preamble = Secure
          /\ Read(i, 3) /\ TransportState(i, "CLOSING") /\ Break
     \/ Buffered(i) >= 3 /\ preamble = Plain
          /\ Read(i, 3) /\ TransportState(i, "WAIT_FRAME_LEN") /\ Again
     \/ Buffered(i) >= 3 /\ preamble \notin {Plain, Secure}
          /\ Read(i, 3) /\ UNCHANGED app_transport_states /\ Break
  /\ UNCHANGED <<app_states, app_transport_expect_bytes, login, wire, received, delivered>>

\* Mutant: a length of 0 is looked at and left where it is.
FrameLengthPeeks(i) ==
  /\ feeding = i
  /\ app_transport_states[i] = "WAIT_FRAME_LEN"
  /\ IF Buffered(i) < 2
     THEN Break /\ UNCHANGED <<automaton, app_rx_ring_bufs>>
     ELSE LET expect_len == FrameLen(app_rx_ring_bufs[i]) IN
          /\ app_transport_expect_bytes' = [app_transport_expect_bytes EXCEPT ![i] = expect_len]
          /\ IF expect_len = 0
             THEN Again /\ UNCHANGED <<app_transport_states, app_rx_ring_bufs>>
             ELSE /\ Read(i, 2)
                  /\ TransportState(i, "WAIT_PAYLOAD")
                  /\ IF Buffered(i) - 2 >= expect_len THEN Again ELSE Break
  /\ UNCHANGED <<app_states, login, wire, received, delivered>>

FrameLength(i) ==
  /\ feeding = i
  /\ app_transport_states[i] = "WAIT_FRAME_LEN"
  /\ IF Buffered(i) < 2
     THEN Break /\ UNCHANGED <<automaton, app_rx_ring_bufs>>
     ELSE LET expect_len == FrameLen(app_rx_ring_bufs[i]) IN
          /\ Read(i, 2)
          /\ app_transport_expect_bytes' = [app_transport_expect_bytes EXCEPT ![i] = expect_len]
          /\ IF expect_len = 0
             THEN Again /\ UNCHANGED app_transport_states
             ELSE /\ TransportState(i, "WAIT_PAYLOAD")
                  /\ IF Buffered(i) - 2 >= expect_len THEN Again ELSE Break
  /\ UNCHANGED <<app_states, login, wire, received, delivered>>

\* Mutant: the last login counts.
LogInAgain(i, payload) ==
  \E w \in OfferedWsids(payload) :
    IF w = Nobody THEN UNCHANGED login
    ELSE /\ wsid' = [wsid EXCEPT ![i] = w]
         /\ app_login_complete' = [app_login_complete EXCEPT ![i] = TRUE]

\* An app that has not logged in does so with a frame that has a wsid, be it of
\* zeros; the frame is delivered all the same, and one without a wsid too.
LogIn(i, payload) ==
  \E w \in OfferedWsids(payload) :
    IF app_login_complete[i] \/ w = Nobody THEN UNCHANGED login
    ELSE /\ wsid' = [wsid EXCEPT ![i] = w]
         /\ app_login_complete' = [app_login_complete EXCEPT ![i] = TRUE]

\* Mutant: what is left in the buffer waits for the next call.
PayloadBreaks(i) ==
  LET payload == First(app_rx_ring_bufs[i], app_transport_expect_bytes[i]) IN
  /\ feeding = i
  /\ app_transport_states[i] = "WAIT_PAYLOAD"
  /\ Buffered(i) >= app_transport_expect_bytes[i]
  /\ Read(i, Len(payload))
  /\ LogIn(i, payload)
  /\ IF BsonSize(payload) = Len(payload)
     THEN /\ delivered' = [delivered EXCEPT ![i] =
               Append(@, [wsid |-> wsid'[i], payload |-> payload])]
          /\ TransportState(i, "WAIT_FRAME_LEN")
     ELSE TransportState(i, "CLOSING") /\ UNCHANGED delivered
  /\ Break
  /\ UNCHANGED <<app_states, app_transport_expect_bytes, wire, received>>

\* receive_app_to_core returns before the next frame is looked at.
Payload(i) ==
  LET payload == First(app_rx_ring_bufs[i], app_transport_expect_bytes[i]) IN
  /\ feeding = i
  /\ app_transport_states[i] = "WAIT_PAYLOAD"
  /\ Buffered(i) >= app_transport_expect_bytes[i]
  /\ Read(i, Len(payload))
  /\ LogIn(i, payload)
  /\ IF BsonSize(payload) = Len(payload)
     THEN /\ delivered' = [delivered EXCEPT ![i] =
               Append(@, [wsid |-> wsid'[i], payload |-> payload])]
          /\ TransportState(i, "WAIT_FRAME_LEN")
          /\ IF Buffered(i) - Len(payload) >= 2 THEN Again ELSE Break
     ELSE /\ TransportState(i, "CLOSING")
          /\ Break
          /\ UNCHANGED delivered
  /\ UNCHANGED <<app_states, app_transport_expect_bytes, wire, received>>

\* A payload that is not there yet, and CLOSING, in which nothing is read any more.
NothingToRead(i) ==
  /\ feeding = i
  /\ \/ app_transport_states[i] = "WAIT_PAYLOAD" /\ Buffered(i) < app_transport_expect_bytes[i]
     \/ app_transport_states[i] = "CLOSING"
  /\ Break
  /\ UNCHANGED <<app_states, automaton, app_rx_ring_bufs, login, wire, received, delivered>>

-----------------------------------------------------------------------------
(* app_connection_cleanup and the way back to the app.                     *)

\* The connection is over: its history too.
Forget(i) ==
  /\ wire' = [wire EXCEPT ![i] = <<>>]
  /\ received' = [received EXCEPT ![i] = <<>>]
  /\ delivered' = [delivered EXCEPT ![i] = <<>>]

\* Mutant: what the app sent last stays in the ring buffer.
CleanupLeavesBytes(i) ==
  /\ feeding = NoSlot
  /\ app_states[i] = "CONNECTED"
  /\ app_states' = [app_states EXCEPT ![i] = "INITIAL"]
  /\ TransportState(i, "INITIAL")
  /\ app_login_complete' = [app_login_complete EXCEPT ![i] = FALSE]
  /\ wsid' = [wsid EXCEPT ![i] = NoWsid]
  /\ Forget(i)
  /\ UNCHANGED <<feeding, app_transport_expect_bytes, app_rx_ring_bufs>>

\* Mutant: the wsid is not cleared.
CleanupKeepsWsid(i) ==
  /\ feeding = NoSlot
  /\ app_states[i] = "CONNECTED"
  /\ app_states' = [app_states EXCEPT ![i] = "INITIAL"]
  /\ TransportState(i, "INITIAL")
  /\ app_login_complete' = [app_login_complete EXCEPT ![i] = FALSE]
  /\ app_rx_ring_bufs' = [app_rx_ring_bufs EXCEPT ![i] = <<>>]
  /\ Forget(i)
  /\ UNCHANGED <<feeding, app_transport_expect_bytes, wsid>>

\* Called for a connection that is not connected it does nothing.
Cleanup(i) ==
  /\ feeding = NoSlot
  /\ app_states[i] = "CONNECTED"
  /\ app_states' = [app_states EXCEPT ![i] = "INITIAL"]
  /\ TransportState(i, "INITIAL")
  /\ app_login_complete' = [app_login_complete EXCEPT ![i] = FALSE]
  /\ wsid' = [wsid EXCEPT ![i] = NoWsid]
  /\ app_rx_ring_bufs' = [app_rx_ring_bufs EXCEPT ![i] = <<>>]
  /\ Forget(i)
  /\ UNCHANGED <<feeding, app_transport_expect_bytes>>

\* send_core_to_app_via_tcp sends to the first app with this wsid.
GoesTo(w, i) == wsid[i] = w /\ \A j \in 1 .. i - 1 : wsid[j] # w

-----------------------------------------------------------------------------
FeedStep(i) == Preamble(i) \/ FrameLength(i) \/ Payload(i) \/ NothingToRead(i)
Next == \E i \in Slots : Connect(i) \/ Feed(i) \/ FeedStep(i) \/ Cleanup(i)
Spec == Init /\ [][Next]_vars

\* The automaton runs on the caller's thread, which keeps running.
FairSpec == Spec /\ WF_vars(\E i \in Slots : FeedStep(i))

-----------------------------------------------------------------------------
(* Properties.                                                             *)

\* What the automaton could still do with what a connection has sent, it has done
\* when app_connection_feed returns: nobody calls it again until more bytes come.
Drained(i) ==
  /\ app_transport_states[i] = "WAIT_FRAME_LEN" => Buffered(i) < 2
  /\ app_transport_states[i] = "WAIT_PAYLOAD" => Buffered(i) < app_transport_expect_bytes[i]
NothingWaits == \A i \in Slots : i # feeding => Drained(i)

\* However the bytes are cut, and whoever had the connection before, the core gets
\* the frames they are made of, each once, in order, under the wsid of the app's
\* own login.  All of them, once the preamble was found; before that, bytes after
\* a bad preamble wait for the next call.
DeliveredAsFramed ==
  \A i \in Slots :
    LET payloads == PayloadsOf(received[i])
        n == Len(delivered[i])
    IN
    /\ n <= Len(payloads)
    /\ \A k \in 1 .. n : /\ delivered[i][k].payload = payloads[k]
                         /\ IsUnder(payloads, k, delivered[i][k].wsid)
    /\ i # feeding /\ app_transport_states[i] \in {"WAIT_FRAME_LEN", "WAIT_PAYLOAD"}
         => n = Len(payloads)

\* What the core sends to a wsid goes to an app that is connected and logged in
\* under it, and of which the core has had a frame under this wsid, also while a
\* frame of that or another app is being handled, and after other apps have gone.
\* (The wsid of zeros is excepted, which apps that have not logged in have too; and
\* a connection refused for its first document, whose login stays.)
RepliesFindTheirApp ==
  \A i \in Slots : wsid[i] # NoWsid /\ GoesTo(wsid[i], i) =>
    /\ app_states[i] = "CONNECTED" /\ app_login_complete[i]
    /\ app_transport_states[i] # "CLOSING" =>
         \E k \in 1 .. Len(delivered[i]) : delivered[i][k].wsid = wsid[i]

\* The connections as the streams of FrameStream.  The two bytes of a length that
\* have left the ring buffer are read when the payload is.
Up == {i \in Slots : app_states[i] = "CONNECTED"}
Pos == [i \in Slots |->
  LET taken == Len(received[i]) - Buffered(i)
  IN IF app_transport_states[i] = "WAIT_PAYLOAD" THEN taken - 2 ELSE taken]
Phase == [i \in Slots |->
  CASE app_transport_states[i] = "INITIAL" -> "greeting"
    [] app_transport_states[i] = "CLOSING" -> "refused"
    [] OTHER -> "frames"]
Who == [i \in Slots |-> IF app_login_complete[i] THEN wsid[i] ELSE Nobody]
Frames == INSTANCE FrameStream WITH
  Conns <- Slots, up <- Up, pos <- Pos, phase <- Phase, who <- Who

\* However the bytes are cut and whoever had the connection before, the automaton
\* and its ring buffer deliver the frames of the stream: every byte is read once
\* and in order, a frame goes to the core whole, under the connection's own login,
\* and nothing after a bad one.
AsFrameStream == Frames!Spec

\* app_connection_feed returns, however many empty frames it is fed.
FeedReturns == feeding # NoSlot ~> feeding = NoSlot
=============================================================================
