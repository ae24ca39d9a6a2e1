-------------------------- MODULE AppServer_proofs --------------------------
(* Proofs about AppServer, for any number of connections, any size of the  *)
(* ring buffers and anything the apps may send.                            *)
EXTENDS AppServer, AppFrames_proofs

-----------------------------------------------------------------------------
\* Numbers of one and of two bytes.
LEMMA BytesAre ==
  /\ NoWsid \in Byte /\ 0 \in Word
  /\ \A n \in Word : n \in Nat
  /\ \A a \in Byte, b \in Byte : 256 * a + b \in Word
  BY DEF NoWsid, Byte, Word

-----------------------------------------------------------------------------
(* The inductive invariant.                                                *)

\* A connection has a wsid only while an app is logged in on it, and only
\* connections that are connected are fed.
LoginInv ==
  /\ \A i \in Slots : wsid[i] # NoWsid => app_login_complete[i]
  /\ \A i \in Slots : app_login_complete[i] => app_states[i] = "CONNECTED"
  /\ feeding # NoSlot => app_states[feeding] = "CONNECTED"

IInv == TypeOK /\ NothingWaits /\ LoginInv

-----------------------------------------------------------------------------
(* The steps.                                                              *)

\* Reading n bytes from a ring buffer.
LEMMA ReadIs ==
  ASSUME TypeOK, NEW i \in Slots, NEW n \in 0 .. Buffered(i), Read(i, n)
  PROVE  /\ app_rx_ring_bufs' \in [Slots -> Seq(Byte)]
         /\ \A j \in Slots : Len(app_rx_ring_bufs'[j]) <= APP_RX_RB_SZ
         /\ \A j \in Slots \ {i} : app_rx_ring_bufs'[j] = app_rx_ring_bufs[j]
         /\ Len(app_rx_ring_bufs'[i]) = Buffered(i) - n
<1>1. /\ app_rx_ring_bufs \in [Slots -> Seq(Byte)]
      /\ \A j \in Slots : Len(app_rx_ring_bufs[j]) <= APP_RX_RB_SZ
  BY DEF TypeOK
<1>2. /\ Rest(app_rx_ring_bufs[i], n) \in Seq(Byte)
      /\ Len(Rest(app_rx_ring_bufs[i], n)) = Buffered(i) - n
  BY <1>1, RestIs DEF Buffered
<1>3. app_rx_ring_bufs' = [app_rx_ring_bufs EXCEPT ![i] = Rest(app_rx_ring_bufs[i], n)]
  BY DEF Read
<1>4. Buffered(i) \in Nat /\ APP_RX_RB_SZ \in Nat
  BY <1>1, ConstantsAssumption DEF Buffered
<1>5. QED BY <1>1, <1>2, <1>3, <1>4 DEF Buffered

LEMMA ConnectStep == ASSUME IInv, NEW i \in Slots, Connect(i) PROVE IInv'
<1>1. wire' \in [Slots -> Seq(Byte)]
  BY ConstantsAssumption DEF Connect, IInv, TypeOK
<1>2. TypeOK'
  BY <1>1 DEF Connect, IInv, TypeOK, automaton, login
<1>3. NothingWaits'
  BY DEF Connect, IInv, NothingWaits, Drained, Buffered, automaton
<1>4. LoginInv'
  BY DEF Connect, IInv, TypeOK, LoginInv, login
<1>5. QED BY <1>2, <1>3, <1>4 DEF IInv

LEMMA FeedStarts == ASSUME IInv, NEW i \in Slots, Feed(i) PROVE IInv'
<1>1. PICK n \in 1 .. Len(wire[i]) :
        /\ Buffered(i) + n <= APP_RX_RB_SZ
        /\ app_rx_ring_bufs' = [app_rx_ring_bufs EXCEPT ![i] = @ \o First(wire[i], n)]
        /\ received' = [received EXCEPT ![i] = @ \o First(wire[i], n)]
        /\ wire' = [wire EXCEPT ![i] = Rest(@, n)]
  BY DEF Feed
<1>2. /\ wire[i] \in Seq(Byte) /\ app_rx_ring_bufs[i] \in Seq(Byte) /\ received[i] \in Seq(Byte)
      /\ n \in 0 .. Len(wire[i])
  BY DEF IInv, TypeOK
<1>3. /\ First(wire[i], n) \in Seq(Byte) /\ Len(First(wire[i], n)) = n
      /\ Rest(wire[i], n) \in Seq(Byte)
  BY <1>2, FirstIs, RestIs
<1>4. /\ app_rx_ring_bufs[i] \o First(wire[i], n) \in Seq(Byte)
      /\ Len(app_rx_ring_bufs[i] \o First(wire[i], n)) = Buffered(i) + n
      /\ received[i] \o First(wire[i], n) \in Seq(Byte)
  <2> DEFINE more == First(wire[i], n)
  <2>1. more \in Seq(Byte) /\ Len(more) = n
    BY <1>3
  <2> HIDE DEF more
  <2>2. /\ app_rx_ring_bufs[i] \o more \in Seq(Byte)
        /\ Len(app_rx_ring_bufs[i] \o more) = Len(app_rx_ring_bufs[i]) + Len(more)
    BY <1>2, <2>1, ConcatIs, Zenon
  <2>3. received[i] \o more \in Seq(Byte)
    BY <1>2, <2>1, ConcatIs, Zenon
  <2>4. QED BY <2>1, <2>2, <2>3 DEF Buffered, more
<1>5. TypeOK'
  <2>1. app_rx_ring_bufs' \in [Slots -> Seq(Byte)]
    BY <1>1, <1>4 DEF IInv, TypeOK
  <2>2. \A j \in Slots : Len(app_rx_ring_bufs'[j]) <= APP_RX_RB_SZ
    BY <1>1, <1>4 DEF IInv, TypeOK
  <2>3. wire' \in [Slots -> Seq(Byte)] /\ received' \in [Slots -> Seq(Byte)]
    BY <1>1, <1>3, <1>4 DEF IInv, TypeOK
  <2>4. QED BY <2>1, <2>2, <2>3 DEF Feed, IInv, TypeOK, automaton, login
<1>6. NothingWaits'
  BY <1>1 DEF Feed, IInv, TypeOK, NothingWaits, Drained, Buffered, automaton, NoSlot, Slots
<1>7. LoginInv'
  BY DEF Feed, IInv, TypeOK, LoginInv, login
<1>8. QED BY <1>5, <1>6, <1>7 DEF IInv

LEMMA PreambleStep == ASSUME IInv, NEW i \in Slots, Preamble(i) PROVE IInv'
<1>1. CASE Buffered(i) < 3
  <2>1. Break /\ UNCHANGED <<app_transport_states, app_rx_ring_bufs>>
    BY <1>1 DEF Preamble, IInv, TypeOK, Buffered
  <2>2. TypeOK'
    BY <2>1 DEF Preamble, Break, IInv, TypeOK, login
  <2>3. NothingWaits'
    BY <2>1 DEF Preamble, Break, IInv, NothingWaits, Drained, Buffered
  <2>4. LoginInv'
    BY <2>1 DEF Preamble, Break, IInv, LoginInv, login
  <2>5. QED BY <2>2, <2>3, <2>4 DEF IInv
<1>2. CASE ~ (Buffered(i) < 3)
  <2>1. /\ Read(i, 3)
        /\ \/ TransportState(i, "CLOSING") /\ Break
           \/ TransportState(i, "WAIT_FRAME_LEN") /\ Again
           \/ UNCHANGED app_transport_states /\ Break
    BY <1>2 DEF Preamble
  <2>2. 3 \in 0 .. Buffered(i)
    BY <1>2 DEF IInv, TypeOK, Buffered
  <2>3. /\ app_rx_ring_bufs' \in [Slots -> Seq(Byte)]
        /\ \A j \in Slots : Len(app_rx_ring_bufs'[j]) <= APP_RX_RB_SZ
        /\ \A j \in Slots \ {i} : app_rx_ring_bufs'[j] = app_rx_ring_bufs[j]
    BY <2>1, <2>2, ReadIs DEF IInv
  <2>4. /\ app_transport_states' \in [Slots -> TransportStates]
        /\ \A j \in Slots \ {i} : app_transport_states'[j] = app_transport_states[j]
        /\ \/ app_transport_states'[i] \in {"INITIAL", "CLOSING"} /\ Break
           \/ app_transport_states'[i] = "WAIT_FRAME_LEN" /\ Again
    <3>1. app_transport_states \in [Slots -> TransportStates] /\ app_transport_states[i] = "INITIAL"
      BY DEF Preamble, IInv, TypeOK
    <3>2. CASE TransportState(i, "CLOSING") /\ Break
      BY <3>1, <3>2 DEF TransportState, TransportStates, Break
    <3>3. CASE TransportState(i, "WAIT_FRAME_LEN") /\ Again
      BY <3>1, <3>3 DEF TransportState, TransportStates
    <3>4. CASE UNCHANGED app_transport_states /\ Break
      BY <3>1, <3>4 DEF TransportStates, Break
    <3>5. QED BY <2>1, <3>2, <3>3, <3>4
  <2>5. TypeOK'
    BY <2>3, <2>4 DEF Preamble, Break, Again, IInv, TypeOK, login
  <2>6. NothingWaits'
    BY <2>3, <2>4 DEF Preamble, Break, Again, IInv, NothingWaits, Drained, Buffered
  <2>7. LoginInv'
    BY <2>4 DEF Preamble, Break, Again, IInv, LoginInv, login
  <2>8. QED BY <2>5, <2>6, <2>7 DEF IInv
<1>3. QED BY <1>1, <1>2

LEMMA FrameLengthStep == ASSUME IInv, NEW i \in Slots, FrameLength(i) PROVE IInv'
<1>1. CASE Buffered(i) < 2
  <2>1. Break /\ UNCHANGED <<app_transport_states, app_transport_expect_bytes, app_rx_ring_bufs>>
    BY <1>1 DEF FrameLength, automaton
  <2>2. TypeOK'
    BY <2>1 DEF FrameLength, Break, IInv, TypeOK, login
  <2>3. NothingWaits'
    BY <1>1, <2>1 DEF FrameLength, Break, IInv, NothingWaits, Drained, Buffered
  <2>4. LoginInv'
    BY <2>1 DEF FrameLength, Break, IInv, LoginInv, login
  <2>5. QED BY <2>2, <2>3, <2>4 DEF IInv
<1>2. CASE ~ (Buffered(i) < 2)
  <2> DEFINE expect_len == FrameLen(app_rx_ring_bufs[i])
  <2>1. /\ Read(i, 2)
        /\ app_transport_expect_bytes' = [app_transport_expect_bytes EXCEPT ![i] = expect_len]
        /\ \/ Again /\ UNCHANGED app_transport_states
           \/ /\ TransportState(i, "WAIT_PAYLOAD")
              /\ \/ Buffered(i) - 2 >= expect_len /\ Again
                 \/ ~ (Buffered(i) - 2 >= expect_len) /\ Break
    <3>1. Read(i, 2) /\ app_transport_expect_bytes' = [app_transport_expect_bytes EXCEPT ![i] = expect_len]
      BY <1>2 DEF FrameLength
    <3>2. CASE expect_len = 0
      BY <1>2, <3>1, <3>2 DEF FrameLength
    <3>3. CASE expect_len # 0
      <4>1. /\ TransportState(i, "WAIT_PAYLOAD")
            /\ IF Buffered(i) - 2 >= expect_len THEN Again ELSE Break
        BY <1>2, <3>3 DEF FrameLength
      <4>2. QED BY <3>1, <4>1
    <3>4. QED BY <3>2, <3>3
  <2>2. 2 \in 0 .. Buffered(i) /\ Buffered(i) \in Nat
    BY <1>2 DEF IInv, TypeOK, Buffered
  <2>3. expect_len \in Word
    <3>1. app_rx_ring_bufs[i] \in Seq(Byte) /\ Len(app_rx_ring_bufs[i]) >= 2
      BY <2>2 DEF IInv, TypeOK, Buffered
    <3>2. app_rx_ring_bufs[i][1] \in Byte /\ app_rx_ring_bufs[i][2] \in Byte
      BY <3>1
    <3>3. QED BY <3>2, BytesAre DEF FrameLen
  <2>4. /\ app_rx_ring_bufs' \in [Slots -> Seq(Byte)]
        /\ \A j \in Slots : Len(app_rx_ring_bufs'[j]) <= APP_RX_RB_SZ
        /\ \A j \in Slots \ {i} : app_rx_ring_bufs'[j] = app_rx_ring_bufs[j]
        /\ Len(app_rx_ring_bufs'[i]) = Buffered(i) - 2
    BY <2>1, <2>2, ReadIs DEF IInv
  <2> HIDE DEF expect_len
  <2>5. /\ app_transport_states' \in [Slots -> TransportStates]
        /\ app_transport_expect_bytes' \in [Slots -> Word]
        /\ \A j \in Slots \ {i} : /\ app_transport_states'[j] = app_transport_states[j]
                                  /\ app_transport_expect_bytes'[j] = app_transport_expect_bytes[j]
        /\ app_transport_expect_bytes'[i] = expect_len
    BY <2>1, <2>3 DEF TransportState, TransportStates, IInv, TypeOK
  <2>6. \/ Again
        \/ /\ Break
           /\ app_transport_states'[i] = "WAIT_PAYLOAD"
           /\ ~ (Buffered(i) - 2 >= expect_len)
    BY <2>1 DEF TransportState, IInv, TypeOK
  <2>7. TypeOK'
    BY <2>4, <2>5, <2>6 DEF FrameLength, Break, Again, IInv, TypeOK, login
  <2>8. NothingWaits'
    <3>1. \A j \in Slots \ {i} : Drained(j)'
      BY <2>4, <2>5 DEF FrameLength, IInv, NothingWaits, Drained, Buffered
    <3>2. i # feeding' => Drained(i)'
      <4>1. CASE Again
        BY <4>1 DEF Again, FrameLength
      <4>2. CASE ~Again
        <5>1. app_transport_states'[i] = "WAIT_PAYLOAD" /\ ~ (Buffered(i) - 2 >= expect_len)
          BY <2>6, <4>2
        <5>2. expect_len \in Nat
          BY <2>3, BytesAre
        <5>3. Len(app_rx_ring_bufs'[i]) < app_transport_expect_bytes'[i]
          BY <2>2, <2>4, <2>5, <5>1, <5>2
        <5>4. QED BY <5>1, <5>3 DEF Drained, Buffered
      <4>3. QED BY <4>1, <4>2
    <3>3. QED BY <3>1, <3>2 DEF NothingWaits
  <2>9. LoginInv'
    BY <2>6 DEF FrameLength, Break, Again, IInv, LoginInv, login
  <2>10. QED BY <2>7, <2>8, <2>9 DEF IInv
<1>3. QED BY <1>1, <1>2

LEMMA LogInIs ==
  ASSUME IInv, NEW i \in Slots, NEW payload \in Seq(Byte), LogIn(i, payload),
         app_states[i] = "CONNECTED"
  PROVE  /\ wsid' \in [Slots -> Byte] /\ app_login_complete' \in [Slots -> BOOLEAN]
         /\ \A j \in Slots : wsid'[j] # NoWsid => app_login_complete'[j]
         /\ \A j \in Slots : app_login_complete'[j] => app_states[j] = "CONNECTED"
<1>1. PICK w \in OfferedWsids(payload) :
        IF app_login_complete[i] \/ w = Nobody THEN UNCHANGED login
        ELSE /\ wsid' = [wsid EXCEPT ![i] = w]
             /\ app_login_complete' = [app_login_complete EXCEPT ![i] = TRUE]
  BY DEF LogIn
<1>2. w \in Byte \cup {Nobody}
  <2>1. CASE BsonSize(payload) > Len(payload)
    BY <1>1, <2>1, BytesAre, ConstantsAssumption DEF OfferedWsids
  <2>2. CASE ~ (BsonSize(payload) > Len(payload)) /\ Len(payload) >= 2
    <3>1. payload[2] \in Byte
      BY <2>2
    <3>2. QED BY <1>1, <2>2, <3>1 DEF OfferedWsids
  <2>3. CASE ~ (BsonSize(payload) > Len(payload)) /\ ~ (Len(payload) >= 2)
    BY <1>1, <2>3, BytesAre DEF OfferedWsids
  <2>4. QED BY <2>1, <2>2, <2>3
<1>3. QED BY <1>1, <1>2 DEF IInv, TypeOK, LoginInv, login

LEMMA PayloadStep == ASSUME IInv, NEW i \in Slots, Payload(i) PROVE IInv'
<1> DEFINE payload == First(app_rx_ring_bufs[i], app_transport_expect_bytes[i])
           frame == [wsid |-> wsid'[i], payload |-> payload]
<1>1. /\ app_rx_ring_bufs[i] \in Seq(Byte) /\ Buffered(i) \in Nat
      /\ app_transport_expect_bytes[i] \in 0 .. Buffered(i)
      /\ app_states[i] = "CONNECTED" /\ feeding = i
  <2>1. feeding = i /\ app_states[i] = "CONNECTED"
    BY DEF Payload, IInv, LoginInv, Slots, NoSlot
  <2>2. app_rx_ring_bufs[i] \in Seq(Byte) /\ Buffered(i) \in Nat
    BY DEF IInv, TypeOK, Buffered
  <2>3. app_transport_expect_bytes[i] \in Nat
    BY BytesAre DEF IInv, TypeOK
  <2>4. Buffered(i) >= app_transport_expect_bytes[i]
    BY DEF Payload
  <2>5. QED BY <2>1, <2>2, <2>3, <2>4
<1>2. payload \in Seq(Byte) /\ Len(payload) \in 0 .. Buffered(i)
  BY <1>1, FirstIs DEF Buffered
<1>3. /\ Read(i, Len(payload))
      /\ LogIn(i, payload)
      /\ \/ /\ delivered' = [delivered EXCEPT ![i] = Append(@, frame)]
            /\ TransportState(i, "WAIT_FRAME_LEN")
            /\ \/ Buffered(i) - Len(payload) >= 2 /\ Again
               \/ ~ (Buffered(i) - Len(payload) >= 2) /\ Break
         \/ TransportState(i, "CLOSING") /\ Break /\ UNCHANGED delivered
  <2>1. Read(i, Len(payload)) /\ LogIn(i, payload)
    BY DEF Payload
  <2>2. CASE BsonSize(payload) = Len(payload)
    <3>1. /\ delivered' = [delivered EXCEPT ![i] = Append(@, frame)]
          /\ TransportState(i, "WAIT_FRAME_LEN")
          /\ IF Buffered(i) - Len(payload) >= 2 THEN Again ELSE Break
      BY <2>2 DEF Payload
    <3>2. QED BY <2>1, <3>1
  <2>3. CASE BsonSize(payload) # Len(payload)
    <3>1. TransportState(i, "CLOSING") /\ Break /\ UNCHANGED delivered
      BY <2>3 DEF Payload
    <3>2. QED BY <2>1, <3>1
  <2>4. QED BY <2>2, <2>3
<1> HIDE DEF payload
<1>4. /\ app_rx_ring_bufs' \in [Slots -> Seq(Byte)]
      /\ \A j \in Slots : Len(app_rx_ring_bufs'[j]) <= APP_RX_RB_SZ
      /\ \A j \in Slots \ {i} : app_rx_ring_bufs'[j] = app_rx_ring_bufs[j]
      /\ Len(app_rx_ring_bufs'[i]) = Buffered(i) - Len(payload)
  BY <1>2, <1>3, ReadIs DEF IInv
<1>5. /\ wsid' \in [Slots -> Byte] /\ app_login_complete' \in [Slots -> BOOLEAN]
      /\ \A j \in Slots : wsid'[j] # NoWsid => app_login_complete'[j]
      /\ \A j \in Slots : app_login_complete'[j] => app_states[j] = "CONNECTED"
  BY <1>1, <1>2, <1>3, LogInIs
<1>6. frame \in Frame
  BY <1>2, <1>5 DEF Frame
<1> HIDE DEF frame
<1>7. delivered' \in [Slots -> Seq(Frame)]
  <2>1. delivered \in [Slots -> Seq(Frame)]
    BY DEF IInv, TypeOK
  <2>2. Append(delivered[i], frame) \in Seq(Frame)
    BY <1>6, <2>1
  <2>3. QED BY <1>3, <2>1, <2>2
<1>8. /\ app_transport_states' \in [Slots -> TransportStates]
      /\ \A j \in Slots \ {i} : app_transport_states'[j] = app_transport_states[j]
      /\ \/ Again
         \/ /\ app_transport_states'[i] = "WAIT_FRAME_LEN"
            /\ ~ (Buffered(i) - Len(payload) >= 2) /\ Break
         \/ app_transport_states'[i] = "CLOSING" /\ Break
  BY <1>3 DEF TransportState, TransportStates, IInv, TypeOK
<1>9. TypeOK'
  BY <1>4, <1>5, <1>7, <1>8 DEF Payload, Break, Again, IInv, TypeOK
<1>10. NothingWaits'
  <2>1. \A j \in Slots \ {i} : Drained(j)'
    BY <1>1, <1>4, <1>8 DEF Payload, IInv, NothingWaits, Drained, Buffered
  <2>2. i # feeding' => Drained(i)'
    <3>1. CASE Again
      BY <1>1, <3>1 DEF Again
    <3>2. CASE ~Again
      BY <1>1, <1>2, <1>4, <1>8, <3>2 DEF Drained, Buffered
    <3>3. QED BY <3>1, <3>2
  <2>3. QED BY <2>1, <2>2 DEF NothingWaits
<1>11. LoginInv'
  BY <1>1, <1>5, <1>8 DEF Payload, Break, Again, LoginInv
<1>12. QED BY <1>9, <1>10, <1>11 DEF IInv

LEMMA NothingToReadStep == ASSUME IInv, NEW i \in Slots, NothingToRead(i) PROVE IInv'
<1>1. TypeOK'
  BY DEF NothingToRead, Break, IInv, TypeOK, automaton, login
<1>2. NothingWaits'
  <2>1. \A j \in Slots : j # i => Drained(j)'
    BY DEF NothingToRead, IInv, NothingWaits, Drained, Buffered, automaton
  <2>2. Drained(i)'
    BY DEF NothingToRead, Drained, Buffered, automaton, IInv, TypeOK
  <2>3. QED BY <2>1, <2>2 DEF NothingWaits
<1>3. LoginInv'
  BY DEF NothingToRead, Break, IInv, LoginInv, login
<1>4. QED BY <1>1, <1>2, <1>3 DEF IInv

LEMMA CleanupStep == ASSUME IInv, NEW i \in Slots, Cleanup(i) PROVE IInv'
<1>1. TypeOK'
  BY ConstantsAssumption
     DEF Cleanup, Forget, TransportState, TransportStates, IInv, TypeOK, Byte, NoWsid
<1>2. NothingWaits'
  BY DEF Cleanup, TransportState, IInv, TypeOK, NothingWaits, Drained, Buffered
<1>3. LoginInv'
  BY DEF Cleanup, IInv, TypeOK, LoginInv
<1>4. QED BY <1>1, <1>2, <1>3 DEF IInv

LEMMA Start == Init => IInv
<1> SUFFICES ASSUME Init PROVE IInv
  OBVIOUS
<1>1. TypeOK
  BY BytesAre, ConstantsAssumption DEF Init, TypeOK, TransportStates
<1>2. NothingWaits /\ LoginInv
  BY DEF Init, NothingWaits, Drained, LoginInv, NoWsid
<1>3. QED BY <1>1, <1>2 DEF IInv

LEMMA Step == IInv /\ [Next]_vars => IInv'
<1> SUFFICES ASSUME IInv, [Next]_vars PROVE IInv'
  OBVIOUS
<1>1. CASE UNCHANGED vars
  BY <1>1 DEF vars, automaton, login, IInv, TypeOK, NothingWaits, Drained, Buffered, LoginInv
<1>2. CASE Next
  BY <1>2, ConnectStep, FeedStarts, PreambleStep, FrameLengthStep, PayloadStep,
     NothingToReadStep, CleanupStep DEF Next, FeedStep
<1>3. QED BY <1>1, <1>2

-----------------------------------------------------------------------------
(* Whom the core knows.                                                    *)

\* A login comes with a frame that the core gets, or that is refused.
Heard(i) ==
  wsid[i] # NoWsid =>
    \/ app_transport_states[i] = "CLOSING"
    \/ \E k \in 1 .. Len(delivered[i]) : delivered[i][k].wsid = wsid[i]
HeardInv == \A i \in Slots : Heard(i)

LEMMA HeardStart == Init => HeardInv
  BY DEF Init, HeardInv, Heard

LEMMA HeardPayload ==
  ASSUME IInv, NEW i \in Slots, Payload(i)
  PROVE  Heard(i)'
<1> DEFINE payload == First(app_rx_ring_bufs[i], app_transport_expect_bytes[i])
           frame == [wsid |-> wsid'[i], payload |-> payload]
<1>1. /\ app_transport_states \in [Slots -> TransportStates]
      /\ delivered \in [Slots -> Seq(Frame)] /\ delivered[i] \in Seq(Frame)
  BY DEF IInv, TypeOK
<1>2. CASE BsonSize(payload) = Len(payload)
  <2>1. delivered'[i] = Append(delivered[i], frame)
    BY <1>1, <1>2 DEF Payload
  <2>2. frame.wsid = wsid'[i]
    OBVIOUS
  <2> HIDE DEF frame
  <2>3. /\ Len(delivered[i]) + 1 \in 1 .. Len(delivered'[i])
        /\ delivered'[i][Len(delivered[i]) + 1] = frame
    BY <1>1, <2>1
  <2>4. QED BY <2>2, <2>3 DEF Heard
<1>3. CASE BsonSize(payload) # Len(payload)
  BY <1>1, <1>3 DEF Payload, TransportState, Heard
<1>4. QED BY <1>2, <1>3

LEMMA HeardStep == IInv /\ HeardInv /\ [Next]_vars => HeardInv'
<1> SUFFICES ASSUME IInv, HeardInv, [Next]_vars, NEW j \in Slots PROVE Heard(j)'
  BY DEF HeardInv
<1>1. ASSUME wsid'[j] = wsid[j], delivered'[j] = delivered[j],
             app_transport_states[j] = "CLOSING" => app_transport_states'[j] = "CLOSING"
      PROVE  Heard(j)'
  BY <1>1 DEF HeardInv, Heard
<1>2. CASE UNCHANGED vars
  BY <1>1, <1>2 DEF vars, automaton, login
<1>3. ASSUME NEW i \in Slots, Connect(i) \/ Feed(i) \/ NothingToRead(i) PROVE Heard(j)'
  BY <1>1, <1>3 DEF Connect, Feed, NothingToRead, automaton, login
<1>4. ASSUME NEW i \in Slots, Preamble(i) PROVE Heard(j)'
  <2>1. app_transport_states[j] = "CLOSING" => app_transport_states'[j] = "CLOSING"
    BY <1>4 DEF Preamble, TransportState, IInv, TypeOK
  <2>2. QED BY <1>1, <1>4, <2>1 DEF Preamble, login
<1>5. ASSUME NEW i \in Slots, FrameLength(i) PROVE Heard(j)'
  <2>1. app_transport_states[j] = "CLOSING" => app_transport_states'[j] = "CLOSING"
    BY <1>5 DEF FrameLength, TransportState, automaton, IInv, TypeOK
  <2>2. QED BY <1>1, <1>5, <2>1 DEF FrameLength, login
<1>6. ASSUME NEW i \in Slots, Payload(i) PROVE Heard(j)'
  <2>1. CASE j = i
    BY <1>6, <2>1, HeardPayload
  <2>2. CASE j # i
    <3>1. wsid'[j] = wsid[j]
      BY <1>6, <2>2 DEF Payload, LogIn, login, IInv, TypeOK
    <3>2. /\ delivered'[j] = delivered[j]
          /\ app_transport_states'[j] = app_transport_states[j]
      BY <1>6, <2>2 DEF Payload, TransportState, IInv, TypeOK
    <3>3. QED BY <1>1, <3>1, <3>2
  <2>3. QED BY <2>1, <2>2
<1>7. ASSUME NEW i \in Slots, Cleanup(i) PROVE Heard(j)'
  <2>1. CASE j = i
    BY <1>7, <2>1 DEF Cleanup, Heard, IInv, TypeOK
  <2>2. CASE j # i
    BY <1>1, <1>7, <2>2 DEF Cleanup, Forget, TransportState, IInv, TypeOK
  <2>3. QED BY <2>1, <2>2
<1>8. QED BY <1>2, <1>3, <1>4, <1>5, <1>6, <1>7 DEF Next, FeedStep

-----------------------------------------------------------------------------
(* The ring buffer is the end of what was received.                        *)

\* buf is the end of rec, and what is before it.
Before(buf, rec) == Len(rec) - Len(buf)
EndOf(buf, rec) ==
  /\ Before(buf, rec) >= 0
  /\ \A k \in 1 .. Len(buf) : buf[k] = rec[Before(buf, rec) + k]

LEMMA EndAfterRest ==
  ASSUME NEW buf \in Seq(Byte), NEW rec \in Seq(Byte), EndOf(buf, rec), NEW n \in 0 .. Len(buf)
  PROVE  EndOf(Rest(buf, n), rec) /\ Before(Rest(buf, n), rec) = Before(buf, rec) + n
<1>1. Rest(buf, n) \in Seq(Byte) /\ Len(Rest(buf, n)) = Len(buf) - n
  BY RestIs
<1>2. \A k \in 1 .. Len(buf) - n : Rest(buf, n)[k] = buf[k + n]
  BY DEF Rest
<1>3. Before(Rest(buf, n), rec) = Before(buf, rec) + n
  BY <1>1 DEF Before
<1>4. ASSUME NEW k \in 1 .. Len(buf) - n
      PROVE  Rest(buf, n)[k] = rec[Before(buf, rec) + n + k]
  <2>1. k + n \in 1 .. Len(buf) /\ Before(buf, rec) + (k + n) = Before(buf, rec) + n + k
    BY DEF Before
  <2>2. buf[k + n] = rec[Before(buf, rec) + (k + n)]
    BY <2>1 DEF EndOf
  <2>3. QED BY <1>2, <2>1, <2>2
<1>5. QED BY <1>1, <1>3, <1>4 DEF EndOf, Before

LEMMA EndAfterConcat ==
  ASSUME NEW buf \in Seq(Byte), NEW rec \in Seq(Byte), EndOf(buf, rec), NEW t \in Seq(Byte)
  PROVE  EndOf(buf \o t, rec \o t) /\ Before(buf \o t, rec \o t) = Before(buf, rec)
<1>1. /\ Len(buf \o t) = Len(buf) + Len(t) /\ Len(rec \o t) = Len(rec) + Len(t)
      /\ Before(buf \o t, rec \o t) = Before(buf, rec)
  BY DEF Before
<1>2. ASSUME NEW k \in 1 .. Len(buf) + Len(t)
      PROVE  (buf \o t)[k] = (rec \o t)[Before(buf, rec) + k]
  <2>1. CASE k <= Len(buf)
    <3>1. buf[k] = rec[Before(buf, rec) + k] /\ Before(buf, rec) + k \in 1 .. Len(rec)
      BY <2>1 DEF EndOf, Before
    <3>2. QED BY <2>1, <3>1
  <2>2. CASE ~ (k <= Len(buf))
    <3>1. Before(buf, rec) + k = Len(rec) + (k - Len(buf)) /\ k - Len(buf) \in 1 .. Len(t)
      BY <2>2 DEF Before
    <3>2. (buf \o t)[k] = t[k - Len(buf)] /\ (rec \o t)[Len(rec) + (k - Len(buf))] = t[k - Len(buf)]
      BY <2>2, <3>1
    <3>3. QED BY <3>1, <3>2
  <2>3. QED BY <2>1, <2>2
<1>3. QED BY <1>1, <1>2 DEF EndOf

\* What is read from the ring buffer are the next bytes of the stream.
LEMMA NextBytes ==
  ASSUME NEW buf \in Seq(Byte), NEW rec \in Seq(Byte), EndOf(buf, rec), NEW n \in 0 .. Len(buf),
         NEW p, p = Before(buf, rec)
  PROVE  First(buf, n) = SubSeq(rec, p + 1, p + n)
<1>1. p \in Nat
  BY DEF EndOf, Before
<1>2. First(buf, n) = [k \in 1 .. n |-> buf[k]]
  BY DEF First
<1>3. SubSeq(rec, p + 1, p + n) = [k \in 1 .. n |-> rec[p + k]]
  <2>1. p + n <= Len(rec)
    BY DEF Before
  <2>2. QED BY <1>1, <2>1, SliceIs
<1>4. \A k \in 1 .. n : buf[k] = rec[p + k]
  BY DEF EndOf
<1>5. QED BY <1>2, <1>3, <1>4

\* What was there is still there when bytes arrive.
LEMMA ConcatKeeps ==
  ASSUME NEW s \in Seq(Byte), NEW t \in Seq(Byte)
  PROVE  /\ \A k \in 1 .. Len(s) : (s \o t)[k] = s[k]
         /\ First(s \o t, Len(s)) = s
<1>1. \A k \in 1 .. Len(s) : (s \o t)[k] = s[k]
  OBVIOUS
<1>2. First(s \o t, Len(s)) = [k \in 1 .. Len(s) |-> (s \o t)[k]]
  BY DEF First
<1>3. s = [k \in 1 .. Len(s) |-> s[k]]
  OBVIOUS
<1>4. QED BY <1>1, <1>2, <1>3

\* A payload is waited for when its length has been read, and is not empty.
LengthRead(buf, rec, expect) ==
  LET p == Before(buf, rec) IN
  /\ p >= 2
  /\ expect # 0
  /\ expect = 256 * rec[p - 1] + rec[p]

\* What ties a connection's automaton to its stream.
StreamOf(i) ==
  /\ EndOf(app_rx_ring_bufs[i], received[i])
  /\ app_transport_states[i] = "WAIT_PAYLOAD" =>
       LengthRead(app_rx_ring_bufs[i], received[i], app_transport_expect_bytes[i])

StreamInv == \A i \in Slots : StreamOf(i)

FInv == IInv /\ StreamInv

-----------------------------------------------------------------------------
(* Each step keeps StreamInv and is a step of FrameStream, or none.         *)

\* What a step of another connection leaves alone.
Kept(j) ==
  /\ app_rx_ring_bufs'[j] = app_rx_ring_bufs[j] /\ received'[j] = received[j]
  /\ app_transport_states'[j] = app_transport_states[j]
  /\ app_transport_expect_bytes'[j] = app_transport_expect_bytes[j]
  /\ app_login_complete'[j] = app_login_complete[j] /\ wsid'[j] = wsid[j]

LEMMA OthersKept ==
  ASSUME StreamInv, NEW i \in Slots, \A j \in Slots \ {i} : Kept(j), StreamOf(i)'
  PROVE  StreamInv'
<1> SUFFICES ASSUME NEW j \in Slots PROVE StreamOf(j)'
  BY DEF StreamInv
<1>1. CASE j = i
  BY <1>1
<1>2. CASE j # i
  BY <1>2 DEF StreamInv, StreamOf, Kept
<1>3. QED BY <1>1, <1>2

\* The mapped variables move at one connection.
LEMMA OneMoves ==
  ASSUME NEW i \in Slots, \A j \in Slots \ {i} : Kept(j)
  PROVE  /\ Pos' = [Pos EXCEPT ![i] = Pos'[i]]
         /\ Phase' = [Phase EXCEPT ![i] = Phase'[i]]
<1>1. \A j \in Slots \ {i} : Pos'[j] = Pos[j] /\ Phase'[j] = Phase[j]
  BY DEF Pos, Phase, Kept, Buffered
<1>2. /\ Pos = [j \in Slots |-> Pos[j]] /\ Pos' = [j \in Slots |-> Pos'[j]]
      /\ Phase = [j \in Slots |-> Phase[j]] /\ Phase' = [j \in Slots |-> Phase'[j]]
  BY DEF Pos, Phase
<1> HIDE DEF Pos, Phase
<1>3. QED BY <1>1, <1>2

LEMMA PosIs ==
  ASSUME NEW i \in Slots
  PROVE  /\ Pos[i] = LET b == Before(app_rx_ring_bufs[i], received[i])
                     IN IF app_transport_states[i] = "WAIT_PAYLOAD" THEN b - 2 ELSE b
         /\ Pos'[i] = LET b == Before(app_rx_ring_bufs'[i], received'[i])
                      IN IF app_transport_states'[i] = "WAIT_PAYLOAD" THEN b - 2 ELSE b
  BY DEF Pos, Before, Buffered

LEMMA FramesAre ==
  /\ Frames!Plain = Plain /\ Frames!Secure = Secure
  /\ Frames!Nobody = Nobody /\ Frames!Byte = Byte
  /\ \A payload : /\ Frames!BsonSize(payload) = BsonSize(payload)
                  /\ Frames!OfferedWsids(payload) = OfferedWsids(payload)
  /\ \A w : Frames!WsidOf(w) = WsidOf(w)
  /\ \A s, n : Frames!First(s, n) = First(s, n) /\ Frames!Rest(s, n) = Rest(s, n)
<1>1. Frames!NoWsid = NoWsid /\ Frames!Nobody = Nobody
  BY DEF Frames!NoWsid, NoWsid, Frames!Nobody, Nobody
<1>2. \A payload : Frames!BsonSize(payload) = BsonSize(payload)
  BY DEF Frames!BsonSize, BsonSize
<1>3. /\ \A payload : Frames!OfferedWsids(payload) = OfferedWsids(payload)
      /\ \A w : Frames!WsidOf(w) = WsidOf(w)
  BY <1>1, <1>2 DEF Frames!OfferedWsids, OfferedWsids, Frames!WsidOf, WsidOf
<1>4. QED BY <1>1, <1>2, <1>3
     DEF Frames!Plain, Plain, Frames!Secure, Secure, Frames!Byte, Byte, Frames!First, First,
         Frames!Rest, Rest

LEMMA StandsStill ==
  ASSUME UNCHANGED <<app_states, received, app_login_complete, wsid, delivered>>,
         NEW i \in Slots, \A j \in Slots \ {i} : Kept(j), Pos'[i] = Pos[i], Phase'[i] = Phase[i]
  PROVE  UNCHANGED Frames!vars
<1>1. Pos' = Pos /\ Phase' = Phase
  <2>1. Pos = [Pos EXCEPT ![i] = Pos[i]] /\ Phase = [Phase EXCEPT ![i] = Phase[i]]
    BY DEF Pos, Phase
  <2>2. QED BY <2>1, OneMoves
<1>2. Up' = Up
  BY DEF Up
<1>3. Who' = Who
  BY DEF Who
<1>4. QED BY <1>1, <1>2, <1>3 DEF Frames!vars

LEMMA ConnectFrames ==
  ASSUME FInv, NEW i \in Slots, Connect(i)
  PROVE  StreamInv' /\ Frames!Next
<1>1. StreamInv'
  BY DEF Connect, FInv, StreamInv, StreamOf, automaton, login
<1>2. Pos' = Pos /\ Phase' = Phase
  BY DEF Connect, Pos, Phase, Buffered, automaton
<1>3. i \notin Up /\ Up' = Up \cup {i}
  BY DEF Connect, Up, FInv, IInv, TypeOK
<1>4. Who' = Who
  BY DEF Connect, Who, login
<1>5. Frames!Open(i)
  BY <1>2, <1>3, <1>4 DEF Connect, Frames!Open
<1>6. QED BY <1>1, <1>5 DEF Frames!Next

LEMMA FeedFrames ==
  ASSUME FInv, NEW i \in Slots, Feed(i)
  PROVE  StreamInv' /\ Frames!Next
<1>1. PICK n \in 1 .. Len(wire[i]) :
        /\ app_rx_ring_bufs' = [app_rx_ring_bufs EXCEPT ![i] = @ \o First(wire[i], n)]
        /\ received' = [received EXCEPT ![i] = @ \o First(wire[i], n)]
  BY DEF Feed
<1> DEFINE buf == app_rx_ring_bufs[i]
           rec == received[i]
           t == First(wire[i], n)
<1>2. buf \in Seq(Byte) /\ rec \in Seq(Byte) /\ received \in [Slots -> Seq(Byte)]
  BY DEF FInv, IInv, TypeOK
<1>3. t \in Seq(Byte) /\ Len(t) = n
  <2>1. wire[i] \in Seq(Byte) /\ n \in 0 .. Len(wire[i])
    BY DEF FInv, IInv, TypeOK
  <2>2. QED BY <2>1, FirstIs
<1>4. /\ app_rx_ring_bufs'[i] = buf \o t /\ received'[i] = rec \o t
      /\ received' = [received EXCEPT ![i] = rec \o t]
  BY <1>1 DEF FInv, IInv, TypeOK
<1>5. EndOf(buf, rec)
  BY DEF FInv, StreamInv, StreamOf
<1>6. \A j \in Slots \ {i} : Kept(j)
  BY <1>1 DEF Feed, Kept, FInv, IInv, TypeOK, automaton, login
<1>7. UNCHANGED <<app_states, app_transport_states, app_transport_expect_bytes,
                  app_login_complete, wsid, delivered>>
  BY DEF Feed, automaton, login
<1> HIDE DEF buf, rec, t
<1>8. /\ EndOf(buf \o t, rec \o t) /\ Before(buf \o t, rec \o t) = Before(buf, rec)
      /\ \A k \in 1 .. Len(rec) : (rec \o t)[k] = rec[k]
      /\ First(rec \o t, Len(rec)) = rec
      /\ rec \o t \in Seq(Byte) /\ Len(rec \o t) = Len(rec) + n
  BY <1>2, <1>3, <1>5, EndAfterConcat, ConcatKeeps, ConcatIs
<1>9. StreamOf(i)'
  <2>1. EndOf(app_rx_ring_bufs'[i], received'[i])
    BY <1>4, <1>8
  <2>2. ASSUME app_transport_states'[i] = "WAIT_PAYLOAD"
        PROVE  LengthRead(app_rx_ring_bufs'[i], received'[i], app_transport_expect_bytes'[i])
    <3>1. LengthRead(buf, rec, app_transport_expect_bytes[i])
      BY <1>7, <2>2 DEF FInv, StreamInv, StreamOf, buf, rec
    <3>2. Before(buf, rec) - 1 \in 1 .. Len(rec) /\ Before(buf, rec) \in 1 .. Len(rec)
      BY <1>2, <3>1 DEF LengthRead, Before
    <3>3. LengthRead(buf \o t, rec \o t, app_transport_expect_bytes[i])
      BY <1>8, <3>1, <3>2 DEF LengthRead
    <3>4. QED BY <1>4, <1>7, <3>3
  <2>3. QED BY <2>1, <2>2 DEF StreamOf
<1>10. Pos' = Pos /\ Phase' = Phase
  <2>1. Pos'[i] = Pos[i] /\ Phase'[i] = Phase[i]
    <3>1. Before(app_rx_ring_bufs'[i], received'[i]) = Before(app_rx_ring_bufs[i], received[i])
      BY <1>4, <1>8 DEF buf, rec
    <3>2. app_transport_states'[i] = app_transport_states[i]
      BY <1>7
    <3>3. QED BY <3>1, <3>2, PosIs DEF Phase
  <2>2. Pos = [Pos EXCEPT ![i] = Pos[i]] /\ Phase = [Phase EXCEPT ![i] = Phase[i]]
    BY DEF Pos, Phase
  <2>3. QED BY <1>6, <2>1, <2>2, OneMoves
<1>11. i \in Up /\ Up' = Up
  BY <1>7 DEF Feed, Up
<1>12. Frames!Arrive(i)
  <2>1. /\ received'[i] \in Seq(Byte) /\ Len(received'[i]) > Len(received[i])
        /\ First(received'[i], Len(received[i])) = received[i]
        /\ received' = [received EXCEPT ![i] = received'[i]]
    BY <1>2, <1>4, <1>8, n \in 1 .. Len(wire[i]) DEF rec
  <2>2. Who' = Who
    BY <1>7 DEF Who
  <2>3. QED BY <1>7, <1>10, <1>11, <2>1, <2>2 DEF Frames!Arrive, Frames!First, First, Frames!Byte, Byte
<1>13. QED BY <1>6, <1>9, <1>12, OthersKept DEF FInv, Frames!Next

\* Reading n bytes from the ring buffer is reading the next n of the stream.
LEMMA ReadMoves ==
  ASSUME FInv, NEW i \in Slots, NEW n \in 0 .. Buffered(i), Read(i, n), UNCHANGED received,
         NEW p, p = Before(app_rx_ring_bufs[i], received[i])
  PROVE  /\ \A j \in Slots \ {i} : app_rx_ring_bufs'[j] = app_rx_ring_bufs[j]
         /\ EndOf(app_rx_ring_bufs'[i], received'[i])
         /\ Before(app_rx_ring_bufs'[i], received'[i]) = p + n
         /\ p \in Nat /\ p + n <= Len(received[i])
         /\ First(app_rx_ring_bufs[i], n) = SubSeq(received[i], p + 1, p + n)
<1>1. /\ app_rx_ring_bufs \in [Slots -> Seq(Byte)] /\ app_rx_ring_bufs[i] \in Seq(Byte)
      /\ received[i] \in Seq(Byte)
      /\ EndOf(app_rx_ring_bufs[i], received[i]) /\ n \in 0 .. Len(app_rx_ring_bufs[i])
  BY DEF FInv, IInv, TypeOK, StreamInv, StreamOf, Buffered
<1>2. /\ app_rx_ring_bufs'[i] = Rest(app_rx_ring_bufs[i], n)
      /\ \A j \in Slots \ {i} : app_rx_ring_bufs'[j] = app_rx_ring_bufs[j]
  BY <1>1 DEF Read
<1>3. /\ EndOf(app_rx_ring_bufs'[i], received'[i])
      /\ Before(app_rx_ring_bufs'[i], received'[i]) = p + n
  BY <1>1, <1>2, EndAfterRest
<1>4. p \in Nat /\ p + n <= Len(received[i])
  BY <1>1 DEF EndOf, Before
<1>5. QED BY <1>1, <1>2, <1>3, <1>4, NextBytes

LEMMA PreambleFrames ==
  ASSUME FInv, NEW i \in Slots, Preamble(i)
  PROVE  StreamInv' /\ [Frames!Next]_Frames!vars
<1>1. /\ UNCHANGED <<app_states, app_transport_expect_bytes, app_login_complete, wsid,
                     received, delivered>>
      /\ app_transport_states[i] = "INITIAL" /\ app_states[i] = "CONNECTED"
  BY DEF Preamble, FInv, IInv, LoginInv, login, Slots, NoSlot
<1>2. CASE Buffered(i) < 3
  <2>1. UNCHANGED <<app_transport_states, app_rx_ring_bufs>>
    BY <1>2 DEF Preamble, FInv, IInv, TypeOK, Buffered
  <2>2. StreamInv'
    BY <1>1, <2>1 DEF FInv, StreamInv, StreamOf
  <2>3. UNCHANGED Frames!vars
    BY <1>1, <2>1 DEF Frames!vars, Up, Pos, Phase, Who, Buffered
  <2>4. QED BY <2>2, <2>3
<1>3. CASE ~ (Buffered(i) < 3)
  <2> DEFINE preamble == First(app_rx_ring_bufs[i], 3)
             p == Before(app_rx_ring_bufs[i], received[i])
  <2>1. Read(i, 3) /\ 3 \in 0 .. Buffered(i)
    BY <1>3 DEF Preamble, FInv, IInv, TypeOK, Buffered
  <2>2. /\ app_transport_states' = [app_transport_states EXCEPT ![i] =
             IF preamble = Plain THEN "WAIT_FRAME_LEN"
             ELSE IF preamble = Secure THEN "CLOSING" ELSE "INITIAL"]
    <3>1. app_transport_states = [app_transport_states EXCEPT ![i] = "INITIAL"]
      BY <1>1 DEF FInv, IInv, TypeOK
    <3>2. Plain # Secure
      <4>1. Plain[3] # Secure[3]
        BY DEF Plain, Secure
      <4>2. QED BY <4>1
    <3>3. \/ preamble = Secure /\ TransportState(i, "CLOSING")
          \/ preamble = Plain /\ TransportState(i, "WAIT_FRAME_LEN")
          \/ preamble \notin {Plain, Secure} /\ UNCHANGED app_transport_states
      BY <1>3 DEF Preamble
    <3>4. QED BY <3>1, <3>2, <3>3 DEF TransportState
  <2>3. /\ \A j \in Slots \ {i} : app_rx_ring_bufs'[j] = app_rx_ring_bufs[j]
        /\ EndOf(app_rx_ring_bufs'[i], received'[i])
        /\ Before(app_rx_ring_bufs'[i], received'[i]) = p + 3
        /\ p \in Nat /\ p + 3 <= Len(received[i])
        /\ preamble = SubSeq(received[i], p + 1, p + 3)
    BY <1>1, <2>1, ReadMoves
  <2> HIDE DEF p, preamble
  <2>4. /\ app_transport_states'[i] = IF preamble = Plain THEN "WAIT_FRAME_LEN"
                                      ELSE IF preamble = Secure THEN "CLOSING" ELSE "INITIAL"
        /\ \A j \in Slots \ {i} : app_transport_states'[j] = app_transport_states[j]
    BY <2>2 DEF FInv, IInv, TypeOK
  <2>5. \A j \in Slots \ {i} : Kept(j)
    BY <1>1, <2>3, <2>4 DEF Kept
  <2>6. StreamOf(i)'
    BY <2>3, <2>4 DEF StreamOf
  <2>7. Pos[i] = p /\ Pos'[i] = p + 3
    BY <1>1, <2>3, <2>4, PosIs DEF p
  <2>8. /\ Phase[i] = "greeting"
        /\ Phase'[i] = CASE preamble = Plain -> "frames"
                         [] preamble = Secure -> "refused"
                         [] OTHER -> "greeting"
    <3>1. Plain # Secure
      <4>1. Plain[3] # Secure[3]
        BY DEF Plain, Secure
      <4>2. QED BY <4>1
    <3>2. QED BY <1>1, <2>4, <3>1 DEF Phase
  <2>9. Frames!Greet(i)
    <3>1. Pos' = [Pos EXCEPT ![i] = @ + 3]
      BY <2>5, <2>7, OneMoves DEF Pos
    <3>2. Frames!Ahead(i, 3) = preamble /\ Frames!Has(i, 3)
      BY <2>3, <2>7 DEF Frames!Ahead, Frames!Has
    <3>3. Frames!Plain = Plain /\ Frames!Secure = Secure
      BY DEF Frames!Plain, Plain, Frames!Secure, Secure
    <3>4. i \in Up /\ Up' = Up
      BY <1>1 DEF Up
    <3>5. Phase' = [Phase EXCEPT ![i] =
            CASE Frames!Ahead(i, 3) = Frames!Plain -> "frames"
              [] Frames!Ahead(i, 3) = Frames!Secure -> "refused"
              [] OTHER -> "greeting"]
      BY <2>5, <2>8, <3>2, <3>3, OneMoves
    <3>6. Who' = Who
      BY <1>1 DEF Who
    <3>7. QED BY <1>1, <2>8, <3>1, <3>2, <3>4, <3>5, <3>6 DEF Frames!Greet, Frames!Advance
  <2>10. QED BY <2>5, <2>6, <2>9, OthersKept DEF FInv, Frames!Next
<1>4. QED BY <1>2, <1>3

LEMMA FrameLengthFrames ==
  ASSUME FInv, NEW i \in Slots, FrameLength(i)
  PROVE  StreamInv' /\ [Frames!Next]_Frames!vars
<1>1. /\ UNCHANGED <<app_states, app_login_complete, wsid, received, delivered>>
      /\ app_transport_states[i] = "WAIT_FRAME_LEN" /\ app_states[i] = "CONNECTED"
  BY DEF FrameLength, FInv, IInv, LoginInv, login, Slots, NoSlot
<1>2. CASE Buffered(i) < 2
  <2>1. UNCHANGED <<app_transport_states, app_transport_expect_bytes, app_rx_ring_bufs>>
    BY <1>2 DEF FrameLength, automaton
  <2>2. StreamInv'
    BY <1>1, <2>1 DEF FInv, StreamInv, StreamOf
  <2>3. UNCHANGED Frames!vars
    BY <1>1, <2>1 DEF Frames!vars, Up, Pos, Phase, Who, Buffered
  <2>4. QED BY <2>2, <2>3
<1>3. CASE ~ (Buffered(i) < 2)
  <2> DEFINE expect_len == FrameLen(app_rx_ring_bufs[i])
             p == Before(app_rx_ring_bufs[i], received[i])
  <2>1. /\ Read(i, 2) /\ 2 \in 0 .. Buffered(i)
        /\ app_transport_expect_bytes' = [app_transport_expect_bytes EXCEPT ![i] = expect_len]
        /\ \/ expect_len = 0 /\ UNCHANGED app_transport_states
           \/ expect_len # 0 /\ TransportState(i, "WAIT_PAYLOAD")
    BY <1>3 DEF FrameLength, FInv, IInv, TypeOK, Buffered
  <2>2. /\ \A j \in Slots \ {i} : app_rx_ring_bufs'[j] = app_rx_ring_bufs[j]
        /\ EndOf(app_rx_ring_bufs'[i], received'[i])
        /\ Before(app_rx_ring_bufs'[i], received'[i]) = p + 2
        /\ p \in Nat /\ p + 2 <= Len(received[i])
    BY <1>1, <2>1, ReadMoves
  <2>3. expect_len = 256 * received[i][p + 1] + received[i][p + 2]
    <3>1. /\ app_rx_ring_bufs[i][1] = received[i][p + 1]
          /\ app_rx_ring_bufs[i][2] = received[i][p + 2]
      BY <2>1 DEF FInv, StreamInv, StreamOf, EndOf, Buffered
    <3>2. QED BY <3>1 DEF FrameLen
  <2> HIDE DEF p, expect_len
  <2>4. /\ app_transport_expect_bytes'[i] = expect_len
        /\ \A j \in Slots \ {i} : /\ app_transport_states'[j] = app_transport_states[j]
                                  /\ app_transport_expect_bytes'[j] = app_transport_expect_bytes[j]
        /\ \/ expect_len = 0 /\ app_transport_states'[i] = "WAIT_FRAME_LEN"
           \/ expect_len # 0 /\ app_transport_states'[i] = "WAIT_PAYLOAD"
    BY <1>1, <2>1 DEF TransportState, FInv, IInv, TypeOK
  <2>5. \A j \in Slots \ {i} : Kept(j)
    BY <1>1, <2>2, <2>4 DEF Kept
  <2>6. StreamOf(i)'
    <3>1. app_transport_states'[i] = "WAIT_PAYLOAD" =>
            LengthRead(app_rx_ring_bufs'[i], received'[i], app_transport_expect_bytes'[i])
      <4>1. (p + 2) - 1 = p + 1
        BY <2>2
      <4>2. QED BY <1>1, <2>2, <2>3, <2>4, <4>1 DEF LengthRead
    <3>2. QED BY <2>2, <3>1 DEF StreamOf
  <2>7. CASE expect_len # 0
    <3>1. Pos'[i] = Pos[i] /\ Phase'[i] = Phase[i]
      <4>1. Pos[i] = p /\ Pos'[i] = (p + 2) - 2
        BY <1>1, <2>2, <2>4, <2>7, PosIs DEF p
      <4>2. QED BY <1>1, <2>2, <2>4, <2>7, <4>1 DEF Phase
    <3>2. UNCHANGED Frames!vars
      BY <1>1, <2>5, <3>1, StandsStill
    <3>3. QED BY <2>5, <2>6, <3>2, OthersKept DEF FInv
  <2>8. CASE expect_len = 0
    <3>1. Pos[i] = p /\ Pos'[i] = p + 2
      BY <1>1, <2>2, <2>4, <2>8, PosIs DEF p
    <3>2. Pos' = [Pos EXCEPT ![i] = @ + 2]
      BY <2>5, <3>1, OneMoves DEF Pos
    <3>3. Phase[i] = "frames" /\ Phase' = Phase
      <4>1. Phase[i] = "frames" /\ Phase'[i] = Phase[i]
        BY <1>1, <2>4, <2>8 DEF Phase
      <4>2. Phase = [Phase EXCEPT ![i] = Phase[i]]
        BY DEF Phase
      <4>3. QED BY <2>5, <4>1, <4>2, OneMoves
    <3>4. i \in Up /\ Up' = Up
      BY <1>1 DEF Up
    <3>5. Frames!Has(i, 2) /\ Frames!Length(i) = 0
      <4>1. received[i] \in Seq(Byte) /\ Len(received[i]) >= p + 2 /\ p \in Nat
        BY <2>2 DEF FInv, IInv, TypeOK
      <4>2. SubSeq(received[i], p + 1, p + 2) = [k \in 1 .. 2 |-> received[i][p + k]]
        BY <4>1, SliceIs
      <4>3. QED BY <2>2, <2>3, <2>8, <3>1, <4>2 DEF Frames!Has, Frames!Length, Frames!Ahead
    <3>6. Who' = Who
      BY <1>1 DEF Who
    <3>7. Frames!SkipEmpty(i)
      BY <1>1, <3>2, <3>3, <3>4, <3>5, <3>6 DEF Frames!SkipEmpty, Frames!Advance
    <3>8. QED BY <2>5, <2>6, <3>7, OthersKept DEF FInv, Frames!Next
  <2>9. QED BY <2>7, <2>8
<1>4. QED BY <1>2, <1>3

\* A payload is what follows its length.
LEMMA AfterLength ==
  ASSUME NEW S, NEW s \in Seq(S), NEW p \in Nat, NEW n \in Nat, p >= 2, p + n <= Len(s)
  PROVE  Rest(SubSeq(s, (p - 2) + 1, (p - 2) + (2 + n)), 2) = SubSeq(s, p + 1, p + n)
<1> DEFINE q == p - 2
           m == 2 + n
           t == SubSeq(s, q + 1, q + m)
<1>1. q \in Nat /\ m \in Nat /\ q + m <= Len(s)
  OBVIOUS
<1>2. t = [k \in 1 .. m |-> s[q + k]]
  BY <1>1, SliceIs
<1>3. \A k \in 1 .. m : s[q + k] \in S
  BY <1>1
<1> HIDE DEF t
<1>4. t \in Seq(S) /\ Len(t) = m
  BY <1>1, <1>2, <1>3, FunctionIsSeq
<1>5. SubSeq(t, 2 + 1, 2 + n) = [k \in 1 .. n |-> t[2 + k]]
  BY <1>4, SliceIs
<1>6. \A k \in 1 .. n : t[2 + k] = s[p + k]
  <2>1. ASSUME NEW k \in 1 .. n
        PROVE  2 + k \in 1 .. m /\ q + (2 + k) = p + k
    OBVIOUS
  <2>2. QED BY <1>2, <2>1
<1>7. Rest(t, 2) = [k \in 1 .. n |-> s[p + k]]
  BY <1>4, <1>5, <1>6 DEF Rest
<1>8. SubSeq(s, p + 1, p + n) = [k \in 1 .. n |-> s[p + k]]
  BY SliceIs
<1>9. QED BY <1>7, <1>8 DEF t

LEMMA WhoIs ==
  ASSUME FInv, NEW i \in Slots
  PROVE  /\ wsid[i] = WsidOf(Who[i])
         /\ Who[i] \in Byte \cup {Nobody}
         /\ app_login_complete[i] <=> Who[i] # Nobody
<1>1. wsid[i] \in Byte /\ app_login_complete[i] \in BOOLEAN
  BY DEF FInv, IInv, TypeOK
<1>2. Nobody \notin Byte
  BY DEF Nobody, Byte
<1>3. wsid[i] # NoWsid => app_login_complete[i]
  BY DEF FInv, IInv, LoginInv
<1>4. Who[i] = IF app_login_complete[i] THEN wsid[i] ELSE Nobody
  BY DEF Who
<1>5. QED BY <1>1, <1>2, <1>3, <1>4 DEF WsidOf

LEMMA LogInFrames ==
  ASSUME FInv, NEW i \in Slots, NEW payload, LogIn(i, payload)
  PROVE  /\ \A j \in Slots \ {i} : /\ wsid'[j] = wsid[j]
                                   /\ app_login_complete'[j] = app_login_complete[j]
         /\ wsid'[i] = WsidOf(Who'[i])
         /\ IF Who[i] = Nobody
            THEN \E w \in OfferedWsids(payload) : Who' = [Who EXCEPT ![i] = w]
            ELSE UNCHANGED Who
<1>1. PICK w \in OfferedWsids(payload) :
        IF app_login_complete[i] \/ w = Nobody THEN UNCHANGED login
        ELSE /\ wsid' = [wsid EXCEPT ![i] = w]
             /\ app_login_complete' = [app_login_complete EXCEPT ![i] = TRUE]
  BY DEF LogIn
<1>2. wsid \in [Slots -> Byte] /\ app_login_complete \in [Slots -> BOOLEAN]
  BY DEF FInv, IInv, TypeOK
<1>3. CASE app_login_complete[i] \/ w = Nobody
  <2>1. wsid' = wsid /\ app_login_complete' = app_login_complete
    BY <1>1, <1>3 DEF login
  <2>2. Who' = Who
    BY <2>1 DEF Who
  <2>3. Who[i] = Nobody => w = Nobody /\ Who = [Who EXCEPT ![i] = w]
    <3>1. Who = [Who EXCEPT ![i] = Who[i]]
      BY DEF Who
    <3>2. QED BY <1>3, <3>1, WhoIs
  <2>4. QED BY <1>1, <2>1, <2>2, <2>3, WhoIs
<1>4. CASE ~ (app_login_complete[i] \/ w = Nobody)
  <2>1. /\ wsid' = [wsid EXCEPT ![i] = w]
        /\ app_login_complete' = [app_login_complete EXCEPT ![i] = TRUE]
    BY <1>1, <1>4
  <2>2. /\ wsid'[i] = w /\ app_login_complete'[i]
        /\ \A j \in Slots \ {i} : /\ wsid'[j] = wsid[j]
                                  /\ app_login_complete'[j] = app_login_complete[j]
    BY <1>2, <2>1
  <2>3. Who' = [Who EXCEPT ![i] = w]
    BY <2>2 DEF Who
  <2>4. Who'[i] = w
    BY <2>3 DEF Who
  <2>5. QED BY <1>1, <1>4, <2>2, <2>3, <2>4, WhoIs DEF WsidOf
<1>5. QED BY <1>3, <1>4

LEMMA PayloadFrames ==
  ASSUME FInv, NEW i \in Slots, Payload(i)
  PROVE  StreamInv' /\ Frames!Next
<1> DEFINE n == app_transport_expect_bytes[i]
           payload == First(app_rx_ring_bufs[i], n)
           rec == received[i]
           p == Before(app_rx_ring_bufs[i], rec)
<1>1. /\ UNCHANGED <<app_states, app_transport_expect_bytes, received>>
      /\ app_transport_states[i] = "WAIT_PAYLOAD" /\ app_states[i] = "CONNECTED"
  BY DEF Payload, FInv, IInv, LoginInv, Slots, NoSlot
<1>2. n \in 0 .. Buffered(i) /\ Len(payload) = n /\ rec \in Seq(Byte)
  <2>1. n \in Nat /\ app_rx_ring_bufs[i] \in Seq(Byte) /\ rec \in Seq(Byte)
    BY BytesAre DEF FInv, IInv, TypeOK
  <2>2. Buffered(i) >= n
    BY DEF Payload
  <2>3. n \in 0 .. Len(app_rx_ring_bufs[i])
    BY <2>1, <2>2 DEF Buffered
  <2>4. QED BY <2>1, <2>3, FirstIs DEF Buffered
<1>3. /\ Read(i, n)
      /\ LogIn(i, payload)
      /\ IF BsonSize(payload) = n
         THEN /\ delivered' = [delivered EXCEPT ![i] =
                   Append(@, [wsid |-> wsid'[i], payload |-> payload])]
              /\ TransportState(i, "WAIT_FRAME_LEN")
         ELSE TransportState(i, "CLOSING") /\ UNCHANGED delivered
  BY <1>2 DEF Payload
<1>4. /\ \A j \in Slots \ {i} : app_rx_ring_bufs'[j] = app_rx_ring_bufs[j]
      /\ EndOf(app_rx_ring_bufs'[i], received'[i])
      /\ Before(app_rx_ring_bufs'[i], received'[i]) = p + n
      /\ p \in Nat /\ p + n <= Len(rec)
      /\ payload = SubSeq(rec, p + 1, p + n)
  BY <1>1, <1>2, <1>3, ReadMoves
<1>5. p >= 2 /\ n # 0 /\ n = 256 * rec[p - 1] + rec[p]
  BY <1>1 DEF FInv, StreamInv, StreamOf, LengthRead
<1>6. /\ \A j \in Slots \ {i} : /\ wsid'[j] = wsid[j]
                                /\ app_login_complete'[j] = app_login_complete[j]
      /\ wsid'[i] = WsidOf(Who'[i])
      /\ IF Who[i] = Nobody
         THEN \E w \in OfferedWsids(payload) : Who' = [Who EXCEPT ![i] = w]
         ELSE UNCHANGED Who
  BY <1>3, LogInFrames
<1> HIDE DEF n, payload, rec, p
<1>7. /\ app_transport_states'[i] = IF BsonSize(payload) = n THEN "WAIT_FRAME_LEN" ELSE "CLOSING"
      /\ \A j \in Slots \ {i} : app_transport_states'[j] = app_transport_states[j]
  BY <1>3 DEF TransportState, FInv, IInv, TypeOK
<1>8. \A j \in Slots \ {i} : Kept(j)
  BY <1>1, <1>4, <1>6, <1>7 DEF Kept
<1>9. StreamOf(i)'
  BY <1>4, <1>7 DEF StreamOf
<1>10. Pos[i] = p - 2 /\ Pos'[i] = p + n
  BY <1>1, <1>4, <1>7, PosIs DEF p, rec
<1>11. Frames!Has(i, 2) /\ Frames!Has(i, 2 + n)
  <2>1. (p - 2) + 2 <= Len(rec) /\ (p - 2) + (2 + n) <= Len(rec)
    BY <1>2, <1>4
  <2>2. QED BY <1>10, <2>1 DEF Frames!Has, rec
<1>12. Frames!Length(i) = n
  <2>1. p - 2 \in Nat /\ (p - 2) + 2 <= Len(rec)
    BY <1>2, <1>4, <1>5
  <2>2. SubSeq(rec, (p - 2) + 1, (p - 2) + 2) = [k \in 1 .. 2 |-> rec[(p - 2) + k]]
    BY <1>2, <2>1, SliceIs
  <2>3. (p - 2) + 1 = p - 1 /\ (p - 2) + 2 = p
    BY <1>4
  <2>4. Frames!Ahead(i, 2) = [k \in 1 .. 2 |-> rec[(p - 2) + k]]
    BY <1>10, <2>2 DEF Frames!Ahead, rec
  <2>5. Frames!Ahead(i, 2)[1] = rec[p - 1] /\ Frames!Ahead(i, 2)[2] = rec[p]
    BY <2>3, <2>4
  <2>6. QED BY <1>5, <2>5 DEF Frames!Length
<1>13. Frames!Rest(Frames!Ahead(i, 2 + n), 2) = payload
  <2>1. n \in Nat
    BY <1>2 DEF FInv, IInv, TypeOK, Buffered
  <2>2. Rest(SubSeq(rec, (p - 2) + 1, (p - 2) + (2 + n)), 2) = payload
    <3>1. rec \in Seq(Byte) /\ p \in Nat /\ p >= 2 /\ p + n <= Len(rec)
      BY <1>2, <1>4, <1>5
    <3>2. payload = SubSeq(rec, p + 1, p + n)
      BY <1>4
    <3>3. QED BY <2>1, <3>1, <3>2, AfterLength, Zenon
  <2>3. QED BY <1>10, <2>2 DEF Frames!Rest, Rest, Frames!Ahead, rec
<1>14. Pos' = [Pos EXCEPT ![i] = @ + (2 + n)]
  <2>1. p + n = (p - 2) + (2 + n)
    BY <1>2, <1>4
  <2>2. QED BY <1>8, <1>10, <2>1, OneMoves DEF Pos
<1>15. Frames!Advance(i, 2 + n)
  BY <1>14 DEF Frames!Advance
<1>16. i \in Up /\ Up' = Up
  BY <1>1 DEF Up
<1>17. Phase[i] = "frames"
  BY <1>1 DEF Phase
<1>18. IF BsonSize(payload) = n
       THEN /\ delivered' = [delivered EXCEPT ![i] =
                 Append(@, [wsid |-> WsidOf(Who'[i]), payload |-> payload])]
            /\ Phase' = Phase
       ELSE Phase' = [Phase EXCEPT ![i] = "refused"] /\ delivered' = delivered
  <2>1. Phase'[i] = IF BsonSize(payload) = n THEN "frames" ELSE "refused"
    BY <1>7 DEF Phase
  <2>2. Phase = [Phase EXCEPT ![i] = Phase[i]]
    BY DEF Phase
  <2>3. QED BY <1>3, <1>6, <1>8, <1>17, <2>1, <2>2, OneMoves DEF payload, n
<1>19. /\ Frames!BsonSize(payload) = BsonSize(payload)
       /\ Frames!OfferedWsids(payload) = OfferedWsids(payload)
       /\ Frames!Nobody = Nobody /\ \A w : Frames!WsidOf(w) = WsidOf(w)
  BY FramesAre
<1>20. Frames!TakeFrame(i)
  BY <1>1, <1>5, <1>6, <1>11, <1>12, <1>13, <1>15, <1>16, <1>17, <1>18, <1>19
     DEF Frames!TakeFrame
<1>21. QED BY <1>8, <1>9, <1>20, OthersKept DEF FInv, Frames!Next

LEMMA NothingToReadFrames ==
  ASSUME FInv, NEW i \in Slots, NothingToRead(i)
  PROVE  StreamInv' /\ UNCHANGED Frames!vars
<1>1. UNCHANGED <<app_states, app_transport_states, app_transport_expect_bytes, app_rx_ring_bufs,
                  app_login_complete, wsid, received, delivered>>
  BY DEF NothingToRead, automaton, login
<1>2. StreamInv'
  BY <1>1 DEF FInv, StreamInv, StreamOf
<1>3. UNCHANGED Frames!vars
  BY <1>1 DEF Frames!vars, Up, Pos, Phase, Who, Buffered
<1>4. QED BY <1>2, <1>3

LEMMA CleanupFrames ==
  ASSUME FInv, NEW i \in Slots, Cleanup(i)
  PROVE  StreamInv' /\ Frames!Next
<1>1. /\ app_rx_ring_bufs'[i] = <<>> /\ received'[i] = <<>>
      /\ app_transport_states'[i] = "INITIAL"
      /\ app_login_complete'[i] = FALSE /\ wsid'[i] = NoWsid
  BY DEF Cleanup, Forget, TransportState, FInv, IInv, TypeOK
<1>2. \A j \in Slots \ {i} : Kept(j)
  BY DEF Cleanup, Forget, TransportState, Kept, FInv, IInv, TypeOK
<1>3. StreamOf(i)'
  BY <1>1 DEF StreamOf, EndOf, Before
<1>4. Pos'[i] = 0 /\ Phase'[i] = "greeting"
  <2>1. Before(app_rx_ring_bufs'[i], received'[i]) = 0
    BY <1>1 DEF Before
  <2>2. QED BY <1>1, <2>1, PosIs DEF Phase
<1>5. i \in Up /\ Up' = Up \ {i}
  BY DEF Cleanup, Up, FInv, IInv, TypeOK
<1>6. Who' = [Who EXCEPT ![i] = Frames!Nobody]
  BY <1>1, <1>2, FramesAre DEF Who, Kept
<1>7. Frames!Close(i)
  BY <1>2, <1>4, <1>5, <1>6, OneMoves DEF Cleanup, Forget, Frames!Close
<1>8. QED BY <1>2, <1>3, <1>7, OthersKept DEF FInv, Frames!Next

LEMMA FramesStart == Init => StreamInv /\ Frames!Init
<1> SUFFICES ASSUME Init PROVE StreamInv /\ Frames!Init
  OBVIOUS
<1>1. StreamInv
  BY DEF Init, StreamInv, StreamOf, EndOf, Before
<1>2. Up = {} /\ Pos = [i \in Slots |-> 0] /\ Phase = [i \in Slots |-> "greeting"]
  BY DEF Init, Up, Pos, Phase, Buffered
<1>3. Who = [i \in Slots |-> Frames!Nobody]
  BY FramesAre DEF Init, Who
<1>4. QED BY <1>1, <1>2, <1>3 DEF Init, Frames!Init

LEMMA FramesStep == FInv /\ [Next]_vars => StreamInv' /\ [Frames!Next]_Frames!vars
<1> SUFFICES ASSUME FInv, [Next]_vars PROVE StreamInv' /\ [Frames!Next]_Frames!vars
  OBVIOUS
<1>1. CASE UNCHANGED vars
  BY <1>1 DEF vars, automaton, login, FInv, StreamInv, StreamOf, Frames!vars, Up, Pos, Phase, Who,
     Buffered
<1>2. CASE Next
  BY <1>2, ConnectFrames, FeedFrames, PreambleFrames, FrameLengthFrames, PayloadFrames,
     NothingToReadFrames, CleanupFrames DEF Next, FeedStep
<1>3. QED BY <1>1, <1>2

-----------------------------------------------------------------------------
(* What the core has got is what the stream means.                         *)

ReadingOf(i) == Reading(received[i], Pos[i], Phase[i], Who[i], delivered[i])
ReadInv == \A i \in Slots : ReadingOf(i)

LEMMA PosBounds ==
  ASSUME FInv, NEW i \in Slots
  PROVE  Pos[i] \in 0 .. Len(received[i])
<1> DEFINE b == Before(app_rx_ring_bufs[i], received[i])
<1>1. b \in 0 .. Len(received[i])
  <2>1. received[i] \in Seq(Byte) /\ app_rx_ring_bufs[i] \in Seq(Byte)
    BY DEF FInv, IInv, TypeOK
  <2>2. b >= 0
    BY DEF FInv, StreamInv, StreamOf, EndOf
  <2>3. Len(received[i]) \in Nat /\ Len(app_rx_ring_bufs[i]) \in Nat
    BY <2>1
  <2>4. b = Len(received[i]) - Len(app_rx_ring_bufs[i])
    BY DEF Before
  <2> DEFINE m == Len(received[i])
             n == Len(app_rx_ring_bufs[i])
  <2> HIDE DEF b, m, n
  <2>5. b \in 0 .. m
    <3>1. m \in Nat /\ n \in Nat /\ b = m - n
      BY <2>3, <2>4 DEF m, n
    <3>2. QED BY <2>2, <3>1
  <2>6. QED BY <2>5 DEF m
<1>2. app_transport_states[i] = "WAIT_PAYLOAD" => b >= 2
  BY DEF FInv, StreamInv, StreamOf, LengthRead
<1>3. Pos[i] = IF app_transport_states[i] = "WAIT_PAYLOAD" THEN b - 2 ELSE b
  BY PosIs
<1> HIDE DEF b
<1>4. QED BY <1>1, <1>2, <1>3

\* The stream of one connection moves on.
LEMMA OneReads ==
  ASSUME ReadInv, NEW i \in Slots, ReadingOf(i)',
         \A j \in Slots \ {i} : /\ received'[j] = received[j] /\ Pos'[j] = Pos[j]
                               /\ Phase'[j] = Phase[j] /\ Who'[j] = Who[j]
                               /\ delivered'[j] = delivered[j]
  PROVE  ReadInv'
<1> SUFFICES ASSUME NEW j \in Slots PROVE ReadingOf(j)'
  BY DEF ReadInv
<1>1. CASE j = i
  BY <1>1
<1>2. CASE j # i
  BY <1>2 DEF ReadInv, ReadingOf
<1>3. QED BY <1>1, <1>2

\* The mapped variables are functions.
LEMMA FramesTypes ==
  ASSUME FInv
  PROVE  /\ received \in [Slots -> Seq(Byte)] /\ delivered \in [Slots -> Seq(Frame)]
         /\ DOMAIN Who = Slots /\ \A i \in Slots : Who[i] \in Byte \cup {Nobody}
         /\ DOMAIN Pos = Slots /\ DOMAIN Phase = Slots
  BY WhoIs DEF FInv, IInv, TypeOK, Pos, Phase, Who

LEMMA ArriveReads ==
  ASSUME FInv, ReadInv, NEW i \in Slots, Frames!Arrive(i), FInv'
  PROVE  ReadInv'
<1> DEFINE s == received[i]
           t == received'[i]
<1>1. s \in Seq(Byte) /\ t \in Seq(Byte) /\ delivered[i] \in Seq(Frame)
  BY FramesTypes DEF FInv, IInv, TypeOK
<1>2. Len(t) > Len(s) /\ First(t, Len(s)) = s
  BY FramesAre DEF Frames!Arrive
<1>3. /\ \A j \in Slots \ {i} : received'[j] = received[j]
      /\ Pos' = Pos /\ Phase' = Phase /\ Who' = Who /\ delivered' = delivered
  BY FramesTypes DEF Frames!Arrive
<1> HIDE DEF s, t
<1>4. Extends(t, s)
  <2>1. First(t, Len(s)) = [k \in 1 .. Len(s) |-> t[k]]
    BY <1>1, <1>2 DEF First
  <2>2. \A k \in 1 .. Len(s) : t[k] = s[k]
    BY <1>2, <2>1
  <2>3. QED BY <1>1, <1>2, <2>2 DEF Extends
<1>5. ReadingOf(i)'
  <2>1. Reading(s, Pos[i], Phase[i], Who[i], delivered[i])
    BY DEF ReadInv, ReadingOf, s
  <2>2. Pos[i] \in 0 .. Len(s)
    BY PosBounds DEF s
  <2>3. Reading(t, Pos[i], Phase[i], Who[i], delivered[i])
    BY <1>1, <1>4, <2>1, <2>2, ReadingGrows
  <2>4. QED BY <1>3, <2>3 DEF ReadingOf, t
<1>6. QED BY <1>3, <1>5, OneReads

LEMMA GreetReads ==
  ASSUME FInv, ReadInv, NEW i \in Slots, Frames!Greet(i)
  PROVE  ReadInv'
<1> DEFINE s == received[i]
           p == Pos[i]
           a == SubSeq(s, p + 1, p + 3)
           ph == CASE a = Plain -> "frames" [] a = Secure -> "refused" [] OTHER -> "greeting"
<1>1. s \in Seq(Byte) /\ p \in Nat /\ p + 3 <= Len(s) /\ Phase[i] = "greeting"
  BY FramesTypes, PosBounds DEF Frames!Greet, Frames!Has
<1>2. /\ Pos' = [Pos EXCEPT ![i] = @ + 3]
      /\ Phase' = [Phase EXCEPT ![i] = ph]
      /\ received' = received /\ Who' = Who /\ delivered' = delivered
  BY FramesAre DEF Frames!Greet, Frames!Advance, Frames!Ahead
<1> HIDE DEF ph
<1>3. /\ Pos'[i] = p + 3 /\ Phase'[i] = ph
      /\ \A j \in Slots \ {i} : Pos'[j] = Pos[j] /\ Phase'[j] = Phase[j]
  BY <1>2, FramesTypes
<1>4. ReadingOf(i)'
  <2>1. Reading(s, p, "greeting", Who[i], delivered[i])
    BY <1>1 DEF ReadInv, ReadingOf
  <2> HIDE DEF s, p
  <2>2. Reading(s, p + 3, ph, Who[i], delivered[i])
    BY <1>1, <2>1, ReadingGreets DEF ph
  <2>3. QED BY <1>2, <1>3, <2>2 DEF ReadingOf, s
<1>5. QED BY <1>2, <1>3, <1>4, OneReads

\* The length that FrameStream reads is the one the reference reads.
LEMMA LengthIsSize ==
  ASSUME FInv, NEW i \in Slots, Frames!Has(i, 2)
  PROVE  Frames!Length(i) = Size(received[i], Pos[i])
<1> DEFINE s == received[i]
           p == Pos[i]
<1>1. s \in Seq(Byte) /\ p \in Nat /\ p + 2 <= Len(s)
  BY FramesTypes, PosBounds DEF Frames!Has
<1> HIDE DEF s, p
<1>2. SubSeq(s, p + 1, p + 2) = [k \in 1 .. 2 |-> s[p + k]]
  BY <1>1, SliceIs
<1>3. Frames!Ahead(i, 2) = [k \in 1 .. 2 |-> s[p + k]]
  BY <1>2 DEF Frames!Ahead, s, p
<1>4. Frames!Ahead(i, 2)[1] = s[p + 1] /\ Frames!Ahead(i, 2)[2] = s[p + 2]
  BY <1>3
<1>5. QED BY <1>4 DEF Frames!Length, Size, s, p

LEMMA SkipEmptyReads ==
  ASSUME FInv, ReadInv, NEW i \in Slots, Frames!SkipEmpty(i)
  PROVE  ReadInv'
<1> DEFINE s == received[i]
           p == Pos[i]
<1>1. s \in Seq(Byte) /\ p \in Nat /\ p + 2 <= Len(s) /\ Phase[i] = "frames"
  BY FramesTypes, PosBounds DEF Frames!SkipEmpty, Frames!Has
<1>2. Size(s, p) = 0
  BY LengthIsSize DEF Frames!SkipEmpty
<1>3. /\ Pos' = [Pos EXCEPT ![i] = @ + 2] /\ Phase' = Phase
      /\ received' = received /\ Who' = Who /\ delivered' = delivered
  BY DEF Frames!SkipEmpty, Frames!Advance
<1>4. Pos'[i] = p + 2 /\ \A j \in Slots \ {i} : Pos'[j] = Pos[j]
  BY <1>3, FramesTypes
<1>5. ReadingOf(i)'
  <2>1. Reading(s, p, "frames", Who[i], delivered[i])
    BY <1>1 DEF ReadInv, ReadingOf
  <2> HIDE DEF s, p
  <2>2. Whole(s, p)
    BY <1>1, <1>2 DEF Whole
  <2>3. Reading(s, p + 2, "frames", Who[i], delivered[i])
    BY <1>1, <1>2, <2>1, <2>2, ReadingSkips
  <2>4. QED BY <1>1, <1>3, <1>4, <2>3 DEF ReadingOf, s
<1>6. QED BY <1>3, <1>4, <1>5, OneReads

LEMMA TakeFrameReads ==
  ASSUME FInv, ReadInv, NEW i \in Slots, Frames!TakeFrame(i), FInv'
  PROVE  ReadInv'
<1> DEFINE s == received[i]
           p == Pos[i]
           n == Size(s, p)
           a == PayloadAt(s, p)
<1>1. s \in Seq(Byte) /\ p \in Nat /\ Phase[i] = "frames" /\ delivered[i] \in Seq(Frame)
  BY FramesTypes, PosBounds DEF Frames!TakeFrame
<1>2. Frames!Length(i) = n
  BY LengthIsSize DEF Frames!TakeFrame
<1>3. n # 0 /\ p + 2 <= Len(s) /\ p + (2 + n) <= Len(s)
  BY <1>2 DEF Frames!TakeFrame, Frames!Has
<1>4. n \in Nat /\ Whole(s, p)
  <2>1. s[p + 1] \in Nat /\ s[p + 2] \in Nat
    BY <1>1, <1>3, SMTT(60) DEF Byte
  <2>2. n \in Nat
    BY <2>1 DEF Size
  <2> HIDE DEF n, s, p
  <2>3. p + 2 + n <= Len(s)
    BY <1>1, <1>3, <2>2
  <2>4. QED BY <1>3, <2>2, <2>3 DEF Whole, n
<1>5. Frames!Rest(Frames!Ahead(i, 2 + n), 2) = a
  <2> HIDE DEF s, p, n
  <2> DEFINE q == p + 2
  <2>1. /\ q \in Nat /\ q >= 2 /\ q + n <= Len(s) /\ q - 2 = p
        /\ q + 1 = p + 3 /\ q + n = p + 2 + n
    BY <1>1, <1>3, <1>4
  <2> HIDE DEF q
  <2>2. Rest(SubSeq(s, (q - 2) + 1, (q - 2) + (2 + n)), 2) = SubSeq(s, q + 1, q + n)
    BY <1>1, <1>4, <2>1, AfterLength
  <2>3. Rest(SubSeq(s, p + 1, p + (2 + n)), 2) = SubSeq(s, p + 3, p + 2 + n)
    BY <2>1, <2>2
  <2>4. QED BY <2>3, FramesAre DEF Frames!Ahead, PayloadAt, s, p, n
<1>6. /\ Pos' = [Pos EXCEPT ![i] = @ + (2 + n)] /\ received' = received
      /\ IF Who[i] = Nobody
         THEN \E w \in OfferedWsids(a) : Who' = [Who EXCEPT ![i] = w]
         ELSE Who' = Who
      /\ IF BsonSize(a) = n
         THEN /\ delivered' = [delivered EXCEPT ![i] = Append(@, [wsid |-> WsidOf(Who'[i]), payload |-> a])]
              /\ Phase' = Phase
         ELSE /\ Phase' = [Phase EXCEPT ![i] = "refused"]
              /\ delivered' = delivered
  BY <1>2, <1>5, FramesAre DEF Frames!TakeFrame, Frames!Advance
<1> HIDE DEF n, a
<1>7. /\ Pos'[i] = p + (2 + n)
      /\ \A j \in Slots \ {i} : /\ received'[j] = received[j] /\ Pos'[j] = Pos[j]
                               /\ Phase'[j] = Phase[j] /\ Who'[j] = Who[j]
                               /\ delivered'[j] = delivered[j]
      /\ IF Who[i] = Nobody THEN Who'[i] \in OfferedWsids(a) ELSE Who'[i] = Who[i]
      /\ IF BsonSize(a) = n
         THEN delivered'[i] = Took(delivered[i], WsidOf(Who'[i]), a) /\ Phase'[i] = "frames"
         ELSE delivered'[i] = delivered[i] /\ Phase'[i] = "refused"
  BY <1>1, <1>6, FramesTypes DEF Took
<1>8. Who'[i] \in Byte \cup {Nobody}
  <2>1. Who'[i] = IF app_login_complete'[i] THEN wsid'[i] ELSE Nobody
    BY DEF Who
  <2>2. wsid'[i] \in Byte
    BY DEF FInv, IInv, TypeOK
  <2>3. QED BY <2>1, <2>2
<1>9. ReadingOf(i)'
  <2>1. Reading(s, p, "frames", Who[i], delivered[i])
    BY <1>1 DEF ReadInv, ReadingOf
  <2> HIDE DEF s, p
  <2>2. CASE BsonSize(a) = n
    <3>1. Reading(s, p + (2 + n), "frames", Who'[i], Took(delivered[i], WsidOf(Who'[i]), a))
      BY <1>1, <1>3, <1>4, <1>7, <1>8, <2>1, <2>2, ReadingTakes DEF n, a
    <3>2. QED BY <1>6, <1>7, <2>2, <3>1 DEF ReadingOf, s
  <2>3. CASE BsonSize(a) # n
    <3>1. Reading(s, p + (2 + n), "refused", Who'[i], delivered[i])
      BY <1>1, <1>3, <1>4, <2>1, <2>3, ReadingRefuses DEF n, a
    <3>2. QED BY <1>6, <1>7, <2>3, <3>1 DEF ReadingOf, s
  <2>4. QED BY <2>2, <2>3
<1>10. QED BY <1>7, <1>9, OneReads

LEMMA CloseReads ==
  ASSUME FInv, ReadInv, NEW i \in Slots, Frames!Close(i)
  PROVE  ReadInv'
<1>1. /\ received'[i] = <<>> /\ Pos'[i] = 0 /\ Phase'[i] = "greeting" /\ Who'[i] = Nobody
      /\ delivered'[i] = <<>>
      /\ \A j \in Slots \ {i} : /\ received'[j] = received[j] /\ Pos'[j] = Pos[j]
                               /\ Phase'[j] = Phase[j] /\ Who'[j] = Who[j]
                               /\ delivered'[j] = delivered[j]
  BY FramesTypes, FramesAre DEF Frames!Close
<1>2. ReadingOf(i)'
  BY <1>1, ReadingStarts DEF ReadingOf
<1>3. QED BY <1>1, <1>2, OneReads

LEMMA ReadStep ==
  ASSUME FInv, ReadInv, [Frames!Next]_Frames!vars, FInv'
  PROVE  ReadInv'
<1>1. CASE UNCHANGED Frames!vars
  BY <1>1 DEF Frames!vars, ReadInv, ReadingOf
<1>2. CASE Frames!Next
  <2>1. PICK i \in Slots : \/ Frames!Open(i) \/ Frames!Arrive(i) \/ Frames!Greet(i)
                          \/ Frames!SkipEmpty(i) \/ Frames!TakeFrame(i) \/ Frames!Close(i)
    BY <1>2 DEF Frames!Next
  <2>2. CASE Frames!Open(i)
    BY <2>2 DEF Frames!Open, ReadInv, ReadingOf
  <2>3. QED BY <2>1, <2>2, ArriveReads, GreetReads, SkipEmptyReads, TakeFrameReads, CloseReads
<1>3. QED BY <1>1, <1>2

LEMMA ReadStart == Init => ReadInv
<1> SUFFICES ASSUME Init, NEW i \in Slots PROVE ReadingOf(i)
  BY DEF ReadInv
<1>1. Pos[i] = 0 /\ Phase[i] = "greeting"
  BY DEF Init, Pos, Phase, Buffered
<1>2. Who[i] = Nobody
  BY DEF Init, Who
<1>3. QED BY <1>1, <1>2, ReadingStarts DEF Init, ReadingOf

LEMMA ReadMeans == FInv /\ ReadInv => DeliveredAsFramed
<1> SUFFICES ASSUME FInv, ReadInv, NEW i \in Slots
             PROVE  LET payloads == PayloadsOf(received[i])
                        n == Len(delivered[i])
                    IN /\ n <= Len(payloads)
                       /\ \A k \in 1 .. n : /\ delivered[i][k].payload = payloads[k]
                                            /\ IsUnder(payloads, k, delivered[i][k].wsid)
                       /\ i # feeding /\ app_transport_states[i] \in {"WAIT_FRAME_LEN", "WAIT_PAYLOAD"}
                            => n = Len(payloads)
  BY DEF DeliveredAsFramed
<1> DEFINE s == received[i]
           p == Pos[i]
<1>1. /\ s \in Seq(Byte) /\ p \in 0 .. Len(s) /\ delivered[i] \in Seq(Frame)
      /\ Phase[i] \in {"greeting", "frames", "refused"}
      /\ Reading(s, p, Phase[i], Who[i], delivered[i])
  BY FramesTypes, PosBounds DEF ReadInv, ReadingOf, Phase
<1>2. /\ Len(delivered[i]) <= Len(PayloadsOf(s))
      /\ \A k \in 1 .. Len(delivered[i]) : /\ delivered[i][k].payload = PayloadsOf(s)[k]
                                          /\ IsUnder(PayloadsOf(s), k, delivered[i][k].wsid)
      /\ Phase[i] = "frames" /\ ~Whole(s, p) => Len(delivered[i]) = Len(PayloadsOf(s))
  BY <1>1, ReadingMeans, Zenon
<1>3. ASSUME i # feeding, app_transport_states[i] \in {"WAIT_FRAME_LEN", "WAIT_PAYLOAD"}
      PROVE  Phase[i] = "frames" /\ ~Whole(s, p)
  <2> DEFINE b == Before(app_rx_ring_bufs[i], s)
  <2>1. Phase[i] = "frames"
    BY <1>3 DEF Phase
  <2>2. Drained(i)
    BY <1>3 DEF FInv, IInv, NothingWaits
  <2>3. Len(s) = b + Buffered(i) /\ Buffered(i) \in Nat /\ b \in Int
    BY <1>1 DEF Before, Buffered, FInv, IInv, TypeOK
  <2>4. CASE app_transport_states[i] = "WAIT_FRAME_LEN"
    <3>1. p = b /\ Buffered(i) < 2
      BY <2>2, <2>4, PosIs DEF Drained
    <3> HIDE DEF s, p, b
    <3>2. ~ (p + 2 <= Len(s))
      BY <2>3, <3>1
    <3>3. QED BY <2>1, <3>2 DEF Whole
  <2>5. CASE app_transport_states[i] = "WAIT_PAYLOAD"
    <3>1. p = b - 2 /\ Buffered(i) < app_transport_expect_bytes[i]
      BY <2>2, <2>5, PosIs DEF Drained
    <3>2. app_transport_expect_bytes[i] = 256 * s[b - 1] + s[b]
      BY <2>5 DEF FInv, StreamInv, StreamOf, LengthRead
    <3>3. app_transport_expect_bytes[i] \in Nat
      BY BytesAre DEF FInv, IInv, TypeOK
    <3> HIDE DEF s, p, b
    <3>4. p + 1 = b - 1 /\ p + 2 = b
      BY <2>3, <3>1
    <3>5. Size(s, p) = app_transport_expect_bytes[i]
      BY <3>2, <3>4 DEF Size
    <3>6. ~ (p + 2 + Size(s, p) <= Len(s))
      BY <2>3, <3>1, <3>3, <3>4, <3>5
    <3>7. QED BY <2>1, <3>6 DEF Whole
  <2>6. QED BY <1>3, <2>4, <2>5
<1>4. QED BY <1>2, <1>3

-----------------------------------------------------------------------------
(* The theorems.                                                           *)

LEMMA Inductive == Spec => []IInv
  BY Start, Step, PTL DEF Spec

\* Types, and the ring buffers' limit.
THEOREM TypeCorrect == Spec => []TypeOK
<1>1. IInv => TypeOK
  BY DEF IInv
<1>2. QED BY <1>1, Inductive, PTL

\* Whatever is sent and however it is cut, a call of app_connection_feed does all
\* that the bytes it has allow.
THEOREM FeedDrains == Spec => []NothingWaits
<1>1. IInv => NothingWaits
  BY DEF IInv
<1>2. QED BY <1>1, Inductive, PTL

\* What the core sends goes to an app that is there and logged in under this wsid,
\* and that the core knows by it from a frame.
THEOREM RepliesArrive == Spec => []RepliesFindTheirApp
<1>1. Init => IInv /\ HeardInv
  BY Start, HeardStart
<1>2. IInv /\ HeardInv /\ [Next]_vars => IInv' /\ HeardInv'
  BY Step, HeardStep
<1>3. IInv /\ HeardInv => RepliesFindTheirApp
  BY DEF IInv, LoginInv, HeardInv, Heard, RepliesFindTheirApp
<1>4. QED BY <1>1, <1>2, <1>3, PTL DEF Spec

\* However the bytes are cut into reads, whatever the ring buffers hold and whoever
\* had a connection before, the core gets what FrameStream says of the bytes
\* received: the frames at consecutive places of the stream, whole, in order and
\* under the connection's own login.
THEOREM DeliversTheStream == Spec => AsFrameStream
<1>1. Init => FInv /\ Frames!Init
  BY Start, FramesStart DEF FInv
<1>2. FInv /\ [Next]_vars => FInv' /\ [Frames!Next]_Frames!vars
  BY Step, FramesStep DEF FInv
<1>3. QED BY <1>1, <1>2, PTL DEF Spec, AsFrameStream, Frames!Spec

\* The core gets the frames that what an app has sent is made of, for any bytes, cut
\* anywhere, and any size of the ring buffers: none twice, none left out, each under
\* the login before it, and nothing of who had the connection before.
THEOREM FramesDelivered == Spec => []DeliveredAsFramed
<1>1. Init => FInv /\ ReadInv
  BY Start, FramesStart, ReadStart DEF FInv
<1>2. FInv /\ ReadInv /\ [Next]_vars => FInv' /\ ReadInv'
  BY Step, FramesStep, ReadStep DEF FInv
<1>3. FInv /\ ReadInv => DeliveredAsFramed
  BY ReadMeans
<1>4. QED BY <1>1, <1>2, <1>3, PTL DEF Spec

-----------------------------------------------------------------------------
(* Why app_connection_feed returns.                                          *)

TakesBytes == \A i \in Slots : feeding = i /\ feeding' = i => Buffered(i)' < Buffered(i)

LEMMA TakesStep == ASSUME FInv, Next PROVE TakesBytes
<1> SUFFICES ASSUME NEW i \in Slots, feeding = i, feeding' = i PROVE Buffered(i)' < Buffered(i)
  BY DEF TakesBytes
<1>1. NoSlot \notin Slots
  BY DEF NoSlot, Slots
<1>2. FeedStep(i)
  <2>1. PICK j \in Slots : Connect(j) \/ Feed(j) \/ FeedStep(j) \/ Cleanup(j)
    BY DEF Next
  <2>2. FeedStep(j)
    BY <1>1, <2>1 DEF Connect, Feed, Cleanup
  <2>3. feeding = j
    BY <2>2, Zenon DEF FeedStep, Preamble, FrameLength, Payload, NothingToRead
  <2>4. QED BY <2>2, <2>3
<1>3. app_rx_ring_bufs[i] \in Seq(Byte) /\ Buffered(i) \in Nat
  BY DEF FInv, IInv, TypeOK, Buffered
<1>4. ASSUME NEW n \in 1 .. Buffered(i), Read(i, n) PROVE Buffered(i)' < Buffered(i)
  <2>1. n \in 0 .. Buffered(i) /\ n > 0 /\ TypeOK
    BY <1>3 DEF FInv, IInv
  <2>2. Len(app_rx_ring_bufs'[i]) = Buffered(i) - n
    BY <1>4, <2>1, ReadIs
  <2>3. QED BY <1>3, <2>1, <2>2 DEF Buffered
<1>5. CASE Preamble(i)
  BY <1>1, <1>3, <1>4, <1>5 DEF Preamble, Break
<1>6. CASE FrameLength(i)
  BY <1>1, <1>3, <1>4, <1>6 DEF FrameLength, Break
<1>7. CASE Payload(i)
  <2> DEFINE payload == First(app_rx_ring_bufs[i], app_transport_expect_bytes[i])
             n == app_transport_expect_bytes[i]
  <2>1. n \in Nat /\ n # 0
    BY <1>7, BytesAre DEF Payload, FInv, IInv, TypeOK, StreamInv, StreamOf, LengthRead
  <2>2. n <= Buffered(i) /\ Read(i, Len(payload))
    BY <1>7 DEF Payload
  <2>3. Len(payload) = n
    BY <1>3, <2>1, <2>2, FirstIs DEF Buffered
  <2>4. QED BY <1>3, <1>4, <2>1, <2>2, <2>3
<1>8. CASE NothingToRead(i)
  BY <1>1, <1>8 DEF NothingToRead, Break
<1>9. QED BY <1>2, <1>5, <1>6, <1>7, <1>8 DEF FeedStep

\* app_connection_feed never goes round without taking bytes out of the ring
\* buffer, not for an empty frame either: so a call of it ends.
THEOREM FeedTakesBytes == Spec => [][TakesBytes]_vars
<1>1. Init => FInv
  BY Start, FramesStart DEF FInv
<1>2. FInv /\ [Next]_vars => FInv' /\ [TakesBytes]_vars
  BY Step, FramesStep, TakesStep DEF FInv
<1>3. QED BY <1>1, <1>2, PTL DEF Spec
=============================================================================
