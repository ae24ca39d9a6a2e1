-------------------------- MODULE EventQueue_proofs --------------------------
(* Proofs about EventQueue, for any length of the ring.                    *)
EXTENDS EventQueue, SequenceTheorems, TLAPS

-----------------------------------------------------------------------------
(* Arithmetic of positions.                                                *)

LEMMA DivMod ==
  ASSUME NEW n \in Nat \ {0}, NEW a \in Nat
  PROVE  a = n * (a \div n) + (a % n) /\ a % n \in 0 .. n - 1 /\ a \div n \in Nat
  BY SMT

LEMMA ModUnique ==
  ASSUME NEW n \in Nat \ {0}, NEW q \in Nat, NEW r \in 0 .. n - 1
  PROVE  (n * q + r) % n = r
  BY SMT

\* One round of the ring more is the same slot.
LEMMA ModRound ==
  ASSUME NEW n \in Nat \ {0}, NEW a \in Nat
  PROVE  (n + a) % n = a % n
<1> DEFINE q == a \div n
           r == a % n
<1>1. a = n * q + r /\ r \in 0 .. n - 1 /\ q \in Nat
  BY DivMod
<1> HIDE DEF q, r
<1>2. n + a = n * (q + 1) + r
  BY <1>1
<1>3. (n + a) % n = r
  BY <1>1, <1>2, ModUnique
<1> QED
  BY <1>3 DEF r

\* Advancing after wrapping is advancing before.
LEMMA ModNext ==
  ASSUME NEW n \in Nat \ {0}, NEW a \in Nat
  PROVE  ((a % n) + 1) % n = (a + 1) % n
<1> DEFINE q == a \div n
           r == a % n
<1>1. a = n * q + r /\ r \in 0 .. n - 1 /\ q \in Nat
  BY DivMod
<1> HIDE DEF q, r
<1>2. CASE r + 1 = n
  <2>1. (a + 1) % n = 0
    <3>1. a + 1 = n * (q + 1) + 0
      BY <1>1, <1>2
    <3> QED
      BY <1>1, <3>1, ModUnique
  <2> QED
    BY <1>2, <2>1, ModUnique DEF r
<1>3. CASE r + 1 # n
  <2>1. (a + 1) % n = r + 1
    <3>1. a + 1 = n * q + (r + 1) /\ r + 1 \in 0 .. n - 1
      BY <1>1, <1>3
    <3> QED
      BY <1>1, <3>1, ModUnique
  <2>2. (r + 1) % n = r + 1
    BY <1>1, <1>3
  <2> QED
    BY <2>1, <2>2 DEF r
<1> QED
  BY <1>2, <1>3

\* What Advance returns.
LEMMA AdvanceSlot ==
  ASSUME NEW s \in Slots
  PROVE  /\ Advance(s) \in Slots
         /\ Advance(s) = IF s + 1 = EVENT_QUEUE_LEN THEN 0 ELSE s + 1
  BY ConstantsAssumption DEF Slots, Advance

\* The slot k places past the next one.
LEMMA AdvanceThen ==
  ASSUME NEW s \in Slots, NEW k \in Nat
  PROVE  (Advance(s) + k) % EVENT_QUEUE_LEN = (s + 1 + k) % EVENT_QUEUE_LEN
<1>1. CASE s + 1 = EVENT_QUEUE_LEN
  <2>1. Advance(s) = 0 /\ s + 1 + k = EVENT_QUEUE_LEN + k
    BY <1>1, AdvanceSlot DEF Slots
  <2> QED
    BY <2>1, ModRound, ConstantsAssumption
<1>2. CASE s + 1 # EVENT_QUEUE_LEN
  BY <1>2, AdvanceSlot DEF Slots
<1> QED
  BY <1>1, <1>2

\* The slot k places on, without the remainder.
LEMMA SlotAt ==
  ASSUME NEW s \in Slots, NEW k \in 0 .. EVENT_QUEUE_LEN
  PROVE  /\ (s + k) % EVENT_QUEUE_LEN \in Slots
         /\ (s + k) % EVENT_QUEUE_LEN =
              IF s + k < EVENT_QUEUE_LEN THEN s + k ELSE s + k - EVENT_QUEUE_LEN
  BY ConstantsAssumption DEF Slots

-----------------------------------------------------------------------------
(* The invariant.                                                          *)

THEOREM TypeCorrect == Spec => []TypeOK
<1>1. Init => TypeOK
  <2>1. [s \in Slots |-> NoEvent] \in [Slots -> Event] /\ 0 \in Slots
    BY ConstantsAssumption DEF Slots
  <2>2. Init => events \in [Slots -> Event] /\ event_read \in Slots /\ event_write \in Slots
    BY <2>1 DEF Init
  <2>3. Init => num_curr_events \in Nat /\ ev \in Slots \cup {NoSlot}
    BY DEF Init
  <2>4. Init => crowded \in BOOLEAN
    BY Zenon DEF Init
  <2> QED
    BY <2>2, <2>3, <2>4 DEF TypeOK
<1>2. TypeOK /\ [Next]_vars => TypeOK'
  <2> SUFFICES ASSUME TypeOK, [Next]_vars PROVE TypeOK'
    OBVIOUS
  <2> USE DEF TypeOK
  <2>1. ASSUME NEW e \in Event \ {NoEvent}, Notify(e) PROVE TypeOK'
    BY <2>1, AdvanceSlot DEF Notify
  <2>2. CASE Take
    BY <2>2, AdvanceSlot DEF Take
  <2>3. CASE Done \/ Drained
    BY <2>3 DEF Done, Drained
  <2>4. CASE UNCHANGED vars
    BY <2>4 DEF vars
  <2> QED
    BY <2>1, <2>2, <2>3, <2>4 DEF Next
<1> QED
  BY <1>1, <1>2, PTL DEF Spec

\* Past any overflow the positions agree with the counter, so that a ring that
\* has run dry is in order again.
THEOREM PositionsHold == Spec => []PositionsAgree
<1>1. Init => PositionsAgree
  BY ConstantsAssumption DEF Init, PositionsAgree
<1>2. TypeOK /\ PositionsAgree /\ [Next]_vars => PositionsAgree'
  <2> SUFFICES ASSUME TypeOK, PositionsAgree, [Next]_vars PROVE PositionsAgree'
    OBVIOUS
  <2> USE DEF TypeOK, PositionsAgree
  <2>1. ASSUME NEW e \in Event \ {NoEvent}, Notify(e) PROVE PositionsAgree'
    <3>1. event_read + num_curr_events \in Nat
      BY DEF Slots
    <3> QED
      BY <2>1, <3>1, ModNext, ConstantsAssumption, SMTT(30) DEF Notify, Advance
  <2>2. CASE Take
    <3>1. num_curr_events - 1 \in Nat
      BY <2>2 DEF Take
    <3>2. (Advance(event_read) + (num_curr_events - 1)) % EVENT_QUEUE_LEN
            = (event_read + 1 + (num_curr_events - 1)) % EVENT_QUEUE_LEN
      BY <3>1, AdvanceThen
    <3>3. event_read + 1 + (num_curr_events - 1) = event_read + num_curr_events
      BY DEF Slots
    <3> QED
      BY <2>2, <3>2, <3>3 DEF Take
  <2>3. CASE Done \/ Drained \/ UNCHANGED vars
    BY <2>3 DEF Done, Drained, vars
  <2> QED
    BY <2>1, <2>2, <2>3 DEF Next
<1> QED
  BY <1>1, <1>2, TypeCorrect, PTL DEF Spec

-----------------------------------------------------------------------------
(* The ring implements the queue.                                          *)

\* While pending and in hand fit in the ring: the event in hand is in the slot
\* before the read position, and what is pending or in hand are real events.
FitInv == ~crowded =>
  /\ num_curr_events + InHand <= EVENT_QUEUE_LEN
  /\ ev # NoSlot => event_read = Advance(ev) /\ events[ev] # NoEvent
  /\ \A i \in 1 .. num_curr_events :
       events[(event_read + i - 1) % EVENT_QUEUE_LEN] # NoEvent

\* The i-th pending event, as what it is.
LEMMA PendingIs ==
  ASSUME TypeOK
  PROVE  /\ Pending \in Seq(Event)
         /\ Len(Pending) = num_curr_events
         /\ \A i \in 1 .. num_curr_events :
              Pending[i] = events[(event_read + i - 1) % EVENT_QUEUE_LEN]
<1>1. \A i \in 1 .. num_curr_events : (event_read + i - 1) % EVENT_QUEUE_LEN \in Slots
  <2> SUFFICES ASSUME NEW i \in 1 .. num_curr_events
               PROVE  (event_read + i - 1) % EVENT_QUEUE_LEN \in Slots
    OBVIOUS
  <2>1. event_read + i - 1 \in Nat
    BY DEF TypeOK, Slots
  <2> QED
    BY <2>1, DivMod, ConstantsAssumption DEF Slots
<1>2. Pending \in [1 .. num_curr_events -> Event]
  BY <1>1 DEF Pending, TypeOK
<1> QED
  BY <1>2 DEF Pending, TypeOK

\* A notification that fits goes to the end of the queue, and touches neither
\* another pending event nor the one in hand.
LEMMA NotifyAppends ==
  ASSUME TypeOK, PositionsAgree, FitInv, NEW e \in Event \ {NoEvent}, Notify(e), ~crowded'
  PROVE  FitInv' /\ Pending' = Append(Pending, e) /\ (ev # NoSlot => events'[ev] = events[ev])
<1>1. ~crowded /\ num_curr_events + 1 + InHand <= EVENT_QUEUE_LEN
  <2>1. ~crowded /\ ~ (num_curr_events + 1 + InHand > EVENT_QUEUE_LEN)
    BY Zenon DEF Notify
  <2> QED
    BY <2>1, ConstantsAssumption DEF InHand, TypeOK
<1>2. ev' = ev /\ InHand' = InHand /\ InHand \in 0 .. 1
  BY DEF Notify, InHand
<1>3. events' = [events EXCEPT ![event_write] = e] /\ event_read' = event_read
        /\ num_curr_events' = num_curr_events + 1
  BY DEF Notify
<1>4. \A i \in 1 .. num_curr_events :
        /\ (event_read + i - 1) % EVENT_QUEUE_LEN \in Slots
        /\ (event_read + i - 1) % EVENT_QUEUE_LEN # event_write
  <2> SUFFICES ASSUME NEW i \in 1 .. num_curr_events
               PROVE  /\ (event_read + i - 1) % EVENT_QUEUE_LEN \in Slots
                      /\ (event_read + i - 1) % EVENT_QUEUE_LEN # event_write
    OBVIOUS
  <2>1. i - 1 \in 0 .. EVENT_QUEUE_LEN /\ num_curr_events \in 0 .. EVENT_QUEUE_LEN
    BY <1>1, <1>2, ConstantsAssumption DEF TypeOK
  <2>2. event_read \in 0 .. EVENT_QUEUE_LEN - 1
    BY DEF TypeOK, Slots
  <2>3. /\ (event_read + (i - 1)) % EVENT_QUEUE_LEN \in Slots
        /\ (event_read + (i - 1)) % EVENT_QUEUE_LEN =
              IF event_read + (i - 1) < EVENT_QUEUE_LEN THEN event_read + (i - 1)
              ELSE event_read + (i - 1) - EVENT_QUEUE_LEN
    BY <2>1, SlotAt DEF TypeOK
  <2>4. event_write = IF event_read + num_curr_events < EVENT_QUEUE_LEN
                      THEN event_read + num_curr_events
                      ELSE event_read + num_curr_events - EVENT_QUEUE_LEN
    BY <2>1, SlotAt DEF TypeOK, PositionsAgree
  <2>5. event_read + (i - 1) = event_read + i - 1
    BY <2>2
  <2> QED
    BY <1>1, <1>2, <2>1, <2>2, <2>3, <2>4, <2>5, ConstantsAssumption DEF TypeOK
<1>5. ev # NoSlot => ev # event_write
  <2> SUFFICES ASSUME ev # NoSlot PROVE ev # event_write
    OBVIOUS
  <2>1. event_read = IF ev + 1 = EVENT_QUEUE_LEN THEN 0 ELSE ev + 1
    BY <1>1, AdvanceSlot DEF FitInv, TypeOK
  <2>2. num_curr_events \in 0 .. EVENT_QUEUE_LEN /\ num_curr_events + 2 <= EVENT_QUEUE_LEN
    BY <1>1, ConstantsAssumption DEF TypeOK, InHand
  <2>3. event_write = IF event_read + num_curr_events < EVENT_QUEUE_LEN
                      THEN event_read + num_curr_events
                      ELSE event_read + num_curr_events - EVENT_QUEUE_LEN
    BY <2>2, SlotAt DEF TypeOK, PositionsAgree
  <2> QED
    BY <2>1, <2>2, <2>3, ConstantsAssumption DEF TypeOK, Slots
<1>6. (event_read + (num_curr_events + 1) - 1) % EVENT_QUEUE_LEN = event_write
  <2>1. event_read + (num_curr_events + 1) - 1 = event_read + num_curr_events
    BY DEF TypeOK, Slots
  <2> QED
    BY <2>1 DEF PositionsAgree
<1>7. \A i \in 1 .. num_curr_events + 1 :
        events'[(event_read' + i - 1) % EVENT_QUEUE_LEN] =
          IF i = num_curr_events + 1 THEN e ELSE events[(event_read + i - 1) % EVENT_QUEUE_LEN]
  BY <1>3, <1>4, <1>6 DEF TypeOK
<1>8. Pending' = Append(Pending, e)
  <2>1. Pending' = [i \in 1 .. num_curr_events + 1 |->
                      IF i = num_curr_events + 1 THEN e
                      ELSE events[(event_read + i - 1) % EVENT_QUEUE_LEN]]
    BY <1>3, <1>7 DEF Pending
  <2>2. Append(Pending, e) \in [1 .. num_curr_events + 1 -> Event]
    <3>1. Append(Pending, e) \in Seq(Event) /\ Len(Append(Pending, e)) = num_curr_events + 1
      BY PendingIs, AppendProperties
    <3> QED
      BY <3>1, LenProperties
  <2>3. \A i \in 1 .. num_curr_events + 1 :
          Append(Pending, e)[i] = IF i = num_curr_events + 1 THEN e
                                  ELSE events[(event_read + i - 1) % EVENT_QUEUE_LEN]
    BY PendingIs, AppendProperties DEF TypeOK
  <2> QED
    BY <2>1, <2>2, <2>3
<1>9. ev # NoSlot => events'[ev] = events[ev]
  BY <1>3, <1>5 DEF TypeOK
<1>10. \A i \in 1 .. num_curr_events + 1 :
         events'[(event_read' + i - 1) % EVENT_QUEUE_LEN] # NoEvent
  <2>1. \A i \in 1 .. num_curr_events + 1 : i # num_curr_events + 1 => i \in 1 .. num_curr_events
    BY DEF TypeOK
  <2> QED
    BY <1>1, <1>7, <2>1 DEF FitInv
<1> QED
  BY <1>1, <1>2, <1>3, <1>8, <1>9, <1>10 DEF FitInv, TypeOK

\* What is taken is the head of the queue, and the rest stays as it is.
LEMMA TakeRemovesHead ==
  ASSUME TypeOK, FitInv, Take, ~crowded
  PROVE  /\ FitInv'
         /\ Pending # <<>> /\ events'[ev'] = Head(Pending)
         /\ Pending' = Tail(Pending)
<1>1. /\ ev = NoSlot /\ ev' = event_read /\ event_read' = Advance(event_read)
      /\ num_curr_events' = num_curr_events - 1 /\ num_curr_events \in Nat \ {0}
      /\ events' = events /\ crowded' = crowded
  BY DEF Take, TypeOK
<1>2. (event_read + 1 - 1) % EVENT_QUEUE_LEN = event_read
  BY ConstantsAssumption DEF TypeOK, Slots
<1>3. \A i \in 1 .. num_curr_events - 1 :
        (event_read' + i - 1) % EVENT_QUEUE_LEN = (event_read + (i + 1) - 1) % EVENT_QUEUE_LEN
  <2> SUFFICES ASSUME NEW i \in 1 .. num_curr_events - 1
               PROVE  (event_read' + i - 1) % EVENT_QUEUE_LEN
                        = (event_read + (i + 1) - 1) % EVENT_QUEUE_LEN
    OBVIOUS
  <2>1. (Advance(event_read) + (i - 1)) % EVENT_QUEUE_LEN
          = (event_read + 1 + (i - 1)) % EVENT_QUEUE_LEN
    BY <1>1, AdvanceThen DEF TypeOK
  <2>2. Advance(event_read) \in Nat /\ event_read \in Nat
    BY AdvanceSlot DEF TypeOK, Slots
  <2>3. /\ Advance(event_read) + i - 1 = Advance(event_read) + (i - 1)
        /\ event_read + (i + 1) - 1 = event_read + 1 + (i - 1)
    BY <1>1, <2>2
  <2> QED
    BY <1>1, <2>1, <2>3
<1>4. Pending # <<>> /\ Head(Pending) = events[event_read]
  <2>1. Pending # <<>> /\ 1 \in 1 .. num_curr_events
    BY <1>1, PendingIs
  <2>2. Pending[1] = events[event_read]
    BY <1>2, <2>1, PendingIs
  <2> QED
    BY <2>1, <2>2, PendingIs
<1>5. Pending' = [i \in 1 .. num_curr_events - 1 |->
                   events[(event_read + (i + 1) - 1) % EVENT_QUEUE_LEN]]
  BY <1>1, <1>3 DEF Pending
<1>6. /\ Tail(Pending) \in [1 .. num_curr_events - 1 -> Event]
      /\ \A i \in 1 .. num_curr_events - 1 : Tail(Pending)[i] = Pending[i + 1]
  <2>1. /\ Tail(Pending) \in Seq(Event) /\ Len(Tail(Pending)) = num_curr_events - 1
        /\ \A i \in 1 .. Len(Tail(Pending)) : Tail(Pending)[i] = Pending[i + 1]
    BY <1>4, PendingIs, HeadTailProperties
  <2> QED
    BY <2>1, LenProperties
<1>7. \A i \in 1 .. num_curr_events - 1 :
        Tail(Pending)[i] = events[(event_read + (i + 1) - 1) % EVENT_QUEUE_LEN]
  <2>1. \A i \in 1 .. num_curr_events - 1 : i + 1 \in 1 .. num_curr_events
    BY <1>1
  <2> QED
    BY <1>6, <2>1, PendingIs
<1>8. Pending' = Tail(Pending)
  BY <1>5, <1>6, <1>7
<1>9. FitInv'
  <2>1. num_curr_events' + InHand' <= EVENT_QUEUE_LEN
    BY <1>1, ConstantsAssumption DEF FitInv, InHand, TypeOK, Slots, NoSlot
  <2>2. events[event_read] # NoEvent
    BY <1>1, <1>2 DEF FitInv
  <2>3. \A i \in 1 .. num_curr_events - 1 :
          events[(event_read + (i + 1) - 1) % EVENT_QUEUE_LEN] # NoEvent
    <3>1. \A i \in 1 .. num_curr_events - 1 : i + 1 \in 1 .. num_curr_events
      BY <1>1
    <3> QED
      BY <1>1, <3>1 DEF FitInv
  <2> QED
    BY <1>1, <1>3, <2>1, <2>2, <2>3 DEF FitInv
<1> QED
  BY <1>1, <1>4, <1>8, <1>9

\* Every step keeps FitInv.
LEMMA FitStep ==
  ASSUME TypeOK, PositionsAgree, FitInv, [Next]_vars
  PROVE  FitInv'
<1>1. ASSUME NEW e \in Event \ {NoEvent}, Notify(e) PROVE FitInv'
  <2>1. CASE crowded'
    BY <2>1 DEF FitInv
  <2>2. CASE ~crowded'
    BY <1>1, <2>2, NotifyAppends
  <2> QED
    BY <2>1, <2>2
<1>2. CASE Take
  <2>1. CASE crowded
    BY <1>2, <2>1 DEF Take, FitInv
  <2>2. CASE ~crowded
    BY <1>2, <2>2, TakeRemovesHead
  <2> QED
    BY <2>1, <2>2
<1>3. CASE Done
  BY <1>3, ConstantsAssumption DEF Done, FitInv, InHand, TypeOK
<1>4. CASE Drained
  BY <1>4, ConstantsAssumption DEF Drained, FitInv, InHand
<1>5. CASE UNCHANGED vars
  BY <1>5 DEF vars, FitInv, InHand
<1> QED
  BY <1>1, <1>2, <1>3, <1>4, <1>5 DEF Next

LEMMA FitHolds == Spec => []FitInv
<1>1. Init => FitInv
  BY ConstantsAssumption DEF Init, FitInv, InHand
<1>2. TypeOK /\ PositionsAgree /\ FitInv /\ [Next]_vars => FitInv'
  BY FitStep
<1> QED
  BY <1>1, <1>2, TypeCorrect, PositionsHold, PTL DEF Spec

\* Each step of the ring is a step of the queue, or leaves it as it is.
LEMMA StepRefines ==
  ASSUME TypeOK, PositionsAgree, FitInv, [Next]_vars
  PROVE  [Fifo!Next]_<<IF crowded THEN <<>> ELSE Pending,
                       IF crowded \/ ev = NoSlot THEN NoEvent ELSE events[ev],
                       crowded>>
<1> DEFINE queue == IF crowded THEN <<>> ELSE Pending
           given == IF crowded \/ ev = NoSlot THEN NoEvent ELSE events[ev]
<1> SUFFICES Fifo!Next \/ (queue' = queue /\ given' = given /\ crowded' = crowded)
  OBVIOUS
<1>1. ~crowded => Len(queue) = num_curr_events /\ (given = NoEvent <=> ev = NoSlot)
  BY PendingIs DEF FitInv
<1>2. ASSUME NEW e \in Event \ {NoEvent}, Notify(e)
      PROVE  Fifo!Next \/ (queue' = queue /\ given' = given /\ crowded' = crowded)
  <2>1. CASE crowded
    <3>1. crowded'
      BY <1>2, <2>1, Zenon DEF Notify
    <3> QED
      BY <2>1, <3>1
  <2>2. CASE ~crowded /\ crowded'
    <3>1. num_curr_events + 1 + InHand > EVENT_QUEUE_LEN
      BY <1>2, <2>2, Zenon DEF Notify
    <3>2. ~Fifo!Fits
      BY <1>1, <2>2, <3>1, ConstantsAssumption DEF Fifo!Fits, InHand, TypeOK
    <3> QED
      BY <2>2, <3>2 DEF Fifo!Next, Fifo!Notify
  <2>3. CASE ~crowded /\ ~crowded'
    <3>1. ~ (num_curr_events + 1 + InHand > EVENT_QUEUE_LEN)
      BY <1>2, <2>3, Zenon DEF Notify
    <3>2. Fifo!Fits
      BY <1>1, <2>3, <3>1, ConstantsAssumption DEF Fifo!Fits, InHand, TypeOK
    <3>3. Pending' = Append(Pending, e) /\ (ev # NoSlot => events'[ev] = events[ev]) /\ ev' = ev
      BY <1>2, <2>3, NotifyAppends DEF Notify
    <3>4. queue' = Append(queue, e)
      BY <2>3, <3>3
    <3>5. given' = given
      BY <2>3, <3>3
    <3>6. crowded = FALSE /\ crowded' = FALSE
      BY <1>2, <2>3, Zenon DEF TypeOK, Notify
    <3> QED
      BY <2>3, <3>2, <3>4, <3>5, <3>6 DEF Fifo!Next, Fifo!Notify
  <2> QED
    BY <2>1, <2>2, <2>3
<1>3. CASE Take
  <2>1. CASE crowded
    BY <1>3, <2>1 DEF Take
  <2>2. CASE ~crowded
    <3>1. ev = NoSlot /\ ev' # NoSlot /\ crowded' = crowded
      BY <1>3 DEF Take, TypeOK, Slots, NoSlot
    <3>2. Pending # <<>> /\ events'[ev'] = Head(Pending) /\ Pending' = Tail(Pending)
      BY <1>3, <2>2, TakeRemovesHead
    <3> QED
      BY <2>2, <3>1, <3>2 DEF Fifo!Next, Fifo!Take
  <2> QED
    BY <2>1, <2>2
<1>4. CASE Done
  <2>1. CASE crowded
    BY <1>4, <2>1 DEF Done
  <2>2. CASE ~crowded
    <3>1. Pending' = Pending
      BY <1>4 DEF Done, Pending
    <3> QED
      BY <1>1, <1>4, <2>2, <3>1 DEF Done, Fifo!Next, Fifo!Done
  <2> QED
    BY <2>1, <2>2
<1>5. CASE Drained
  <2>1. Pending' = <<>> /\ ~crowded'
    <3>1. num_curr_events' = 0 /\ events' = events /\ event_read' = event_read
      BY <1>5 DEF Drained
    <3>2. ~crowded'
      BY <1>5 DEF Drained
    <3> QED
      BY <3>1, <3>2 DEF Pending
  <2>2. CASE crowded
    BY <1>5, <2>1, <2>2 DEF Drained, Fifo!Next, Fifo!Recover
  <2>3. CASE ~crowded
    <3>1. Pending = <<>>
      BY <1>5, PendingIs DEF Drained, Pending
    <3>2. ev = NoSlot /\ ev' = NoSlot
      BY <1>5 DEF Drained
    <3>3. queue' = queue
      BY <2>1, <2>3, <3>1
    <3>4. given' = given
      BY <3>2
    <3>5. crowded = FALSE /\ crowded' = FALSE
      BY <1>5, <2>3, Zenon DEF TypeOK, Drained
    <3> QED
      BY <3>3, <3>4, <3>5
  <2> QED
    BY <2>2, <2>3
<1>6. CASE UNCHANGED vars
  BY <1>6 DEF vars, Pending
<1> QED
  BY <1>2, <1>3, <1>4, <1>5, <1>6 DEF Next

\* The ring with its pointer into it is the queue of EventFifo: in order, and with
\* the event in hand left alone, as long as everything fits.
THEOREM RingRefinesFifo == Spec => FifoWhileItFits
<1>1. Init => Fifo!Init
  BY DEF Init, Fifo!Init, Pending
<1>2. TypeOK /\ PositionsAgree /\ FitInv /\ [Next]_vars
        => [Fifo!Next]_<<IF crowded THEN <<>> ELSE Pending,
                         IF crowded \/ ev = NoSlot THEN NoEvent ELSE events[ev],
                         crowded>>
  BY StepRefines
<1> QED
  BY <1>1, <1>2, TypeCorrect, PositionsHold, FitHolds, PTL DEF Spec, FifoWhileItFits, Fifo!Spec
=============================================================================
