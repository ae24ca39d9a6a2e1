-------------------------- MODULE ServiceIpc_proofs --------------------------
(* Proofs about ServiceIpc, for any number of calls and replies.           *)
EXTENDS ServiceIpc, TLAPS

-----------------------------------------------------------------------------
(* What a sequence is after one step of a queue.                           *)

LEMMA AppendIs ==
  ASSUME NEW S, NEW s \in Seq(S), NEW e \in S
  PROVE  /\ Append(s, e) \in Seq(S)
         /\ Len(Append(s, e)) = Len(s) + 1
         /\ \A i \in 1 .. Len(s) : Append(s, e)[i] = s[i]
         /\ Append(s, e)[Len(s) + 1] = e
  OBVIOUS

LEMMA TailIs ==
  ASSUME NEW S, NEW s \in Seq(S), s # <<>>
  PROVE  /\ Tail(s) \in Seq(S)
         /\ Len(s) \in Nat \ {0}
         /\ Len(Tail(s)) = Len(s) - 1
         /\ \A i \in 1 .. Len(s) - 1 : Tail(s)[i] = s[i + 1]
         /\ Head(s) = s[1]
         /\ Head(s) \in S
  OBVIOUS

-----------------------------------------------------------------------------
(* The inductive invariant.                                                *)

\* A turn of the app's own, and a turn for the core's delivery.
InTurn == main = "turn" \/ Sending("turn")
InDelivery == main = "serving" \/ Sending("serving")

\* The lock is there from launchWish on, and is held where the code says so.
LockInv ==
  /\ appToCoreLock = "nil" <=> core = "off"
  /\ core \in {"take", "release"} <=> appToCoreLock = "core"
  /\ core # "off" /\ main \in {"find", "link", "release"} => appToCoreLock = "main"

\* The core has an event while it handles one; LL_APPEND's tail is the queue's
\* last event until it is linked to.
HandInv ==
  /\ event # 0 => core \in {"release", "handle", "waitHandle"}
  /\ core \in {"handle", "waitHandle"} => event # 0
  /\ main = "link" =>
       tail = IF ipc_event_queue = <<>> THEN 0 ELSE ipc_event_queue[Len(ipc_event_queue)]

\* A delivery is posted, or being served, only while the core waits for it, and
\* it is the last thing posted: the core posts nothing while it waits.
DeliveryInv ==
  /\ InDelivery => Waiting
  /\ \A i \in 1 .. Len(runLoop) :
       runLoop[i] = "deliver" => Waiting /\ ~InDelivery /\ i = Len(runLoop)

\* An app that launches both parts in one turn has both or none outside it.
LaunchInv ==
  /\ OneTurn /\ ~InTurn => (core # "off" <=> wish_app)
  /\ \A i \in 1 .. Len(runLoop) : core # "off"
  /\ OneTurn => ConnectedFindsApp

IInv == TypeOK /\ LockInv /\ HandInv /\ InOrder /\ DeliveryInv /\ LaunchInv

-----------------------------------------------------------------------------
(* Types.                                                                  *)

LEMMA TypeStep == TypeOK /\ InOrder /\ [Next]_vars => TypeOK'
<1> SUFFICES ASSUME TypeOK, InOrder, [Next]_vars
             PROVE  TypeOK'
  OBVIOUS
<1> USE ConstantsAssumption
    DEF TypeOK, MainPcs, CorePcs, coreVars, mainVars, launchVars, Acquire, Unlock
<1>1. CASE BeginTurn \/ LaunchWish \/ LaunchMistApi \/ EndTurn
  BY <1>1 DEF BeginTurn, LaunchWish, LaunchMistApi, EndTurn
<1>2. CASE SendCall \/ SendAcquire \/ SendRelease
  <2>1. CASE SendCall
    BY <2>1 DEF SendCall
  <2>2. CASE SendAcquire
    BY <2>2 DEF SendAcquire
  <2>3. CASE SendRelease
    BY <2>3 DEF SendRelease
  <2> QED
    BY <1>2, <2>1, <2>2, <2>3
<1>3. CASE SendFindTail
  <2>1. tail' \in Nat
    BY <1>3 DEF SendFindTail
  <2> QED
    BY <1>3, <2>1 DEF SendFindTail
<1>4. CASE SendLink
  <2>1. sent \in Nat \ {0}
    BY <1>4 DEF SendLink, InOrder, InFlight, InHand
  <2>2. ipc_event_queue' \in Seq(Nat \ {0})
    <3>1. <<sent>> \in Seq(Nat \ {0}) /\ Append(ipc_event_queue, sent) \in Seq(Nat \ {0})
      BY <2>1, AppendIs
    <3> QED
      BY <1>4, <3>1 DEF SendLink
  <2> QED
    BY <1>4, <2>2 DEF SendLink
<1>5. CASE ServeConnected \/ ServeDelivery
  <2>1. runLoop' \in Seq({"connected", "deliver"})
    BY <1>5, TailIs DEF ServeConnected, ServeDelivery
  <2> QED
    BY <1>5, <2>1 DEF ServeConnected, ServeDelivery
<1>6. CASE DeliveryDone
  BY <1>6 DEF DeliveryDone
<1>7. CASE CoreInit \/ CoreSend
  <2>1. runLoop' \in Seq({"connected", "deliver"})
    <3>1. /\ Append(runLoop, "connected") \in Seq({"connected", "deliver"})
          /\ Append(runLoop, "deliver") \in Seq({"connected", "deliver"})
      BY AppendIs
    <3> QED
      BY <1>7, <3>1 DEF CoreInit, CoreSend
  <2>2. replies' \in 0 .. MaxReplies
    BY <1>7 DEF CoreInit, CoreSend
  <2> QED
    BY <1>7, <2>1, <2>2 DEF CoreInit, CoreSend
<1>8. CASE PeriodicTake
  <2>1. ipc_event_queue' \in Seq(Nat \ {0}) /\ event' \in Nat
    <3>1. CASE ipc_event_queue = <<>>
      BY <1>8, <3>1 DEF PeriodicTake
    <3>2. CASE ipc_event_queue # <<>>
      <4>1. Head(ipc_event_queue) \in Nat \ {0} /\ Tail(ipc_event_queue) \in Seq(Nat \ {0})
        BY <3>2, TailIs
      <4> QED
        BY <1>8, <3>2, <4>1 DEF PeriodicTake
    <3> QED
      BY <3>1, <3>2
  <2> QED
    BY <1>8, <2>1 DEF PeriodicTake
<1>9. CASE PeriodicBegin \/ PeriodicAcquire \/ PeriodicRelease \/ HandleDone
  <2>1. CASE PeriodicBegin
    BY <2>1 DEF PeriodicBegin
  <2>2. CASE HandleDone
    BY <2>2 DEF HandleDone
  <2>3. CASE PeriodicAcquire \/ PeriodicRelease
    BY <2>3, SMTT(30) DEF PeriodicAcquire, PeriodicRelease
  <2> QED
    BY <1>9, <2>1, <2>2, <2>3
<1>10. CASE UNCHANGED vars
  BY <1>10 DEF vars
<1> QED
  BY <1>1, <1>2, <1>3, <1>4, <1>5, <1>6, <1>7, <1>8, <1>9, <1>10 DEF Next, Main, Core

-----------------------------------------------------------------------------
(* The lock, and what is in hand.                                          *)

\* Every step of either thread keeps the lock's discipline.
LEMMA LockStep ==
  ASSUME TypeOK, LockInv, DeliveryInv, [Next]_vars
  PROVE  LockInv'
<1> USE DEF TypeOK, LockInv, coreVars, mainVars, launchVars, Acquire, Unlock, MainPcs, CorePcs
<1>1. CASE BeginTurn \/ LaunchWish \/ LaunchMistApi \/ EndTurn \/ SendCall
  BY <1>1 DEF BeginTurn, LaunchWish, LaunchMistApi, EndTurn, SendCall
<1>2. CASE SendAcquire \/ SendFindTail \/ SendLink \/ SendRelease
  BY <1>2 DEF SendAcquire, SendFindTail, SendLink, SendRelease
<1>3. CASE ServeConnected \/ ServeDelivery
  BY <1>3 DEF ServeConnected, ServeDelivery
<1>4. CASE DeliveryDone
  BY <1>4 DEF DeliveryDone, DeliveryInv, InDelivery, Waiting
<1>5. CASE CoreInit \/ CoreSend
  BY <1>5 DEF CoreInit, CoreSend
<1>6. CASE PeriodicBegin \/ PeriodicAcquire \/ PeriodicTake
  BY <1>6 DEF PeriodicBegin, PeriodicAcquire, PeriodicTake
<1>7. CASE PeriodicRelease \/ HandleDone
  BY <1>7 DEF PeriodicRelease, HandleDone
<1>8. CASE UNCHANGED vars
  BY <1>8 DEF vars
<1> QED
  BY <1>1, <1>2, <1>3, <1>4, <1>5, <1>6, <1>7, <1>8 DEF Next, Main, Core

\* The queue's tail does not move between LL_APPEND's two steps: the core takes
\* events under the lock only.
LEMMA HandStep ==
  ASSUME TypeOK, LockInv, HandInv, DeliveryInv, [Next]_vars
  PROVE  HandInv'
<1> USE DEF TypeOK, HandInv, coreVars, mainVars, launchVars, MainPcs, CorePcs
<1>1. CASE BeginTurn \/ LaunchMistApi \/ EndTurn \/ SendCall
  BY <1>1 DEF BeginTurn, LaunchMistApi, EndTurn, SendCall
<1>2. CASE LaunchWish
  BY <1>2 DEF LaunchWish
<1>3. CASE SendAcquire \/ SendLink \/ SendRelease
  BY <1>3 DEF SendAcquire, SendLink, SendRelease
<1>4. CASE SendFindTail
  BY <1>4 DEF SendFindTail
<1>5. CASE ServeConnected \/ ServeDelivery
  BY <1>5 DEF ServeConnected, ServeDelivery
<1>6. CASE DeliveryDone
  BY <1>6 DEF DeliveryDone, DeliveryInv, InDelivery, Waiting
<1>7. CASE CoreInit \/ CoreSend
  BY <1>7 DEF CoreInit, CoreSend
<1>8. CASE PeriodicBegin \/ PeriodicAcquire \/ PeriodicRelease
  BY <1>8 DEF PeriodicBegin, PeriodicAcquire, PeriodicRelease
<1>9. CASE PeriodicTake
  <2>1. main # "link"
    BY <1>9 DEF PeriodicTake, LockInv
  <2> QED
    BY <1>9, <2>1 DEF PeriodicTake
<1>10. CASE HandleDone
  BY <1>10 DEF HandleDone
<1>11. CASE UNCHANGED vars
  BY <1>11 DEF vars
<1> QED
  BY <1>1, <1>2, <1>3, <1>4, <1>5, <1>6, <1>7, <1>8, <1>9, <1>10, <1>11 DEF Next, Main, Core

-----------------------------------------------------------------------------
(* The order of events.                                                    *)

\* A step that leaves the queue, what is in hand and the counts alone.
LEMMA SameOrder ==
  ASSUME InOrder, UNCHANGED <<handled, event, ipc_event_queue, sent>>, InFlight' = InFlight
  PROVE  InOrder'
  BY DEF InOrder, InHand

LEMMA Sums ==
  ASSUME TypeOK
  PROVE  /\ handled \in Nat /\ sent \in Nat
         /\ InHand \in Nat /\ InFlight \in Nat
         /\ Len(ipc_event_queue) \in Nat
  BY DEF TypeOK, InHand, InFlight

\* What is found under the lock is found in the order it was submitted.
LEMMA OrderStep ==
  ASSUME TypeOK, LockInv, HandInv, DeliveryInv, InOrder, [Next]_vars
  PROVE  InOrder'
<1> USE DEF coreVars, mainVars, launchVars
<1>1. CASE BeginTurn \/ LaunchWish \/ LaunchMistApi \/ EndTurn
  BY <1>1, SameOrder DEF BeginTurn, LaunchWish, LaunchMistApi, EndTurn, InFlight
<1>2. CASE SendCall
  <2>1. CASE UNCHANGED <<main, caller, sent>>
    BY <1>2, <2>1, SameOrder DEF SendCall, InFlight
  <2>2. CASE main' = "acquire" /\ sent' = sent + 1
    <3>1. InFlight = 0 /\ InFlight' = 1
      BY <1>2, <2>2 DEF SendCall, InFlight
    <3>2. InHand' = InHand /\ UNCHANGED <<handled, event, ipc_event_queue>>
      BY <1>2 DEF SendCall, InHand
    <3>3. handled + InHand + Len(ipc_event_queue) + 1 = sent + 1
      BY <3>1, Sums DEF InOrder
    <3> QED
      BY <2>2, <3>1, <3>2, <3>3 DEF InOrder
  <2> QED
    BY <1>2, <2>1, <2>2 DEF SendCall
<1>3. CASE SendAcquire \/ SendFindTail
  BY <1>3, SameOrder DEF SendAcquire, SendFindTail, InFlight
<1>4. CASE SendLink
  <2> DEFINE q == ipc_event_queue
  <2>1. InFlight = 1 /\ InFlight' = 0 /\ InHand' = InHand /\ InHand \in Nat
    BY <1>4 DEF SendLink, InFlight, InHand
  <2>2. ipc_event_queue' = Append(q, sent)
    <3>1. CASE q = <<>>
      BY <1>4, <3>1 DEF SendLink, HandInv
    <3>2. CASE q # <<>>
      <4>1. Len(q) \in DOMAIN q /\ q[Len(q)] \in Nat \ {0}
        BY <3>2 DEF TypeOK
      <4> QED
        BY <1>4, <3>2, <4>1 DEF SendLink, HandInv
    <3> QED
      BY <3>1, <3>2
  <2>3. sent = handled + InHand + Len(q) + 1
    BY <2>1 DEF InOrder, TypeOK
  <2>4. sent \in Nat \ {0}
    BY <2>1, <2>3 DEF TypeOK
  <2>5. /\ Len(ipc_event_queue') = Len(q) + 1
        /\ \A i \in 1 .. Len(q) : ipc_event_queue'[i] = q[i]
        /\ ipc_event_queue'[Len(q) + 1] = sent
    BY <2>2, <2>4, AppendIs DEF TypeOK
  <2>6. \A i \in 1 .. Len(q) : q[i] = handled + InHand + i
    BY DEF InOrder, TypeOK
  <2>7. DOMAIN ipc_event_queue' = 1 .. Len(q) + 1
    BY <2>2, <2>4 DEF TypeOK
  <2>8. \A i \in DOMAIN ipc_event_queue' : ipc_event_queue'[i] = handled + InHand + i
    <3> SUFFICES ASSUME NEW i \in 1 .. Len(q) + 1
                 PROVE  ipc_event_queue'[i] = handled + InHand + i
      BY <2>7
    <3>1. CASE i \in 1 .. Len(q)
      BY <2>5, <2>6, <3>1
    <3>2. CASE i = Len(q) + 1
      BY <2>3, <2>5, <3>2, Sums
    <3> QED
      BY <3>1, <3>2, Sums
  <2>9. UNCHANGED <<handled, event, sent>>
    BY <1>4 DEF SendLink
  <2> QED
    BY <2>1, <2>3, <2>5, <2>8, <2>9 DEF InOrder, TypeOK
<1>5. CASE SendRelease
  BY <1>5, SameOrder DEF SendRelease, InFlight, TypeOK
<1>6. CASE ServeConnected \/ ServeDelivery \/ DeliveryDone
  BY <1>6, SameOrder DEF ServeConnected, ServeDelivery, DeliveryDone, InFlight
<1>7. CASE CoreInit \/ CoreSend \/ PeriodicBegin \/ PeriodicAcquire \/ PeriodicRelease
  BY <1>7, SameOrder DEF CoreInit, CoreSend, PeriodicBegin, PeriodicAcquire, PeriodicRelease,
       InFlight
<1>8. CASE PeriodicTake
  <2> DEFINE q == ipc_event_queue
  <2>1. event = 0 /\ InHand = 0 /\ InFlight' = InFlight /\ InFlight \in Nat
    BY <1>8 DEF PeriodicTake, HandInv, InHand, InFlight
  <2>2. CASE q = <<>>
    <3>1. UNCHANGED <<handled, event, ipc_event_queue, sent>>
      BY <1>8, <2>1, <2>2 DEF PeriodicTake
    <3> QED
      BY <2>1, <3>1, SameOrder
  <2>3. CASE q # <<>>
    <3>1. event' = Head(q) /\ ipc_event_queue' = Tail(q) /\ UNCHANGED <<handled, sent>>
      BY <1>8, <2>3 DEF PeriodicTake
    <3>2. /\ Len(q) \in Nat \ {0}
          /\ Tail(q) \in Seq(Nat \ {0})
          /\ Len(Tail(q)) = Len(q) - 1
          /\ \A i \in 1 .. Len(q) - 1 : Tail(q)[i] = q[i + 1]
          /\ Head(q) = q[1]
      BY <2>3, TailIs DEF TypeOK
    <3>3. \A i \in 1 .. Len(q) : q[i] = handled + i
      BY <2>1 DEF InOrder, TypeOK
    <3>4. event' = handled + 1 /\ event' # 0
      BY <3>1, <3>2, <3>3 DEF TypeOK
    <3>5. InHand' = 1
      BY <3>4 DEF InHand
    <3>6. DOMAIN Tail(q) = 1 .. Len(q) - 1
      BY <3>2
    <3>7. \A i \in 1 .. Len(q) - 1 : Tail(q)[i] = handled + 1 + i
      BY <3>2, <3>3 DEF TypeOK
    <3>8. handled + 1 + (Len(q) - 1) + InFlight = sent
      BY <2>1, <3>2, Sums DEF InOrder
    <3> QED
      BY <2>1, <3>1, <3>2, <3>4, <3>5, <3>6, <3>7, <3>8 DEF InOrder
  <2> QED
    BY <2>2, <2>3
<1>9. CASE HandleDone
  <2>1. event # 0 /\ InHand = 1 /\ InHand' = 0 /\ InFlight' = InFlight
    BY <1>9 DEF HandleDone, HandInv, InHand, InFlight
  <2>2. handled' = handled + 1 /\ event' = 0 /\ UNCHANGED <<ipc_event_queue, sent>>
    BY <1>9 DEF HandleDone
  <2> QED
    BY <2>1, <2>2 DEF InOrder, TypeOK
<1>10. CASE UNCHANGED vars
  BY <1>10, SameOrder DEF vars, InFlight
<1> QED
  BY <1>1, <1>2, <1>3, <1>4, <1>5, <1>6, <1>7, <1>8, <1>9, <1>10 DEF Next, Main, Core

-----------------------------------------------------------------------------
(* The synchronous call of the core into the app.                          *)

\* What is posted stays last, or is taken from an otherwise empty run loop.
LEMMA DeliveryStep ==
  ASSUME TypeOK, LockInv, DeliveryInv, [Next]_vars
  PROVE  DeliveryInv'
<1> USE DEF coreVars, mainVars, launchVars
<1>0. runLoop \in Seq({"connected", "deliver"}) /\ Len(runLoop) \in Nat
      /\ caller \in {"turn", "serving"}
  BY DEF TypeOK
<1>1. ASSUME UNCHANGED runLoop, Waiting' <=> Waiting, InDelivery' <=> InDelivery
      PROVE  DeliveryInv'
  BY <1>1 DEF DeliveryInv
<1>2. CASE BeginTurn \/ LaunchWish \/ LaunchMistApi \/ EndTurn
  <2>1. UNCHANGED runLoop /\ (Waiting' <=> Waiting) /\ (InDelivery' <=> InDelivery)
    BY <1>2 DEF BeginTurn, LaunchWish, LaunchMistApi, EndTurn, InDelivery, Sending, Waiting
  <2> QED
    BY <1>1, <2>1
<1>3. CASE SendCall
  <2>1. UNCHANGED runLoop /\ (Waiting' <=> Waiting) /\ (InDelivery' <=> InDelivery)
    BY <1>3 DEF SendCall, InDelivery, Sending, Waiting
  <2> QED
    BY <1>1, <2>1
<1>4. CASE SendAcquire \/ SendFindTail \/ SendLink \/ SendRelease
  <2>1. UNCHANGED runLoop /\ (Waiting' <=> Waiting) /\ (InDelivery' <=> InDelivery)
    BY <1>0, <1>4 DEF SendAcquire, SendFindTail, SendLink, SendRelease, InDelivery, Sending, Waiting
  <2> QED
    BY <1>1, <2>1
<1>5. CASE ServeConnected
  <2>1. runLoop # <<>> /\ runLoop' = Tail(runLoop) /\ Waiting' = Waiting
    BY <1>5 DEF ServeConnected, Waiting
  <2>2. ~InDelivery /\ ~InDelivery'
    BY <1>5 DEF ServeConnected, InDelivery, Sending
  <2>3. /\ Len(runLoop) \in Nat \ {0}
        /\ Len(Tail(runLoop)) = Len(runLoop) - 1
        /\ \A i \in 1 .. Len(runLoop) - 1 : Tail(runLoop)[i] = runLoop[i + 1]
    BY <1>0, <2>1, TailIs
  <2>4. ASSUME NEW i \in 1 .. Len(runLoop) - 1, Tail(runLoop)[i] = "deliver"
        PROVE  Waiting /\ i = Len(runLoop) - 1
    <3>1. i + 1 \in 1 .. Len(runLoop) /\ runLoop[i + 1] = "deliver"
      BY <2>3, <2>4
    <3>2. Waiting /\ i + 1 = Len(runLoop) /\ i \in Int
      BY <3>1 DEF DeliveryInv
    <3>3. i = Len(runLoop) - 1
      <4>1. \A k, n \in Int : k + 1 = n => k = n - 1
        OBVIOUS
      <4> QED
        BY <1>0, <3>2, <4>1
    <3> QED
      BY <3>2, <3>3
  <2> QED
    BY <2>1, <2>2, <2>3, <2>4 DEF DeliveryInv
<1>6. CASE ServeDelivery
  <2>1. runLoop # <<>> /\ runLoop' = Tail(runLoop) /\ Waiting' = Waiting
    BY <1>6 DEF ServeDelivery, Waiting
  <2>2. runLoop[1] = "deliver" /\ Len(runLoop) \in Nat \ {0}
        /\ Len(Tail(runLoop)) = Len(runLoop) - 1
    BY <1>0, <1>6, <2>1, TailIs DEF ServeDelivery
  <2>3. Waiting /\ Len(runLoop) = 1
    <3>1. 1 \in 1 .. Len(runLoop)
      BY <2>2
    <3> QED
      BY <2>2, <3>1 DEF DeliveryInv
  <2>4. Len(runLoop') = 0
    BY <2>1, <2>2, <2>3
  <2> QED
    BY <2>1, <2>3, <2>4 DEF DeliveryInv
<1>7. CASE DeliveryDone
  <2>1. UNCHANGED runLoop /\ InDelivery /\ ~InDelivery'
    BY <1>7 DEF DeliveryDone, InDelivery, Sending
  <2> QED
    BY <2>1 DEF DeliveryInv
<1>8. CASE CoreInit
  <2>1. /\ runLoop' = Append(runLoop, "connected")
        /\ ~Waiting /\ ~Waiting'
        /\ InDelivery' <=> InDelivery
    BY <1>8 DEF CoreInit, Waiting, InDelivery, Sending
  <2>2. /\ Len(runLoop') = Len(runLoop) + 1
        /\ \A i \in 1 .. Len(runLoop) : runLoop'[i] = runLoop[i]
        /\ runLoop'[Len(runLoop) + 1] = "connected"
    BY <1>0, <2>1, AppendIs
  <2>3. ASSUME NEW i \in 1 .. Len(runLoop) + 1 PROVE runLoop'[i] # "deliver"
    <3>1. CASE i \in 1 .. Len(runLoop)
      BY <2>1, <2>2, <3>1 DEF DeliveryInv
    <3>2. CASE i = Len(runLoop) + 1
      BY <2>2, <3>2
    <3> QED
      BY <1>0, <3>1, <3>2
  <2> QED
    BY <2>1, <2>2, <2>3 DEF DeliveryInv
<1>9. CASE CoreSend
  <2>1. /\ runLoop' = Append(runLoop, "deliver")
        /\ ~Waiting /\ Waiting'
        /\ InDelivery' <=> InDelivery
    BY <1>9 DEF CoreSend, Waiting, InDelivery, Sending
  <2>2. /\ Len(runLoop') = Len(runLoop) + 1
        /\ \A i \in 1 .. Len(runLoop) : runLoop'[i] = runLoop[i]
    BY <1>0, <2>1, AppendIs
  <2>3. ~InDelivery'
    BY <2>1 DEF DeliveryInv
  <2>4. ASSUME NEW i \in 1 .. Len(runLoop) + 1, runLoop'[i] = "deliver"
        PROVE  i = Len(runLoop) + 1
    <3>1. i \notin 1 .. Len(runLoop)
      BY <2>1, <2>2, <2>4 DEF DeliveryInv
    <3> QED
      BY <1>0, <3>1
  <2> QED
    BY <2>1, <2>2, <2>3, <2>4 DEF DeliveryInv
<1>10. CASE PeriodicBegin \/ PeriodicAcquire \/ PeriodicTake \/ PeriodicRelease \/ HandleDone
  <2>1. UNCHANGED runLoop /\ (Waiting' <=> Waiting) /\ (InDelivery' <=> InDelivery)
    BY <1>10 DEF PeriodicBegin, PeriodicAcquire, PeriodicTake, PeriodicRelease, HandleDone,
         InDelivery, Sending, Waiting
  <2> QED
    BY <1>1, <2>1
<1>11. CASE UNCHANGED vars
  BY <1>1, <1>11 DEF vars, Waiting, InDelivery, Sending
<1> QED
  BY <1>2, <1>3, <1>4, <1>5, <1>6, <1>7, <1>8, <1>9, <1>10, <1>11 DEF Next, Main, Core

\* The message that the core is up is served outside a turn, when the app exists.
LEMMA LaunchStep ==
  ASSUME TypeOK, LaunchInv, DeliveryInv, [Next]_vars
  PROVE  LaunchInv'
<1> USE DEF coreVars, mainVars, launchVars
<1>0. runLoop \in Seq({"connected", "deliver"}) /\ Len(runLoop) \in Nat
      /\ caller \in {"turn", "serving"} /\ wish_app \in BOOLEAN
  BY DEF TypeOK
<1>1. CASE BeginTurn \/ LaunchWish \/ LaunchMistApi \/ EndTurn
  BY <1>1 DEF BeginTurn, LaunchWish, LaunchMistApi, EndTurn, LaunchInv, InTurn, Sending,
       ConnectedFindsApp
<1>2. CASE SendCall \/ SendAcquire \/ SendFindTail \/ SendLink \/ SendRelease
  <2>1. UNCHANGED <<core, wish_app, connected, runLoop>>
    BY <1>2 DEF SendCall, SendAcquire, SendFindTail, SendLink, SendRelease
  <2>2. InTurn' <=> InTurn
    BY <1>0, <1>2 DEF SendCall, SendAcquire, SendFindTail, SendLink, SendRelease, InTurn, Sending
  <2> QED
    BY <2>1, <2>2 DEF LaunchInv, ConnectedFindsApp
<1>3. CASE ServeConnected \/ ServeDelivery
  <2>1. runLoop # <<>> /\ runLoop' = Tail(runLoop) /\ ~InTurn
    BY <1>3 DEF ServeConnected, ServeDelivery, InTurn, Sending
  <2>2. core # "off"
    BY <1>0, <2>1 DEF LaunchInv
  <2>3. OneTurn => wish_app
    BY <2>1, <2>2 DEF LaunchInv
  <2>4. UNCHANGED <<core, wish_app>>
    BY <1>3 DEF ServeConnected, ServeDelivery
  <2>5. OneTurn => connected' # "lost"
    BY <1>3, <2>3 DEF ServeConnected, ServeDelivery, LaunchInv, ConnectedFindsApp
  <2> QED
    BY <2>2, <2>3, <2>4, <2>5 DEF LaunchInv, ConnectedFindsApp
<1>4. CASE DeliveryDone
  <2>1. core # "off" /\ core' # "off" /\ UNCHANGED <<wish_app, connected>> /\ ~InTurn
    BY <1>4 DEF DeliveryDone, DeliveryInv, InDelivery, Waiting, InTurn, Sending
  <2> QED
    BY <2>1 DEF LaunchInv, ConnectedFindsApp
<1>5. CASE Core
  <2>1. core # "off" /\ core' # "off" /\ UNCHANGED <<wish_app, connected, main, caller>>
    BY <1>5 DEF Core, CoreInit, CoreSend, PeriodicBegin, PeriodicAcquire, PeriodicTake,
         PeriodicRelease, HandleDone
  <2> QED
    BY <2>1 DEF LaunchInv, ConnectedFindsApp, InTurn, Sending
<1>6. CASE UNCHANGED vars
  BY <1>6 DEF vars, LaunchInv, ConnectedFindsApp, InTurn, Sending
<1> QED
  BY <1>1, <1>2, <1>3, <1>4, <1>5, <1>6 DEF Next, Main

-----------------------------------------------------------------------------
(* The theorems.                                                           *)

LEMMA Inductive == Spec => []IInv
<1>1. ASSUME Init PROVE IInv
  <2>1. TypeOK
    <3>1. 0 \in 0 .. MaxReplies /\ 0 \in 0 .. MaxCalls
      BY ConstantsAssumption
    <3>2. <<>> \in Seq({"connected", "deliver"}) /\ <<>> \in Seq(Nat \ {0}) /\ 0 \in Nat
      OBVIOUS
    <3> QED
      BY <1>1, <3>1, <3>2, Zenon DEF Init, TypeOK, MainPcs, CorePcs
  <2>1a. LockInv /\ HandInv
    BY <1>1 DEF Init, LockInv, HandInv
  <2>2. InOrder
    BY <1>1 DEF Init, InOrder, InHand, InFlight
  <2>3. DeliveryInv
    <3>1. ~InDelivery /\ Len(runLoop) = 0
      BY <1>1 DEF Init, InDelivery, Sending
    <3> QED
      BY <3>1 DEF DeliveryInv
  <2>4. LaunchInv
    <3>1. core = "off" /\ ~wish_app /\ connected = "pending" /\ Len(runLoop) = 0
      BY <1>1, Zenon DEF Init
    <3> QED
      BY <3>1 DEF LaunchInv, ConnectedFindsApp
  <2> QED
    BY <2>1, <2>1a, <2>2, <2>3, <2>4 DEF IInv
<1>2. IInv /\ [Next]_vars => IInv'
  BY TypeStep, LockStep, HandStep, OrderStep, DeliveryStep, LaunchStep DEF IInv
<1> QED
  BY <1>1, <1>2, PTL DEF Spec

\* The variables keep their types: sent events are numbered from 1, the queue
\* never holds the 0 that stands for no event.
THEOREM TypeCorrect == Spec => []TypeOK
  BY Inductive, PTL DEF IInv

\* No event the app submits is lost, doubled or overtaken on its way to the core,
\* however the two threads interleave in send_app_to_core and
\* port_service_ipc_periodic and however many events there are.
THEOREM OrderHolds == Spec => []InOrder
  BY Inductive, PTL DEF IInv

\* The lock app to core and the synchronous call core to app never wait for
\* each other: the core has released the lock before it handles an event.
THEOREM NoDeadlyEmbrace == Spec => []NoCircularWait
<1>1. IInv => NoCircularWait
  BY DEF IInv, LockInv, NoCircularWait
<1> QED
  BY <1>1, Inductive, PTL

\* An app that calls launchWish and launchMistApi in one turn of its run loop
\* hears of the core.
THEOREM AppIsThere == OneTurn => (Spec => []ConnectedFindsApp)
<1>1. ASSUME OneTurn PROVE IInv => ConnectedFindsApp
  BY <1>1 DEF IInv, LaunchInv
<1>2. ASSUME OneTurn PROVE Spec => []ConnectedFindsApp
  <2>1. IInv => ConnectedFindsApp
    BY <1>1, <1>2
  <2> QED
    BY <2>1, Inductive, PTL
<1> QED
  BY <1>2

-----------------------------------------------------------------------------
(* The two threads as the channels of AppChannels.                         *)

\* Steps inside send_app_to_core and port_service_ipc_periodic show in no channel.
LEMMA Hidden ==
  ASSUME UNCHANGED <<sent, handled, event>>, App' = App, Waiting' <=> Waiting
  PROVE  UNCHANGED Channels!vars
  BY DEF Channels!vars, Taken

\* Who is in send_app_to_core is in a turn or serves a call.
LEMMA MainIs ==
  ASSUME TypeOK
  PROVE  /\ App = "idle" <=> main = "idle"
         /\ App = "turn" <=> InTurn
         /\ App = "serving" <=> InDelivery
  BY DEF TypeOK, MainPcs, App, InTurn, InDelivery, Sending

LEMMA ChannelsStart == Init => Channels!Init
  BY DEF Init, Channels!Init, Taken, App, Waiting

\* What the main thread does is a step of the app's side, or shows in no channel.
LEMMA MainChannels ==
  ASSUME IInv, Main
  PROVE  [Channels!Next]_Channels!vars
<1> USE DEF coreVars, mainVars, launchVars, Sending
<1>1. TypeOK
  BY DEF IInv
<1>2. CASE BeginTurn \/ ServeConnected
  <2>1. /\ main = "idle" /\ main' = "turn"
        /\ UNCHANGED <<sent, handled, event, core>>
    BY <1>2 DEF BeginTurn, ServeConnected
  <2>2. App = "idle" /\ App' = "turn"
    BY <2>1 DEF App
  <2>3. Channels!BeginTurn
    BY <2>1, <2>2 DEF Channels!BeginTurn, Taken, Waiting
  <2> QED
    BY <2>3 DEF Channels!Next
<1>3. CASE LaunchWish \/ LaunchMistApi
  <2>1. UNCHANGED <<sent, handled, event, main, caller>> /\ (Waiting' <=> Waiting)
    BY <1>3 DEF LaunchWish, LaunchMistApi, Waiting
  <2> QED
    BY <2>1, Hidden DEF App
<1>4. CASE EndTurn
  <2>1. Channels!EndTurn
    BY <1>4 DEF EndTurn, Channels!EndTurn, App, Taken, Waiting
  <2> QED
    BY <2>1 DEF Channels!Next
<1>5. CASE SendCall
  <2>1. CASE UNCHANGED <<main, caller, sent>>
    <3>1. UNCHANGED <<sent, handled, event, main, caller, core>>
      BY <1>5, <2>1 DEF SendCall
    <3> QED
      BY <3>1, Hidden DEF App, Waiting
  <2>2. CASE main' = "acquire" /\ caller' = main /\ sent' = sent + 1
    <3>1. main \in {"turn", "serving"} /\ UNCHANGED <<handled, event, core>>
      BY <1>5 DEF SendCall
    <3>2. App # "idle" /\ App' = App
      BY <2>2, <3>1 DEF App
    <3>3. Channels!Leave
      BY <2>2, <3>1, <3>2 DEF Channels!Leave, Taken, Waiting
    <3> QED
      BY <3>3 DEF Channels!Next
  <2> QED
    BY <1>5, <2>1, <2>2 DEF SendCall
<1>6. CASE SendAcquire \/ SendFindTail \/ SendLink
  <2>1. /\ main \in {"acquire", "find", "link"} /\ main' \in {"find", "link", "release"}
        /\ UNCHANGED <<sent, handled, event, caller, core>>
    BY <1>6 DEF SendAcquire, SendFindTail, SendLink
  <2>2. App' = App
    BY <2>1 DEF App
  <2> QED
    BY <2>1, <2>2, Hidden DEF Waiting
<1>7. CASE SendRelease
  <2>1. /\ main = "release" /\ main' = caller /\ caller \in {"turn", "serving"}
        /\ UNCHANGED <<sent, handled, event, caller, core>>
    BY <1>1, <1>7 DEF SendRelease, TypeOK
  <2>2. App' = App
    BY <2>1 DEF App
  <2> QED
    BY <2>1, <2>2, Hidden DEF Waiting
<1>8. CASE ServeDelivery
  <2>1. /\ main = "idle" /\ main' = "serving"
        /\ UNCHANGED <<sent, handled, event, core>>
    BY <1>8 DEF ServeDelivery
  <2>2. Waiting
    <3>1. Len(runLoop) >= 1 /\ runLoop[1] = "deliver" /\ 1 \in 1 .. Len(runLoop)
      BY <1>1, <1>8, TailIs DEF ServeDelivery, TypeOK
    <3> QED
      BY <3>1 DEF IInv, DeliveryInv
  <2>3. App = "idle" /\ App' = "serving"
    BY <2>1 DEF App
  <2>4. Channels!Serve
    BY <2>1, <2>2, <2>3 DEF Channels!Serve, Taken, Waiting
  <2> QED
    BY <2>4 DEF Channels!Next
<1>9. CASE DeliveryDone
  <2>1. /\ main = "serving" /\ main' = "idle" /\ ~Waiting'
        /\ UNCHANGED <<sent, handled, event>>
    BY <1>9 DEF DeliveryDone, Waiting
  <2>2. App = "serving" /\ App' = "idle"
    BY <2>1 DEF App
  <2>3. Channels!Return
    BY <2>1, <2>2 DEF Channels!Return, Taken
  <2> QED
    BY <2>3 DEF Channels!Next
<1> QED
  BY <1>2, <1>3, <1>4, <1>5, <1>6, <1>7, <1>8, <1>9 DEF Main

\* What the core's thread does is a step of the core's side, or shows in no channel.
LEMMA CoreChannels ==
  ASSUME IInv, Core
  PROVE  [Channels!Next]_Channels!vars
<1> USE DEF coreVars, mainVars, launchVars
<1>1. /\ TypeOK /\ handled \in Nat /\ sent \in Nat /\ event \in Nat
      /\ InHand \in Nat /\ InFlight \in Nat /\ Len(ipc_event_queue) \in Nat
  BY Sums DEF IInv, TypeOK
<1>2. UNCHANGED <<main, caller, sent>> /\ App' = App
  BY DEF Core, CoreInit, CoreSend, PeriodicBegin, PeriodicAcquire, PeriodicTake,
         PeriodicRelease, HandleDone, App, Sending
<1>3. CASE CoreInit \/ PeriodicBegin \/ PeriodicAcquire \/ PeriodicRelease
  <2>1. UNCHANGED <<handled, event>> /\ ~Waiting /\ ~Waiting'
    BY <1>3 DEF CoreInit, PeriodicBegin, PeriodicAcquire, PeriodicRelease, Waiting
  <2> QED
    BY <1>2, <2>1, Hidden
<1>4. CASE CoreSend
  <2>1. UNCHANGED <<handled, event>> /\ ~Waiting /\ Waiting'
    BY <1>4 DEF CoreSend, Waiting
  <2>2. Taken > 0
    BY <1>1, <1>4 DEF CoreSend, Taken, IInv, HandInv
  <2>3. Channels!Call
    BY <1>2, <2>1, <2>2 DEF Channels!Call, Taken
  <2> QED
    BY <2>3 DEF Channels!Next
<1>5. CASE PeriodicTake
  <2>1. event = 0 /\ core = "take" /\ core' = "release" /\ UNCHANGED handled
    BY <1>5 DEF PeriodicTake, IInv, HandInv
  <2>2. ~Waiting /\ ~Waiting'
    BY <2>1 DEF Waiting
  <2>3. CASE ipc_event_queue = <<>>
    <3>1. event' = event
      BY <1>5, <2>1, <2>3 DEF PeriodicTake
    <3> QED
      BY <1>2, <2>1, <2>2, <3>1, Hidden
  <2>4. CASE ipc_event_queue # <<>>
    <3>1. event' = ipc_event_queue[1] /\ Len(ipc_event_queue) >= 1
      BY <1>1, <1>5, <2>4, TailIs DEF PeriodicTake, TypeOK
    <3>2. ipc_event_queue[1] = handled + 1 /\ handled < sent
      BY <1>1, <2>1, <3>1 DEF IInv, InOrder, InHand
    <3>3. Taken = handled /\ Taken' = handled + 1
      BY <1>1, <2>1, <3>1, <3>2 DEF Taken
    <3>4. Taken < sent /\ Taken' = Taken + 1
      BY <3>2, <3>3
    <3>5. Waiting' = Waiting
      BY <2>1 DEF Waiting
    <3>6. Channels!Take
      BY <1>2, <2>1, <2>2, <3>3, <3>4, <3>5, Zenon DEF Channels!Take
    <3> QED
      BY <3>6 DEF Channels!Next
  <2> QED
    BY <2>3, <2>4
<1>6. CASE HandleDone
  <2>1. /\ event # 0 /\ event' = 0 /\ handled' = handled + 1
        /\ core = "handle" /\ core' = "loop" /\ ~Waiting
    BY <1>6 DEF HandleDone, IInv, HandInv, Waiting
  <2>2. event = handled + 1
    BY <2>1 DEF IInv, InOrder
  <2>3. Taken = handled + 1 /\ Taken' = handled'
    BY <2>1, <2>2 DEF Taken
  <2>4. handled < Taken /\ handled' = Taken /\ Taken' = Taken
    BY <1>1, <2>1, <2>3
  <2>5. Waiting' = Waiting
    BY <2>1 DEF Waiting
  <2>6. Channels!Finish
    BY <1>2, <2>1, <2>4, <2>5, Zenon DEF Channels!Finish
  <2> QED
    BY <2>6 DEF Channels!Next
<1> QED
  BY <1>3, <1>4, <1>5, <1>6 DEF Core

\* The locked list and the selector on the main thread are a mailbox and a call: the
\* core takes each request once, in order, when it is done with the one before and
\* does not wait for the app, and the app serves a call between its turns.
THEOREM ThreadsRefineChannels == Spec => ImplementsChannels
<1>1. IInv /\ [Next]_vars => [Channels!Next]_Channels!vars
  <2>1. CASE UNCHANGED vars
    BY <2>1, Hidden DEF vars, coreVars, mainVars, App, Sending, Waiting
  <2> QED
    BY <2>1, MainChannels, CoreChannels DEF Next
<1> QED
  BY <1>1, ChannelsStart, Inductive, PTL DEF Spec, ImplementsChannels, Channels!Spec
=============================================================================
