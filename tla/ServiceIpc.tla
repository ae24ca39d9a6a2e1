----------------------------- MODULE ServiceIpc -----------------------------
(***************************************************************************)
(* The two threads of the app and what they share: the main thread, on     *)
(* which the app and the Mist API run, and the Wish core thread            *)
(* (ios_port/port_service_ipc.c, and the launch, delivery and lock         *)
(* functions of MistPort.m and MistApi.m).                                 *)
(*                                                                         *)
(* App to core: send_app_to_core appends an event to ipc_event_queue under *)
(* appToCoreLock; the core takes at most one event in a turn of its loop   *)
(* and handles it outside the lock.                                        *)
(* Core to app: port_send_to_app runs sendToMistApp: on the main thread    *)
(* and waits until it has returned.                                        *)
(*                                                                         *)
(* Events are numbered in the order they are submitted.  LL_APPEND is two  *)
(* steps, finding the tail and linking to it.                              *)
(***************************************************************************)
EXTENDS Integers, Sequences

CONSTANTS
  MaxCalls,     \* bound: calls of send_app_to_core
  MaxReplies,   \* bound: calls of send_core_to_app in a turn of the core's loop
  OneTurn       \* does the app launch both parts in one turn of its run loop?

ASSUME ConstantsAssumption ==
  /\ MaxCalls \in Nat
  /\ MaxReplies \in Nat
  /\ OneTurn \in BOOLEAN

VARIABLES
  main,              \* where the main thread is
  caller,            \* what send_app_to_core returns to
  tail,              \* the event LL_APPEND found last, 0 for an empty list
  runLoop,           \* performSelectorOnMainThread: what waits for the main thread
  core,              \* where the core thread is
  event,             \* the core's local: the event it took, or 0
  replies,           \* what the core sent to the app in this turn of its loop
  appToCoreLock,     \* who holds the lock; "nil" until launchWish made it
  ipc_event_queue,
  sent,              \* events accepted by send_app_to_core so far
  handled,           \* events the core is done with
  calls,             \* calls of send_app_to_core so far
  wish_app,          \* has startMistApi: created the app?
  connected          \* what became of the core's connected: message

mainVars == <<main, caller, tail>>
coreVars == <<core, event, replies>>
launchVars == <<wish_app, connected>>
vars == <<mainVars, coreVars, runLoop, appToCoreLock, ipc_event_queue,
          sent, handled, calls, launchVars>>

\* "turn" runs app code, "serving" sendToMistApp:, the rest is send_app_to_core.
MainPcs == {"idle", "turn", "serving", "acquire", "find", "link", "release"}
\* "loop" is the rest of ios_port_main's loop, "handle" receive_app_to_core.
CorePcs == {"off", "init", "loop", "acquire", "take", "release", "handle",
            "waitLoop", "waitHandle"}

TypeOK ==
  /\ main \in MainPcs
  /\ caller \in {"turn", "serving"}
  /\ tail \in Nat
  /\ runLoop \in Seq({"connected", "deliver"})
  /\ core \in CorePcs
  /\ event \in Nat
  /\ replies \in 0 .. MaxReplies
  /\ appToCoreLock \in {"nil", "free", "main", "core"}
  /\ ipc_event_queue \in Seq(Nat \ {0})
  /\ sent \in Nat
  /\ handled \in Nat
  /\ calls \in 0 .. MaxCalls
  /\ wish_app \in BOOLEAN
  /\ connected \in {"pending", "yes", "lost"}

Init ==
  /\ main = "idle" /\ caller = "turn" /\ tail = 0
  /\ runLoop = <<>>
  /\ core = "off" /\ event = 0 /\ replies = 0
  /\ appToCoreLock = "nil"
  /\ ipc_event_queue = <<>>
  /\ sent = 0 /\ handled = 0 /\ calls = 0
  /\ wish_app = FALSE /\ connected = "pending"

\* A message to nil does nothing: before launchWish nothing is locked.
Acquire(who) ==
  \/ appToCoreLock = "nil" /\ UNCHANGED appToCoreLock
  \/ appToCoreLock = "free" /\ appToCoreLock' = who
Unlock == appToCoreLock' = IF appToCoreLock = "nil" THEN "nil" ELSE "free"

-----------------------------------------------------------------------------
(* The main thread.                                                        *)

\* A user's tap, a timer: the app's code runs.
BeginTurn ==
  /\ main = "idle"
  /\ main' = "turn"
  /\ UNCHANGED <<caller, tail, coreVars, runLoop, appToCoreLock, ipc_event_queue,
                 sent, handled, calls, launchVars>>

\* +launchWish: the locks are made before the core's thread starts.  launchedOnce
\* is core # "off", mistLaunchedOnce below is wish_app; a second call does nothing.
LaunchWish ==
  /\ main = "turn"
  /\ IF core = "off"
     THEN /\ appToCoreLock' = "free"
          /\ core' = "init"
     ELSE UNCHANGED <<appToCoreLock, core>>
  /\ UNCHANGED <<mainVars, event, replies, runLoop, ipc_event_queue,
                 sent, handled, calls, wish_app, connected>>

\* +launchMistApi
LaunchMistApi ==
  /\ main = "turn"
  /\ wish_app' = TRUE
  /\ UNCHANGED <<mainVars, coreVars, runLoop, appToCoreLock, ipc_event_queue,
                 sent, handled, calls, connected>>

EndTurn ==
  /\ main = "turn"
  /\ OneTurn => (core # "off" <=> wish_app)
  /\ main' = "idle"
  /\ UNCHANGED <<caller, tail, coreVars, runLoop, appToCoreLock, ipc_event_queue,
                 sent, handled, calls, launchVars>>

\* send_app_to_core, for a request or an answer of the app.
SendCall ==
  /\ main \in {"turn", "serving"}
  /\ wish_app
  /\ calls < MaxCalls
  /\ calls' = calls + 1
  /\ \/ UNCHANGED <<main, caller, sent>>     \* malloc fails: dropped
     \/ /\ main' = "acquire" /\ caller' = main
        /\ sent' = sent + 1
  /\ UNCHANGED <<tail, coreVars, runLoop, appToCoreLock, ipc_event_queue,
                 handled, launchVars>>

SendAcquire ==
  /\ main = "acquire"
  /\ Acquire("main")
  /\ main' = "find"
  /\ UNCHANGED <<caller, tail, coreVars, runLoop, ipc_event_queue,
                 sent, handled, calls, launchVars>>

SendFindTail ==
  /\ main = "find"
  /\ tail' = IF ipc_event_queue = <<>> THEN 0 ELSE ipc_event_queue[Len(ipc_event_queue)]
  /\ main' = "link"
  /\ UNCHANGED <<caller, coreVars, runLoop, appToCoreLock, ipc_event_queue,
                 sent, handled, calls, launchVars>>

\* Mutant: the arguments are swapped, the tail found is linked.
SendLinkTail ==
  /\ main = "link"
  /\ ipc_event_queue' = Append(ipc_event_queue, tail)
  /\ main' = "release"
  /\ UNCHANGED <<caller, tail, coreVars, runLoop, appToCoreLock,
                 sent, handled, calls, launchVars>>

\* Mutant: the event becomes the list.
SendLinkHead ==
  /\ main = "link"
  /\ ipc_event_queue' = <<sent>>
  /\ main' = "release"
  /\ UNCHANGED <<caller, tail, coreVars, runLoop, appToCoreLock,
                 sent, handled, calls, launchVars>>

\* An event linked to one that has left the list meanwhile would be lost.
SendLink ==
  /\ main = "link"
  /\ ipc_event_queue' =
       IF tail = 0 THEN <<sent>>
       ELSE IF \E i \in DOMAIN ipc_event_queue : ipc_event_queue[i] = tail
       THEN Append(ipc_event_queue, sent) ELSE ipc_event_queue
  /\ main' = "release"
  /\ UNCHANGED <<caller, tail, coreVars, runLoop, appToCoreLock,
                 sent, handled, calls, launchVars>>

SendRelease ==
  /\ main = "release"
  /\ Unlock
  /\ main' = caller
  /\ UNCHANGED <<caller, tail, coreVars, runLoop, ipc_event_queue,
                 sent, handled, calls, launchVars>>

\* Mutant: what was posted meanwhile goes with it.
ServeConnectedDrains ==
  /\ main = "idle"
  /\ runLoop # <<>> /\ Head(runLoop) = "connected"
  /\ runLoop' = <<>>
  /\ connected' = IF wish_app THEN "yes" ELSE "lost"
  /\ main' = "turn"
  /\ UNCHANGED <<caller, tail, coreVars, appToCoreLock, ipc_event_queue,
                 sent, handled, calls, wish_app>>

\* +connected: tells the app, which answers by logging in: the turn goes on.
ServeConnected ==
  /\ main = "idle"
  /\ runLoop # <<>> /\ Head(runLoop) = "connected"
  /\ runLoop' = Tail(runLoop)
  /\ connected' = IF wish_app THEN "yes" ELSE "lost"
  /\ main' = "turn"
  /\ UNCHANGED <<caller, tail, coreVars, appToCoreLock, ipc_event_queue,
                 sent, handled, calls, wish_app>>

ServeDelivery ==
  /\ main = "idle"
  /\ runLoop # <<>> /\ Head(runLoop) = "deliver"
  /\ runLoop' = Tail(runLoop)
  /\ main' = "serving"
  /\ UNCHANGED <<caller, tail, coreVars, appToCoreLock, ipc_event_queue,
                 sent, handled, calls, launchVars>>

\* sendToMistApp: returns, and so does the call that waited for it.
DeliveryDone ==
  /\ main = "serving"
  /\ main' = "idle"
  /\ core' = IF core = "waitHandle" THEN "handle" ELSE "loop"
  /\ UNCHANGED <<caller, tail, event, replies, runLoop, appToCoreLock, ipc_event_queue,
                 sent, handled, calls, launchVars>>

-----------------------------------------------------------------------------
(* The core thread.                                                        *)

\* Mutant: connected: is called on the core's own thread.
CoreInitDirect ==
  /\ core = "init"
  /\ connected' = IF wish_app THEN "yes" ELSE "lost"
  /\ core' = "loop"
  /\ UNCHANGED <<mainVars, event, replies, runLoop, appToCoreLock, ipc_event_queue,
                 sent, handled, calls, wish_app>>

\* Mutant: nobody is told, as in the empty core_service_ipc_init.
CoreInitSilent ==
  /\ core = "init"
  /\ core' = "loop"
  /\ UNCHANGED <<mainVars, event, replies, runLoop, appToCoreLock, ipc_event_queue,
                 sent, handled, calls, launchVars>>

\* port_service_ipc_init: the message waits for the main thread, not the core.
CoreInit ==
  /\ core = "init"
  /\ runLoop' = Append(runLoop, "connected")
  /\ core' = "loop"
  /\ UNCHANGED <<mainVars, event, replies, appToCoreLock, ipc_event_queue,
                 sent, handled, calls, launchVars>>

\* Mutant: the core does not wait for the main thread.
CoreSendOnly ==
  /\ core \in {"loop", "handle"}
  /\ handled > 0 \/ core = "handle"
  /\ replies < MaxReplies
  /\ replies' = replies + 1
  /\ runLoop' = Append(runLoop, "deliver")
  /\ UNCHANGED <<mainVars, core, event, appToCoreLock, ipc_event_queue,
                 sent, handled, calls, launchVars>>

\* send_core_to_app, to an app that has logged in, from wherever the core runs.
CoreSend ==
  /\ core \in {"loop", "handle"}
  /\ handled > 0 \/ core = "handle"
  /\ replies < MaxReplies
  /\ replies' = replies + 1
  /\ runLoop' = Append(runLoop, "deliver")
  /\ core' = IF core = "loop" THEN "waitLoop" ELSE "waitHandle"
  /\ UNCHANGED <<mainVars, event, appToCoreLock, ipc_event_queue,
                 sent, handled, calls, launchVars>>

\* port_service_ipc_periodic
PeriodicBegin ==
  /\ core = "loop"
  /\ core' = "acquire"
  /\ UNCHANGED <<mainVars, event, replies, runLoop, appToCoreLock, ipc_event_queue,
                 sent, handled, calls, launchVars>>

\* Mutant: the queue is read without the lock.
PeriodicAcquireNot ==
  /\ core = "acquire"
  /\ core' = "take"
  /\ UNCHANGED <<mainVars, event, replies, runLoop, appToCoreLock, ipc_event_queue,
                 sent, handled, calls, launchVars>>

PeriodicAcquire ==
  /\ core = "acquire"
  /\ Acquire("core")
  /\ core' = "take"
  /\ UNCHANGED <<mainVars, event, replies, runLoop, ipc_event_queue,
                 sent, handled, calls, launchVars>>

PeriodicTake ==
  /\ core = "take"
  /\ IF ipc_event_queue = <<>>
     THEN event' = 0 /\ UNCHANGED ipc_event_queue
     ELSE /\ event' = Head(ipc_event_queue)
          /\ ipc_event_queue' = Tail(ipc_event_queue)
  /\ core' = "release"
  /\ UNCHANGED <<mainVars, replies, runLoop, appToCoreLock,
                 sent, handled, calls, launchVars>>

\* Mutant: the lock is kept while the event is handled.
PeriodicReleaseLate ==
  /\ core = "release"
  /\ IF event = 0 THEN Unlock ELSE UNCHANGED appToCoreLock
  /\ core' = IF event = 0 THEN "loop" ELSE "handle"
  /\ replies' = 0
  /\ UNCHANGED <<mainVars, event, runLoop, ipc_event_queue,
                 sent, handled, calls, launchVars>>

\* The lock is released either way; without an event the next turn begins.
PeriodicRelease ==
  /\ core = "release"
  /\ Unlock
  /\ core' = IF event = 0 THEN "loop" ELSE "handle"
  /\ replies' = 0
  /\ UNCHANGED <<mainVars, event, runLoop, ipc_event_queue,
                 sent, handled, calls, launchVars>>

\* receive_app_to_core has returned, the event is freed.
HandleDone ==
  /\ core = "handle"
  /\ handled' = handled + 1
  /\ event' = 0
  /\ replies' = 0
  /\ core' = "loop"
  /\ UNCHANGED <<mainVars, runLoop, appToCoreLock, ipc_event_queue, sent, calls, launchVars>>

-----------------------------------------------------------------------------
Main ==
  \/ BeginTurn \/ LaunchWish \/ LaunchMistApi \/ EndTurn
  \/ SendCall \/ SendAcquire \/ SendFindTail \/ SendLink \/ SendRelease
  \/ ServeConnected \/ ServeDelivery \/ DeliveryDone

Core ==
  \/ CoreInit \/ CoreSend
  \/ PeriodicBegin \/ PeriodicAcquire \/ PeriodicTake \/ PeriodicRelease \/ HandleDone

Next == Main \/ Core
Spec == Init /\ [][Next]_vars

\* An app that has launched one part launches the other.
LaunchOther ==
  \/ wish_app /\ LaunchWish
  \/ core # "off" /\ LaunchMistApi

\* Both threads run.  The app's turns end, its run loop gets to what was posted
\* on it although the app's turns go on, and the core's loop goes round.  The core
\* takes the lock again in each turn: between two, it is in select() for up to
\* 100 ms, so who waits for the lock gets it (strong fairness of SendAcquire).
Fairness ==
  /\ WF_vars(LaunchOther) /\ WF_vars(EndTurn) /\ WF_vars(DeliveryDone)
  /\ SF_vars(SendAcquire) /\ WF_vars(SendFindTail \/ SendLink \/ SendRelease)
  /\ SF_vars(ServeConnected \/ ServeDelivery)
  /\ WF_vars(CoreInit \/ PeriodicBegin \/ PeriodicAcquire \/ PeriodicTake
              \/ PeriodicRelease \/ HandleDone)
FairSpec == Spec /\ Fairness

-----------------------------------------------------------------------------
(* Properties.                                                             *)

\* What send_app_to_core has accepted and not linked yet.
InFlight == IF main \in {"acquire", "find", "link"} THEN 1 ELSE 0
\* What the core has taken and not finished.
InHand == IF event = 0 THEN 0 ELSE 1

\* No event is lost or overtaken between the threads: what the core is done
\* with, has in hand, finds in the queue and is about to find there are the
\* numbers 1 .. sent, in this order.
InOrder ==
  /\ handled + InHand + Len(ipc_event_queue) + InFlight = sent
  /\ event # 0 => event = handled + 1
  /\ \A i \in DOMAIN ipc_event_queue : ipc_event_queue[i] = handled + InHand + i

\* The main thread never waits for a lock the core keeps while the core waits
\* for the main thread: core to app is a synchronous call, app to core a lock.
NoCircularWait == ~ (main = "acquire" /\ appToCoreLock = "core" /\ core \in {"waitLoop", "waitHandle"})

\* When the core's connected: arrives the app is there to log in.
ConnectedFindsApp == connected # "lost"

\* What the threads are at, for AppChannels.
Waiting == core \in {"waitLoop", "waitHandle"}
\* send_app_to_core runs, and returns to what?
Sending(returnsTo) == main \in {"acquire", "find", "link", "release"} /\ caller = returnsTo
App ==
  IF main = "idle" THEN "idle"
  ELSE IF main = "turn" \/ Sending("turn") THEN "turn" ELSE "serving"
Taken == IF event = 0 THEN handled ELSE event
Channels == INSTANCE AppChannels WITH
  accepted <- sent, taken <- Taken, app <- App, calling <- Waiting

\* The lock and the list are a mailbox, the selector on the main thread a call: the
\* core takes the next request when it is done with the last, never while it calls
\* the app; the app serves a call between its turns and may leave requests in it.
ImplementsChannels == Channels!Spec

\* Every request the app's side accepted is handled by the core.
RequestsHandled == \A i \in 1 .. MaxCalls : sent >= i ~> handled >= i

\* The core's synchronous calls into the app return.
DeliveriesReturn == core \in {"waitLoop", "waitHandle"} ~> core \notin {"waitLoop", "waitHandle"}

\* Once the core runs, the app hears of it.
AppHearsOfCore == core # "off" ~> connected = "yes"

=============================================================================
