---------------------------- MODULE AppChannels -----------------------------
(***************************************************************************)
(* What the two threads promise each other, whatever locks, lists and run  *)
(* loops are behind it.  App to core is a mailbox: the app leaves requests *)
(* in its turns, the core takes them one at a time, in order.  Core to app *)
(* is a call: the app serves it in a turn of its own, and until that is    *)
(* over the core does nothing.  The app may leave requests while it serves.*)
(* Requests are numbered from 1.                                           *)
(***************************************************************************)
EXTENDS Naturals

VARIABLES
  accepted,  \* requests the app has left
  taken,     \* requests the core has taken
  handled,   \* requests the core is done with
  app,       \* what the app's thread is at: nothing, a turn, a call of the core
  calling    \* does the core wait for the app?

vars == <<accepted, taken, handled, app, calling>>

Init == accepted = 0 /\ taken = 0 /\ handled = 0 /\ app = "idle" /\ calling = FALSE

Leave ==
  /\ app # "idle"
  /\ accepted' = accepted + 1
  /\ UNCHANGED <<taken, handled, app, calling>>

Take ==
  /\ ~calling
  /\ taken = handled /\ taken < accepted
  /\ taken' = taken + 1
  /\ UNCHANGED <<accepted, handled, app, calling>>

Finish ==
  /\ ~calling
  /\ handled < taken
  /\ handled' = taken
  /\ UNCHANGED <<accepted, taken, app, calling>>

\* To an app the core has heard of.
Call ==
  /\ ~calling
  /\ taken > 0
  /\ calling' = TRUE
  /\ UNCHANGED <<accepted, taken, handled, app>>

Serve ==
  /\ app = "idle" /\ calling
  /\ app' = "serving"
  /\ UNCHANGED <<accepted, taken, handled, calling>>

Return ==
  /\ app = "serving"
  /\ app' = "idle" /\ calling' = FALSE
  /\ UNCHANGED <<accepted, taken, handled>>

BeginTurn == app = "idle" /\ app' = "turn" /\ UNCHANGED <<accepted, taken, handled, calling>>
EndTurn == app = "turn" /\ app' = "idle" /\ UNCHANGED <<accepted, taken, handled, calling>>

Next == Leave \/ Take \/ Finish \/ Call \/ Serve \/ Return \/ BeginTurn \/ EndTurn
Spec == Init /\ [][Next]_vars
=============================================================================
