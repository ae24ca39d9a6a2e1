----------------------------- MODULE EventFifo ------------------------------
(***************************************************************************)
(* What the core may expect of its event queue: events are handled one at  *)
(* a time, in the order they were notified, and the event in hand does not *)
(* change under its handler - as long as what is pending and what is in    *)
(* hand fit in Capacity.  Past that nothing is promised until the queue    *)
(* has been drained.                                                       *)
(***************************************************************************)
EXTENDS Naturals, Sequences

CONSTANTS Capacity, Event, NoEvent

VARIABLES
  queue,   \* events notified and not yet taken
  given,   \* the event in hand, or NoEvent
  lost     \* was there too much, and has the queue not been empty since?

Init == queue = <<>> /\ given = NoEvent /\ lost = FALSE

Fits == Len(queue) + (IF given = NoEvent THEN 0 ELSE 1) < Capacity

Notify(e) ==
  /\ ~lost
  /\ IF Fits THEN queue' = Append(queue, e) /\ UNCHANGED <<given, lost>>
             ELSE queue' = <<>> /\ given' = NoEvent /\ lost' = TRUE

Take ==
  /\ ~lost /\ given = NoEvent
  /\ queue # <<>>
  /\ given' = Head(queue) /\ queue' = Tail(queue)
  /\ UNCHANGED lost

Done ==
  /\ ~lost /\ given # NoEvent
  /\ given' = NoEvent
  /\ UNCHANGED <<queue, lost>>

Recover ==
  /\ lost
  /\ lost' = FALSE
  /\ UNCHANGED <<queue, given>>

Next == (\E e \in Event : Notify(e)) \/ Take \/ Done \/ Recover
Spec == Init /\ [][Next]_<<queue, given, lost>>
=============================================================================
