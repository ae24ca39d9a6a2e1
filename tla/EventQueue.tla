----------------------------- MODULE EventQueue -----------------------------
(***************************************************************************)
(* The core's event queue (ios_port/event.c) and the loop that drains it   *)
(* (ios_port/app.c:763-774).  The core thread alone touches it, so an      *)
(* operation is a step; a handler that runs may notify further events      *)
(* while it still holds a pointer into the ring.                           *)
(***************************************************************************)
EXTENDS Integers, Sequences

CONSTANTS
  EVENT_QUEUE_LEN,
  Event,
  NoEvent,
  MaxPending        \* bound: num_curr_events goes no further

ASSUME ConstantsAssumption ==
  /\ EVENT_QUEUE_LEN \in Nat \ {0}
  /\ NoEvent \in Event          \* what an unused slot holds
  /\ MaxPending \in Nat

VARIABLES
  events,           \* the slots
  event_read,
  event_write,
  num_curr_events,
  ev,               \* the slot the running handler points to, or NoSlot
  crowded           \* history: pending and in hand exceeded the ring, and the
                    \* loop has not run dry since
vars == <<events, event_read, event_write, num_curr_events, ev, crowded>>

Slots == 0 .. EVENT_QUEUE_LEN - 1
NoSlot == -1

TypeOK ==
  /\ events \in [Slots -> Event]
  /\ event_read \in Slots
  /\ event_write \in Slots
  /\ num_curr_events \in Nat
  /\ ev \in Slots \cup {NoSlot}
  /\ crowded \in BOOLEAN

Init ==
  /\ events = [s \in Slots |-> NoEvent]
  /\ event_read = 0
  /\ event_write = 0
  /\ num_curr_events = 0
  /\ ev = NoSlot
  /\ crowded = FALSE

InHand == IF ev = NoSlot THEN 0 ELSE 1

\* Mutant: no wrap.
AdvanceUnwrapped(s) == s + 1
Advance(s) == (s + 1) % EVENT_QUEUE_LEN

\* Mutant: an event that finds the ring full is counted and not written.
NotifyCounted(e) ==
  /\ num_curr_events < MaxPending
  /\ num_curr_events' = num_curr_events + 1
  /\ IF num_curr_events < EVENT_QUEUE_LEN
     THEN /\ events' = [events EXCEPT ![event_write] = e]
          /\ event_write' = Advance(event_write)
     ELSE UNCHANGED <<events, event_write>>
  /\ crowded' = (crowded \/ num_curr_events + 1 + InHand > EVENT_QUEUE_LEN)
  /\ UNCHANGED <<event_read, ev>>

\* wish_message_processor_notify.  An overflow is reported and goes ahead.
Notify(e) ==
  /\ num_curr_events < MaxPending
  /\ events' = [events EXCEPT ![event_write] = e]
  /\ event_write' = Advance(event_write)
  /\ num_curr_events' = num_curr_events + 1
  /\ crowded' = (crowded \/ num_curr_events + 1 + InHand > EVENT_QUEUE_LEN)
  /\ UNCHANGED <<event_read, ev>>

\* Mutant: the position is advanced before the slot's address is taken.
TakeAdvanced ==
  /\ ev = NoSlot
  /\ num_curr_events # 0
  /\ event_read' = Advance(event_read)
  /\ ev' = event_read'
  /\ num_curr_events' = num_curr_events - 1
  /\ UNCHANGED <<events, event_write, crowded>>

\* wish_get_next_event, when it finds an event; its handler starts.
Take ==
  /\ ev = NoSlot
  /\ num_curr_events # 0
  /\ ev' = event_read
  /\ event_read' = Advance(event_read)
  /\ num_curr_events' = num_curr_events - 1
  /\ UNCHANGED <<events, event_write, crowded>>

\* wish_message_processor_task returns.
Done ==
  /\ ev # NoSlot
  /\ ev' = NoSlot
  /\ UNCHANGED <<events, event_read, event_write, num_curr_events, crowded>>

\* wish_get_next_event returns NULL and the loop ends.
Drained ==
  /\ ev = NoSlot
  /\ num_curr_events = 0
  /\ crowded' = FALSE
  /\ UNCHANGED <<events, event_read, event_write, num_curr_events, ev>>

Next == (\E e \in Event \ {NoEvent} : Notify(e)) \/ Take \/ Done \/ Drained
Spec == Init /\ [][Next]_vars

-----------------------------------------------------------------------------
(* Properties.                                                             *)

\* The positions agree with the counter even past an overflow, which event.c
\* reports and does not prevent: a ring that runs dry is in order again, the
\* events written over are all that is lost.
PositionsAgree == event_write = (event_read + num_curr_events) % EVENT_QUEUE_LEN

Pending == [i \in 1 .. num_curr_events |-> events[(event_read + i - 1) % EVENT_QUEUE_LEN]]

Fifo == INSTANCE EventFifo WITH
  Capacity <- EVENT_QUEUE_LEN,
  queue <- IF crowded THEN <<>> ELSE Pending,
  given <- IF crowded \/ ev = NoSlot THEN NoEvent ELSE events[ev],
  lost <- crowded

\* The ring is a queue that keeps the order, and keeps the event in hand as it
\* was, as long as pending and in hand fit in it; and again once it ran dry.
FifoWhileItFits == Fifo!Spec
=============================================================================
