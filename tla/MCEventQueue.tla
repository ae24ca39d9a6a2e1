---------------------------- MODULE MCEventQueue ----------------------------
(* EventQueue with a ring of a few slots and events told apart by name.    *)
EXTENDS EventQueue
=============================================================================
