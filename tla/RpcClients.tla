----------------------------- MODULE RpcClients -----------------------------
(* Who asks the Mist and Wish APIs, and what a request is.                 *)
EXTENDS Integers, Sequences, SequencesExt

CONSTANTS
  MaxRpcs,      \* bound: ids given out
  ClientIds     \* the ids a pass-through client uses for its own requests

Ids == 1 .. MaxRpcs
NoId == -1

\* Who asks.  Request objects: Signals and its like go to the Mist API, the
\* friend requests to the Wish API, and WldClear and WldList to the Wish API
\* although they are MistRequests.  Pass-through clients: two of
\* PassthroughRequest and the sandbox.
MistObjects == {"signals"}
FriendObjects == {"identity"}
WldObjects == {"wld"}
Objects == MistObjects \cup FriendObjects \cup WldObjects
Passes == {"mist", "wish", "sandbox"}
Vias == Objects \cup Passes

\* The API a request is made to, and the one its cancellation goes to.
Api(via) == IF via \in MistObjects \cup {"mist", "sandbox"} THEN "mist" ELSE "wish"
CancelApi(via) == IF via \in FriendObjects \cup {"wish"} THEN "wish" ELSE "mist"

Kinds == {"ack", "err", "sig", "fin"}
States == {"none", "pending", "ending", "answered", "ended"}
Unused == [via |-> "none", cid |-> NoId, reg |-> 0, state |-> "none"]
=============================================================================
