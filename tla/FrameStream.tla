---------------------------- MODULE FrameStream -----------------------------
(***************************************************************************)
(* What the app server promises, whatever it buffers and however the bytes *)
(* of an app are cut: what has been received in a connection is read from  *)
(* its beginning, each byte once.  It is a preamble, looked for three bytes*)
(* at a time, and frames, each taken whole: two bytes of length, then the  *)
(* payload.  The core gets the payloads in this order, under the wsid of   *)
(* the connection's first login, until one is not the document it says it  *)
(* is; from then on nothing is read.  A closed connection leaves nothing   *)
(* to the next.                                                            *)
(***************************************************************************)
EXTENDS AppFrames

CONSTANT Conns

VARIABLES
  up,         \* the connections an app is connected in
  received,   \* what it has sent
  pos,        \* how much of that has been read
  phase,      \* what comes next: the preamble, frames, or nothing any more
  who,        \* the wsid it logged in with, or Nobody
  delivered   \* the frames the core got, and under which wsid

vars == <<up, received, pos, phase, who, delivered>>

Init ==
  /\ up = {}
  /\ received = [c \in Conns |-> <<>>]
  /\ pos = [c \in Conns |-> 0]
  /\ phase = [c \in Conns |-> "greeting"]
  /\ who = [c \in Conns |-> Nobody]
  /\ delivered = [c \in Conns |-> <<>>]

Open(c) ==
  /\ c \notin up
  /\ up' = up \cup {c}
  /\ UNCHANGED <<received, pos, phase, who, delivered>>

\* Bytes are only ever added at the end.
Arrive(c) ==
  /\ c \in up
  /\ received'[c] \in Seq(Byte)
  /\ Len(received'[c]) > Len(received[c])
  /\ First(received'[c], Len(received[c])) = received[c]
  /\ received' = [received EXCEPT ![c] = received'[c]]
  /\ UNCHANGED <<up, pos, phase, who, delivered>>

\* The next n bytes, if they have been received.
Has(c, n) == pos[c] + n <= Len(received[c])
Ahead(c, n) == SubSeq(received[c], pos[c] + 1, pos[c] + n)
Advance(c, n) == pos' = [pos EXCEPT ![c] = @ + n]

Greet(c) ==
  /\ c \in up /\ phase[c] = "greeting"
  /\ Has(c, 3)
  /\ Advance(c, 3)
  /\ phase' = [phase EXCEPT ![c] =
       CASE Ahead(c, 3) = Plain -> "frames"
         [] Ahead(c, 3) = Secure -> "refused"
         [] OTHER -> "greeting"]
  /\ UNCHANGED <<up, received, who, delivered>>

Length(c) == 256 * Ahead(c, 2)[1] + Ahead(c, 2)[2]

SkipEmpty(c) ==
  /\ c \in up /\ phase[c] = "frames"
  /\ Has(c, 2) /\ Length(c) = 0
  /\ Advance(c, 2)
  /\ UNCHANGED <<up, received, phase, who, delivered>>

TakeFrame(c) ==
  LET size == Length(c)
      payload == Rest(Ahead(c, 2 + size), 2)
  IN
  /\ c \in up /\ phase[c] = "frames"
  /\ Has(c, 2) /\ size # 0 /\ Has(c, 2 + size)
  /\ Advance(c, 2 + size)
  /\ IF who[c] = Nobody
     THEN \E w \in OfferedWsids(payload) : who' = [who EXCEPT ![c] = w]
     ELSE UNCHANGED who
  /\ IF BsonSize(payload) = size
     THEN /\ delivered' = [delivered EXCEPT ![c] =
               Append(@, [wsid |-> WsidOf(who'[c]), payload |-> payload])]
          /\ UNCHANGED phase
     ELSE /\ phase' = [phase EXCEPT ![c] = "refused"]
          /\ UNCHANGED delivered
  /\ UNCHANGED <<up, received>>

Close(c) ==
  /\ c \in up
  /\ up' = up \ {c}
  /\ received' = [received EXCEPT ![c] = <<>>]
  /\ pos' = [pos EXCEPT ![c] = 0]
  /\ phase' = [phase EXCEPT ![c] = "greeting"]
  /\ who' = [who EXCEPT ![c] = Nobody]
  /\ delivered' = [delivered EXCEPT ![c] = <<>>]

Next == \E c \in Conns :
  Open(c) \/ Arrive(c) \/ Greet(c) \/ SkipEmpty(c) \/ TakeFrame(c) \/ Close(c)
Spec == Init /\ [][Next]_vars
=============================================================================
