----------------------------- MODULE AppFrames ------------------------------
(* What is in the bytes an app sends: the preamble and, in a frame's       *)
(* payload, a BSON document in which the app may log in.                   *)
EXTENDS Integers, Sequences

CONSTANT Wsids    \* the wsids of the apps there are

Byte == {n \in Nat : n < 256}

\* A wsid is a byte here, 0 the wsid of zeros, which is also what an app has that
\* has not logged in.
NoWsid == 0
Nobody == -1
WsidOf(who) == IF who = Nobody THEN NoWsid ELSE who
Frame == [wsid : Byte, payload : Seq(Byte)]

First(s, n) == SubSeq(s, 1, n)
Rest(s, n) == SubSeq(s, n + 1, Len(s))

Plain == <<87, 46, 25>>     \* "W." and 0x19
Secure == <<87, 46, 24>>    \* "W." and 0x18, not implemented

\* bson_size: the document's first byte, the low one of its length.
BsonSize(payload) == payload[1]
\* "wsid", binary data of the right length: the second byte, Nobody if there is
\* none.  In a payload shorter than its document the search leaves the payload.
OfferedWsids(payload) ==
  IF BsonSize(payload) > Len(payload) THEN Wsids \cup {NoWsid, Nobody}
  ELSE IF Len(payload) >= 2 THEN {payload[2]} ELSE {Nobody}

-----------------------------------------------------------------------------
(* What a stream means: the reference, which knows neither chunks nor a    *)
(* buffer nor an automaton.                                                *)

\* The bytes are taken by three; the first preamble there is counts.
Triple(s, j) == SubSeq(s, 3 * j + 1, 3 * j + 3)
Greets(s, j) ==
  /\ 3 * j + 3 <= Len(s)
  /\ Triple(s, j) = Plain
  /\ \A i \in 0 .. j - 1 : Triple(s, i) \notin {Plain, Secure}

\* The frame behind the first p bytes.
Size(s, p) == 256 * s[p + 1] + s[p + 2]
Whole(s, p) == p + 2 <= Len(s) /\ p + 2 + Size(s, p) <= Len(s)
PayloadAt(s, p) == SubSeq(s, p + 3, p + 2 + Size(s, p))

\* The payloads of the frames behind the first p bytes, up to the first frame that
\* is not there yet or not the document it says it is.
PayloadsFrom(s) ==
  LET from[p \in 0 .. Len(s)] ==
        IF ~Whole(s, p) THEN <<>>
        ELSE IF Size(s, p) = 0 THEN from[p + 2]
        ELSE IF BsonSize(PayloadAt(s, p)) # Size(s, p) THEN <<>>
        ELSE <<PayloadAt(s, p)>> \o from[p + 2 + Size(s, p)]
  IN from

PayloadsOf(s) ==
  IF \E j \in 0 .. Len(s) : Greets(s, j)
  THEN PayloadsFrom(s)[3 * (CHOOSE j \in 0 .. Len(s) : Greets(s, j)) + 3]
  ELSE <<>>

\* Who is logged in with the k-th payload: the first wsid offered up to there.
Offer(payload) == IF Len(payload) >= 2 THEN payload[2] ELSE Nobody
IsLogin(payloads, k, who) ==
  \/ who = Nobody /\ \A i \in 1 .. k : Offer(payloads[i]) = Nobody
  \/ who # Nobody /\ \E j \in 1 .. k :
       /\ Offer(payloads[j]) = who
       /\ \A i \in 1 .. j - 1 : Offer(payloads[i]) = Nobody
\* The wsid the k-th payload is delivered under.
IsUnder(payloads, k, w) ==
  IsLogin(payloads, k, w) \/ (w = NoWsid /\ IsLogin(payloads, k, Nobody))
=============================================================================
