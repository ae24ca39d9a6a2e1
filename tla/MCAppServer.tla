----------------------------- MODULE MCAppServer -----------------------------
(* AppServer with streams that meet every branch of the automaton, cut in  *)
(* every way.                                                              *)
EXTENDS AppServer

Login(w) == <<0, 2, 2, w>>
Empty == <<0, 0>>
Message == <<0, 1, 1>>
Longer == <<0, 1, 9>>       \* a document longer than its frame
Shorter == <<0, 2, 1, 7>>   \* and a shorter one
TooLong == <<0, 200, 1>>    \* more than the ring buffer holds

MCStreams ==
  { Plain \o Login(7) \o Empty \o Message,
    Plain \o Message \o Login(8) \o Login(7),
    Plain \o Login(0) \o Login(7),
    <<1, 2, 3>> \o Plain \o Login(7),
    Plain \o Longer \o Message,
    Plain \o Message \o Shorter \o Message,
    Secure \o Message,
    Plain \o TooLong \o Message }
=============================================================================
