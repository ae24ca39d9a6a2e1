----------------------------- MODULE DnsLookups -----------------------------
(***************************************************************************)
(* What name resolution promises the Wish core, whatever threads and locks *)
(* are behind it: a lookup that was started is resolved once, and the core *)
(* is told of each, in the order they were started, what the name service  *)
(* said of it.  Lookups are numbered from 1.                               *)
(***************************************************************************)
EXTENDS Integers, Sequences

CONSTANT Result     \* what the name service may say of a name

VARIABLES
  started,    \* lookups started so far
  verdicts,   \* what the name service said of the first, the second, ...
  answers     \* what the core was told, and of which lookup

vars == <<started, verdicts, answers>>

Init == started = 0 /\ verdicts = <<>> /\ answers = <<>>

Start == started' = started + 1 /\ UNCHANGED <<verdicts, answers>>

Resolve ==
  /\ Len(verdicts) < started
  /\ \E r \in Result : verdicts' = Append(verdicts, r)
  /\ UNCHANGED <<started, answers>>

Answer ==
  LET n == Len(answers) + 1 IN
  /\ n <= Len(verdicts)
  /\ answers' = Append(answers, <<n, verdicts[n]>>)
  /\ UNCHANGED <<started, verdicts>>

Next == Start \/ Resolve \/ Answer
Spec == Init /\ [][Next]_vars
=============================================================================
