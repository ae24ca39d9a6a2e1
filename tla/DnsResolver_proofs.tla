------------------------- MODULE DnsResolver_proofs -------------------------
(* Proofs about DnsResolver, for any number of lookups.                    *)
EXTENDS DnsResolver, TLAPS

-----------------------------------------------------------------------------
(* Sequences.                                                              *)

LEMMA AppendIs ==
  ASSUME NEW S, NEW s \in Seq(S), NEW e \in S
  PROVE  /\ Append(s, e) \in Seq(S)
         /\ Len(Append(s, e)) = Len(s) + 1
         /\ \A i \in 1 .. Len(s) : Append(s, e)[i] = s[i]
         /\ Append(s, e)[Len(s) + 1] = e
  OBVIOUS

LEMMA FunctionIsSeq ==
  ASSUME NEW S, NEW n \in Nat, NEW t \in [1 .. n -> S]
  PROVE  t \in Seq(S) /\ Len(t) = n
  OBVIOUS

\* Deleting the head of a list.
LEMMA RemoveHead ==
  ASSUME NEW S, NEW s \in Seq(S), s # <<>>
  PROVE  /\ RemoveAt(s, 1) \in Seq(S)
         /\ Len(RemoveAt(s, 1)) = Len(s) - 1
         /\ \A i \in 1 .. Len(s) - 1 : RemoveAt(s, 1)[i] = s[i + 1]
<1> DEFINE front == SubSeq(s, 1, 0)
           rest == SubSeq(s, 2, Len(s))
<1>1. front = <<>>
  OBVIOUS
<1>2. /\ rest \in Seq(S)
      /\ Len(rest) = Len(s) - 1
      /\ \A i \in 1 .. Len(s) - 1 : rest[i] = s[i + 1]
  <2>1. Len(s) \in Nat /\ Len(s) >= 1
    OBVIOUS
  <2>2. \A i \in 1 .. Len(s) - 1 : s[i + 1] \in S
    BY <2>1
  <2>3. rest = [i \in 1 .. Len(s) - 1 |-> s[i + 1]]
    BY <2>1
  <2> HIDE DEF rest
  <2>4. rest \in Seq(S) /\ Len(rest) = Len(s) - 1
    BY <2>1, <2>2, <2>3, FunctionIsSeq, Len(s) - 1 \in Nat
  <2>5. QED BY <2>3, <2>4
<1>3. RemoveAt(s, 1) = front \o rest
  BY DEF RemoveAt
<1> HIDE DEF front, rest
<1>4. RemoveAt(s, 1) = rest
  BY <1>1, <1>2, <1>3
<1>5. QED BY <1>2, <1>4

-----------------------------------------------------------------------------
(* The inductive invariant.                                                *)

\* The lock is held where the code says so, by one thread.
LockInv ==
  /\ core \in {"append", "startRelease", "poll", "pollRelease"} <=> dnsResolverLock = "core"
  /\ resolver \in {"find", "getaddrinfo", "finish", "store", "release"}
       <=> dnsResolverLock = "resolver"

\* What was accepted and is not in the list yet, what was taken from it and not
\* answered yet, and where the list begins.
InFlight == IF core \in {"startAcquire", "append"} THEN 1 ELSE 0
Taken == IF core \in {"pollRelease", "answer"} /\ elem # NoEntry THEN 1 ELSE 0
Base == Len(answers) + Taken

\* The core has an entry from the poll until its callback is done.
HandInv ==
  /\ core = "answer" => elem # NoEntry
  /\ core \in {"loop", "pollAcquire", "poll"} => elem = NoEntry
  /\ core \in {"startAcquire", "append", "startRelease"} /\ caller = "loop" => elem = NoEntry

\* Lookups stand in the list in the order they were started.
OrderInv ==
  /\ Base + Len(resolvers) + InFlight = started
  /\ Taken = 1 => elem.lookup = Base
  /\ \A i \in 1 .. Len(resolvers) : resolvers[i].lookup = Base + i

\* The lookups that getaddrinfo was asked about and that are marked so.
Marked == IF resolver = "finish" THEN Len(verdicts) - 1 ELSE Len(verdicts)

\* Those marked are the first of the list, and hold what getaddrinfo said, but for
\* the one the resolver is about to store.
VerdictInv ==
  /\ Base <= Marked
  /\ Len(verdicts) <= Base + Len(resolvers)
  /\ resolver = "getaddrinfo" => entry = Len(verdicts) + 1 /\ entry <= Base + Len(resolvers)
  /\ resolver \in {"finish", "store"} => entry = Len(verdicts) /\ entry > Base
  /\ \A i \in 1 .. Len(resolvers) :
       /\ resolvers[i].finished <=> Base + i <= Marked
       /\ Base + i <= Marked /\ ~ (resolver = "store" /\ entry = Base + i)
            => resolvers[i].result_ip = verdicts[Base + i]
  /\ Taken = 1 => elem.result_ip = verdicts[Base]

IInv == TypeOK /\ LockInv /\ HandInv /\ OrderInv /\ VerdictInv

-----------------------------------------------------------------------------
(* The steps.                                                              *)

\* The entry the poll finds is the head of the list: those marked come first.
LEMMA PollFindsHead ==
  ASSUME IInv, NEW i \in DOMAIN resolvers, IsFirst(i, TRUE)
  PROVE  i = 1 /\ resolvers # <<>>
<1>1. i \in 1 .. Len(resolvers) /\ Len(resolvers) \in Nat
  BY DEF IInv, TypeOK
<1>2. Base + i <= Marked
  BY <1>1 DEF IInv, VerdictInv, IsFirst
<1>3. Base \in Nat /\ Marked \in Int
  BY DEF IInv, TypeOK, Base, Taken, Marked
<1>4. ASSUME i # 1 PROVE FALSE
  <2>1. 1 \in 1 .. Len(resolvers) /\ 1 \in 1 .. i - 1
    BY <1>1, <1>4
  <2>2. resolvers[1].finished
    BY <1>2, <1>3, <2>1, <1>1 DEF IInv, VerdictInv
  <2>3. QED BY <2>1, <2>2 DEF IsFirst
<1>5. QED BY <1>1, <1>4

\* The entry the resolver finds is the first one getaddrinfo was not asked about.
LEMMA FindIsNext ==
  ASSUME IInv, resolver = "find", NEW i \in DOMAIN resolvers, IsFirst(i, FALSE)
  PROVE  /\ i \in 1 .. Len(resolvers)
         /\ resolvers[i].lookup = Base + i
         /\ Base + i = Len(verdicts) + 1
<1>1. i \in 1 .. Len(resolvers) /\ Len(resolvers) \in Nat /\ Len(verdicts) \in Nat
  BY DEF IInv, TypeOK
<1>2. Base \in Nat /\ Marked = Len(verdicts)
  BY <1>1 DEF IInv, TypeOK, Base, Taken, Marked
<1>3. Base <= Len(verdicts) /\ ~ (Base + i <= Len(verdicts))
  BY <1>1, <1>2 DEF IInv, VerdictInv, IsFirst
<1>4. CASE i = 1
  BY <1>1, <1>2, <1>3, <1>4 DEF IInv, OrderInv
<1>5. CASE i # 1
  <2>1. i - 1 \in 1 .. Len(resolvers) /\ i - 1 \in 1 .. i - 1
    BY <1>1, <1>5
  <2>2. resolvers[i - 1].finished # FALSE
    BY <2>1 DEF IsFirst
  <2>3. Base + (i - 1) <= Len(verdicts)
    <3>1. resolvers[i - 1] \in Entry
      BY <2>1 DEF IInv, TypeOK
    <3>2. resolvers[i - 1].finished \in BOOLEAN
      BY <3>1 DEF Entry
    <3>3. resolvers[i - 1].finished = TRUE
      BY <2>2, <3>2
    <3>4. QED BY <1>2, <2>1, <3>3 DEF IInv, VerdictInv
  <2>4. QED BY <1>1, <1>2, <1>3, <2>3 DEF IInv, OrderInv
<1>6. QED BY <1>4, <1>5

LEMMA TypeStep == IInv /\ [Next]_vars => TypeOK'
<1> SUFFICES ASSUME IInv, [Next]_vars
             PROVE  TypeOK'
  OBVIOUS
<1> USE ConstantsAssumption
    DEF IInv, TypeOK, coreVars, resolverVars, history, CorePcs, ResolverPcs, Acquire, Release
<1>1. CASE StartCall \/ StartAcquire \/ StartRelease \/ PollBegin \/ PollAcquire
           \/ PollRelease \/ AnswerDone
  BY <1>1 DEF StartCall, StartAcquire, StartRelease, PollBegin, PollAcquire, PollRelease, AnswerDone
<1>2. CASE StartAppend
  <2>1. [lookup |-> started, finished |-> FALSE, result_ip |-> "null"] \in Entry
    BY <1>2 DEF StartAppend, OrderInv, InFlight, Base, Taken, Entry, Result
  <2>2. resolvers' \in Seq(Entry)
    BY <1>2, <2>1, AppendIs DEF StartAppend
  <2>3. QED BY <1>2, <2>2 DEF StartAppend
<1>3. CASE Poll
  <2>1. CASE \E i \in DOMAIN resolvers : IsFirst(i, TRUE) /\ elem' = resolvers[i]
                                         /\ resolvers' = RemoveAt(resolvers, i)
    <3>1. elem' = resolvers[1] /\ resolvers' = RemoveAt(resolvers, 1) /\ resolvers # <<>>
      BY <2>1, PollFindsHead
    <3>2. resolvers' \in Seq(Entry)
      BY <3>1, RemoveHead
    <3>3. elem' \in Entry
      BY <3>1
    <3>4. QED BY <1>3, <3>2, <3>3 DEF Poll
  <2>2. QED BY <1>3, <2>1 DEF Poll
<1>4. CASE Answer
  <2>1. <<elem.lookup, elem.result_ip>> \in (1 .. MaxLookups) \X Result
    BY <1>4 DEF Answer, HandInv, Entry
  <2>2. QED BY <1>4, <2>1, AppendIs DEF Answer
<1>5. CASE Wake \/ ResolverAcquire \/ ResolverRelease
  BY <1>5 DEF Wake, ResolverAcquire, ResolverRelease
<1>6. CASE Find
  <2>1. CASE \E i \in DOMAIN resolvers :
               IsFirst(i, FALSE) /\ entry' = resolvers[i].lookup /\ resolver' = "getaddrinfo"
    <3>1. PICK i \in DOMAIN resolvers : entry' = resolvers[i].lookup /\ resolver' = "getaddrinfo"
      BY <2>1
    <3>2. resolvers[i] \in Entry
      OBVIOUS
    <3>3. entry' \in 1 .. MaxLookups
      BY <3>1, <3>2 DEF Entry
    <3>4. QED BY <1>6, <3>1, <3>3 DEF Find
  <2>2. QED BY <1>6, <2>1 DEF Find
<1>7. CASE GetAddrInfo
  BY <1>7 DEF GetAddrInfo
<1>8. CASE Finish \/ Store
  <2> DEFINE n == Len(resolvers)
  <2>1. n \in Nat /\ DOMAIN resolvers = 1 .. n /\ \A i \in 1 .. n : resolvers[i] \in Entry
    OBVIOUS
  <2>2. CASE Finish
    <3>1. \A i \in 1 .. n :
            [resolvers[i] EXCEPT !.finished = @ \/ resolvers[i].lookup = entry] \in Entry
      BY <2>1 DEF Entry
    <3>2. resolvers' \in Seq(Entry)
      BY <2>1, <2>2, <3>1, FunctionIsSeq DEF Finish
    <3>3. QED BY <2>2, <3>2 DEF Finish
  <2>3. CASE Store
    <3>1. verdicts # <<>>
      BY <2>3 DEF Store, VerdictInv, Base, Taken
    <3>2. verdicts[Len(verdicts)] \in Result
      BY <3>1
    <3>3. \A i \in 1 .. n :
            [resolvers[i] EXCEPT !.result_ip =
               IF resolvers[i].lookup = entry THEN verdicts[Len(verdicts)] ELSE @] \in Entry
      BY <2>1, <3>2 DEF Entry
    <3>4. resolvers' \in Seq(Entry)
      BY <2>1, <2>3, <3>3, FunctionIsSeq DEF Store
    <3>5. QED BY <2>3, <3>4 DEF Store
  <2>4. QED BY <1>8, <2>2, <2>3
<1>9. CASE UNCHANGED vars
  BY <1>9 DEF vars
<1>10. QED BY <1>1, <1>2, <1>3, <1>4, <1>5, <1>6, <1>7, <1>8, <1>9 DEF Next, Core, Resolver
LEMMA LockStep == IInv /\ [Next]_vars => LockInv' /\ HandInv'
<1> SUFFICES ASSUME IInv, [Next]_vars
             PROVE  LockInv' /\ HandInv'
  OBVIOUS
<1> USE DEF IInv, TypeOK, LockInv, HandInv, CorePcs, ResolverPcs, coreVars, resolverVars,
            Acquire, Release
<1>1. CASE StartCall \/ StartAcquire \/ StartAppend \/ StartRelease
  BY <1>1 DEF StartCall, StartAcquire, StartAppend, StartRelease
<1>2. CASE PollBegin \/ PollAcquire \/ PollRelease \/ Answer \/ AnswerDone
  BY <1>2 DEF PollBegin, PollAcquire, PollRelease, Answer, AnswerDone
<1>3. CASE Poll
  BY <1>3 DEF Poll
<1>4. CASE Wake \/ ResolverAcquire \/ ResolverRelease \/ GetAddrInfo \/ Finish \/ Store
  BY <1>4 DEF Wake, ResolverAcquire, ResolverRelease, GetAddrInfo, Finish, Store
<1>5. CASE Find
  BY <1>5 DEF Find
<1>6. CASE UNCHANGED vars
  BY <1>6 DEF vars
<1>7. QED BY <1>1, <1>2, <1>3, <1>4, <1>5, <1>6 DEF Next, Core, Resolver

\* The poll: what is taken is the lookup the core must be told of next.
LEMMA PollOrder == IInv /\ Poll => OrderInv' /\ VerdictInv'
<1> SUFFICES ASSUME IInv, Poll
             PROVE  OrderInv' /\ VerdictInv'
  OBVIOUS
<1>1. /\ core = "poll" /\ core' = "pollRelease" /\ Taken = 0 /\ InFlight = 0 /\ InFlight' = 0
      /\ UNCHANGED <<answers, verdicts, started, resolver, entry>>
      /\ Marked = Len(verdicts) /\ Marked' = Len(verdicts)
      /\ resolver \in {"sleep", "acquire"}
      /\ elem = NoEntry
  BY DEF Poll, IInv, LockInv, HandInv, Taken, InFlight, Marked, history, resolverVars, TypeOK, ResolverPcs
<1>2. /\ Len(answers) \in Nat /\ Len(verdicts) \in Nat /\ Base = Len(answers)
      /\ Len(resolvers) \in Nat
  BY <1>1 DEF IInv, TypeOK, Base
<1>3. CASE UNCHANGED <<elem, resolvers>>
  <2>1. Taken' = 0 /\ Base' = Base
    BY <1>1, <1>2, <1>3 DEF Taken, Base
  <2>2. QED BY <1>1, <1>3, <2>1 DEF IInv, OrderInv, VerdictInv
<1>4. CASE \E i \in DOMAIN resolvers : /\ IsFirst(i, TRUE)
                                       /\ elem' = resolvers[i]
                                       /\ resolvers' = RemoveAt(resolvers, i)
  <2>1. elem' = resolvers[1] /\ resolvers' = RemoveAt(resolvers, 1) /\ resolvers # <<>>
    BY <1>4, PollFindsHead
  <2>2. resolvers[1].finished
    BY <1>4, PollFindsHead DEF IsFirst
  <2>3. /\ Len(resolvers) >= 1 /\ Len(resolvers') = Len(resolvers) - 1
        /\ \A i \in 1 .. Len(resolvers') : resolvers'[i] = resolvers[i + 1]
    <3>1. resolvers \in Seq(Entry)
      BY DEF IInv, TypeOK
    <3>2. Len(resolvers) >= 1
      BY <2>1, <3>1
    <3>3. /\ Len(RemoveAt(resolvers, 1)) = Len(resolvers) - 1
          /\ \A i \in 1 .. Len(resolvers) - 1 : RemoveAt(resolvers, 1)[i] = resolvers[i + 1]
      BY <2>1, <3>1, RemoveHead
    <3>4. QED BY <2>1, <3>2, <3>3
  <2>4. elem'.lookup = Base + 1
    BY <2>1, <2>3, <1>2 DEF IInv, OrderInv
  <2>5. Taken' = 1 /\ Base' = Base + 1
    BY <1>1, <1>2, <2>4 DEF Taken, Base, NoEntry
  <2>6. Base + 1 <= Marked /\ elem'.result_ip = verdicts[Base + 1]
    BY <1>1, <1>2, <2>1, <2>2, <2>3 DEF IInv, VerdictInv
  <2>7. OrderInv'
    <3>1. \A i \in 1 .. Len(resolvers') : resolvers'[i].lookup = Base' + i
      <4>1. TAKE i \in 1 .. Len(resolvers')
      <4>2. i + 1 \in 1 .. Len(resolvers) /\ resolvers'[i] = resolvers[i + 1]
        BY <1>2, <2>3
      <4>3. resolvers[i + 1].lookup = Base + (i + 1)
        BY <4>2 DEF IInv, OrderInv
      <4>4. QED BY <1>2, <2>3, <2>5, <4>2, <4>3
    <3>2. Base' + Len(resolvers') + InFlight' = started'
      BY <1>1, <1>2, <2>3, <2>5 DEF IInv, OrderInv
    <3>3. QED BY <2>4, <2>5, <3>1, <3>2 DEF OrderInv
  <2>8. VerdictInv'
    <3>1. \A i \in 1 .. Len(resolvers') :
            /\ resolvers'[i].finished <=> Base' + i <= Marked'
            /\ Base' + i <= Marked' => resolvers'[i].result_ip = verdicts'[Base' + i]
      <4>1. TAKE i \in 1 .. Len(resolvers')
      <4>2. i + 1 \in 1 .. Len(resolvers) /\ resolvers'[i] = resolvers[i + 1]
        BY <1>2, <2>3
      <4>3. Base + (i + 1) = Base' + i
        BY <1>2, <2>3, <2>5
      <4>4. /\ resolvers[i + 1].finished <=> Base + (i + 1) <= Marked
            /\ Base + (i + 1) <= Marked => resolvers[i + 1].result_ip = verdicts[Base + (i + 1)]
        BY <1>1, <4>2 DEF IInv, VerdictInv
      <4>5. QED BY <1>1, <4>2, <4>3, <4>4
    <3>2. Base' <= Marked' /\ Len(verdicts') <= Base' + Len(resolvers')
      BY <1>1, <1>2, <2>3, <2>5, <2>6 DEF IInv, VerdictInv
    <3>3. QED BY <1>1, <2>5, <2>6, <3>1, <3>2 DEF VerdictInv
  <2>9. QED BY <2>7, <2>8
<1>5. QED BY <1>3, <1>4 DEF Poll

\* Steps that leave the list and the history alone.
LEMMA QuietOrder ==
  ASSUME IInv,
         StartAcquire \/ StartRelease \/ PollBegin \/ PollAcquire \/ PollRelease \/ AnswerDone
           \/ Wake \/ ResolverAcquire \/ Find \/ ResolverRelease \/ UNCHANGED vars
  PROVE  OrderInv' /\ VerdictInv'
<1>1. UNCHANGED <<resolvers, history>>
  BY DEF StartAcquire, StartRelease, PollBegin, PollAcquire, PollRelease, AnswerDone,
         Wake, ResolverAcquire, Find, ResolverRelease, vars
<1>2. Taken' = Taken /\ (Taken = 1 => elem' = elem)
  <2>1. CASE UNCHANGED coreVars
    BY <2>1 DEF coreVars, Taken
  <2>2. CASE StartAcquire \/ StartRelease \/ PollBegin \/ PollAcquire \/ AnswerDone
    <3>1. core \notin {"pollRelease", "answer"} /\ core' \notin {"pollRelease", "answer"}
      BY <2>2 DEF StartAcquire, StartRelease, PollBegin, PollAcquire, AnswerDone, IInv, TypeOK
    <3>2. QED BY <3>1 DEF Taken
  <2>3. CASE PollRelease
    BY <2>3 DEF PollRelease, Taken
  <2>4. QED BY <2>1, <2>2, <2>3 DEF Wake, ResolverAcquire, Find, ResolverRelease, vars
<1>3. InFlight' = InFlight
  BY DEF StartAcquire, StartRelease, PollBegin, PollAcquire, PollRelease, AnswerDone,
         Wake, ResolverAcquire, Find, ResolverRelease, vars, coreVars, InFlight, IInv, TypeOK
<1>4. Base' = Base /\ Base \in Nat /\ Len(verdicts) \in Nat
  BY <1>1, <1>2 DEF Base, history, IInv, TypeOK, Taken
<1>5. OrderInv'
  BY <1>1, <1>2, <1>3, <1>4 DEF OrderInv, history, IInv
<1>6. CASE Find /\ resolver' = "getaddrinfo"
  <2>1. PICK i \in DOMAIN resolvers : IsFirst(i, FALSE) /\ entry' = resolvers[i].lookup
    BY <1>6 DEF Find
  <2>2. entry' = Len(verdicts) + 1 /\ entry' <= Base + Len(resolvers)
    <3>1. /\ i \in 1 .. Len(resolvers) /\ resolvers[i].lookup = Base + i
          /\ Base + i = Len(verdicts) + 1
      BY <1>6, <2>1, FindIsNext DEF Find
    <3>2. QED BY <1>4, <2>1, <3>1
  <2>3. Marked' = Marked
    BY <1>1, <1>6 DEF Marked, Find, history
  <2>4. QED BY <1>1, <1>2, <1>4, <1>5, <1>6, <2>2, <2>3 DEF VerdictInv, Find, history, IInv
<1>7. CASE ~ (Find /\ resolver' = "getaddrinfo")
  <2>1. /\ Marked' = Marked
        /\ resolver \in {"finish", "getaddrinfo", "store"} => UNCHANGED <<resolver, entry>>
        /\ resolver' \in {"finish", "getaddrinfo", "store"} => UNCHANGED <<resolver, entry>>
    BY <1>1, <1>7 DEF StartAcquire, StartRelease, PollBegin, PollAcquire, PollRelease, AnswerDone,
           Wake, ResolverAcquire, Find, ResolverRelease, vars, resolverVars, history, Marked
  <2>2. QED BY <1>1, <1>2, <1>4, <1>5, <2>1 DEF VerdictInv, history, IInv
<1>8. QED BY <1>5, <1>6, <1>7

LEMMA StartOrder == IInv /\ (StartCall \/ StartAppend \/ Answer) => OrderInv' /\ VerdictInv'
<1> SUFFICES ASSUME IInv, StartCall \/ StartAppend \/ Answer
             PROVE  OrderInv' /\ VerdictInv'
  OBVIOUS
<1>1. /\ Len(answers) \in Nat /\ Len(verdicts) \in Nat /\ Len(resolvers) \in Nat
      /\ started \in Nat /\ UNCHANGED <<resolver, entry, verdicts>> /\ Marked' = Marked
      /\ Marked \in Int
  BY DEF IInv, TypeOK, StartCall, StartAppend, Answer, resolverVars, history, Marked
<1>2. CASE StartCall
  <2>1. /\ Taken = 0 /\ Taken' = 0 /\ InFlight = 0 /\ InFlight' = 1 /\ Base' = Base
        /\ UNCHANGED resolvers /\ started' = started + 1
    BY <1>2 DEF StartCall, Taken, InFlight, Base
  <2>2. Base \in Nat
    BY <1>1, <2>1 DEF Base
  <2>3. OrderInv'
    <3>1. /\ Base + Len(resolvers) + InFlight = started
          /\ \A i \in 1 .. Len(resolvers) : resolvers[i].lookup = Base + i
      BY DEF IInv, OrderInv
    <3>2. Base' + Len(resolvers') + InFlight' = started'
      <4>1. Len(resolvers') = Len(resolvers) /\ Len(resolvers) \in Nat
        BY <1>1, <2>1
      <4>2. Base' = Base /\ InFlight' = 1 /\ InFlight = 0 /\ started' = started + 1
        BY <2>1
      <4>3. QED BY <2>2, <3>1, <4>1, <4>2
    <3>3. QED BY <2>1, <3>1, <3>2 DEF OrderInv
  <2>4. VerdictInv'
    BY <1>1, <2>1, <2>2 DEF IInv, VerdictInv
  <2>5. QED BY <2>3, <2>4
<1>3. CASE StartAppend
  <2> DEFINE new == [lookup |-> started, finished |-> FALSE, result_ip |-> "null"]
  <2>1. /\ Taken = 0 /\ Taken' = 0 /\ InFlight = 1 /\ InFlight' = 0 /\ Base' = Base
        /\ Base = Len(answers) /\ UNCHANGED started
    BY <1>1, <1>3 DEF StartAppend, Taken, InFlight, Base, history
  <2>2. new \in Entry
    BY <1>1, <2>1, ConstantsAssumption DEF IInv, TypeOK, OrderInv, Entry, Result
  <2>3. /\ Len(resolvers') = Len(resolvers) + 1
        /\ \A i \in 1 .. Len(resolvers) : resolvers'[i] = resolvers[i]
        /\ resolvers'[Len(resolvers) + 1] = new
    BY <1>3, <2>2, AppendIs DEF StartAppend, IInv, TypeOK
  <2>4. started = Base + Len(resolvers) + 1
    BY <1>1, <2>1 DEF IInv, OrderInv
  <2>5. OrderInv'
    <3>1. \A i \in 1 .. Len(resolvers') : resolvers'[i].lookup = Base' + i
      <4>1. TAKE i \in 1 .. Len(resolvers')
      <4>2. CASE i = Len(resolvers) + 1
        BY <2>1, <2>3, <2>4, <4>2
      <4>3. CASE i \in 1 .. Len(resolvers)
        BY <2>1, <2>3, <4>3 DEF IInv, OrderInv
      <4>4. QED BY <1>1, <2>3, <4>2, <4>3
    <3>2. Base' + Len(resolvers') + InFlight' = started'
      BY <1>1, <2>1, <2>3, <2>4
    <3>3. QED BY <2>1, <3>1, <3>2 DEF OrderInv
  <2>6. Marked <= Base + Len(resolvers)
    BY <1>1, <2>1 DEF IInv, VerdictInv, Marked
  <2>7. VerdictInv'
    <3>1. \A i \in 1 .. Len(resolvers') :
            /\ resolvers'[i].finished <=> Base + i <= Marked
            /\ Base + i <= Marked /\ ~ (resolver = "store" /\ entry = Base + i)
                 => resolvers'[i].result_ip = verdicts[Base + i]
      <4>1. TAKE i \in 1 .. Len(resolvers')
      <4>2. CASE i = Len(resolvers) + 1
        BY <1>1, <2>1, <2>3, <2>6, <4>2
      <4>3. CASE i \in 1 .. Len(resolvers)
        BY <2>3, <4>3 DEF IInv, VerdictInv
      <4>4. QED BY <1>1, <2>3, <4>2, <4>3
    <3>2. Len(verdicts) <= Base + Len(resolvers')
      BY <1>1, <2>1, <2>3 DEF IInv, VerdictInv
    <3>3. resolver = "getaddrinfo" => entry <= Base + Len(resolvers')
      BY <1>1, <2>1, <2>3 DEF IInv, TypeOK, VerdictInv
    <3>4. QED BY <1>1, <2>1, <3>1, <3>2, <3>3 DEF IInv, VerdictInv
  <2>8. QED BY <2>5, <2>7
<1>4. CASE Answer
  <2>1. Taken = 1 /\ Taken' = 0 /\ InFlight = 0 /\ InFlight' = 0 /\ UNCHANGED <<resolvers, started>>
    BY <1>4 DEF Answer, Taken, InFlight, IInv, HandInv
  <2>2. Len(answers') = Len(answers) + 1
    BY <1>4 DEF Answer, IInv, TypeOK
  <2>3. Base' = Base
    BY <1>1, <2>1, <2>2 DEF Base
  <2>4. QED BY <1>1, <2>1, <2>3 DEF IInv, OrderInv, VerdictInv
<1>5. QED BY <1>2, <1>3, <1>4

\* getaddrinfo and the two assignments after it.
LEMMA ResolveOrder == IInv /\ (GetAddrInfo \/ Finish \/ Store) => OrderInv' /\ VerdictInv'
<1> SUFFICES ASSUME IInv, GetAddrInfo \/ Finish \/ Store
             PROVE  OrderInv' /\ VerdictInv'
  OBVIOUS
<1>1. /\ Len(answers) \in Nat /\ Len(verdicts) \in Nat /\ Len(resolvers) \in Nat
      /\ UNCHANGED <<core, elem, entry, answers, started>>
      /\ Taken' = Taken /\ InFlight' = InFlight /\ Base' = Base /\ Base \in Nat
  BY DEF IInv, TypeOK, GetAddrInfo, Finish, Store, coreVars, history, Taken, InFlight, Base
<1>2. Len(resolvers') = Len(resolvers)
      /\ \A i \in 1 .. Len(resolvers) : resolvers'[i].lookup = resolvers[i].lookup
  <2>1. DOMAIN resolvers = 1 .. Len(resolvers) /\ \A i \in 1 .. Len(resolvers) : resolvers[i] \in Entry
    BY DEF IInv, TypeOK
  <2>2. resolvers' \in Seq(Entry)
    BY TypeStep DEF Next, Resolver, TypeOK
  <2>3. Len(resolvers') = Len(resolvers)
    <3>1. DOMAIN resolvers' = DOMAIN resolvers
      BY DEF GetAddrInfo, Finish, Store
    <3>2. QED BY <1>1, <2>1, <2>2, <3>1
  <2>4. \A i \in 1 .. Len(resolvers) : resolvers'[i].lookup = resolvers[i].lookup
    BY <2>1 DEF GetAddrInfo, Finish, Store, Entry
  <2>5. QED BY <2>3, <2>4
<1>3. OrderInv'
  BY <1>1, <1>2 DEF IInv, OrderInv
<1>4. CASE GetAddrInfo
  <2>1. PICK r \in Result : verdicts' = Append(verdicts, r)
    BY <1>4 DEF GetAddrInfo
  <2>2. /\ Len(verdicts') = Len(verdicts) + 1
        /\ \A i \in 1 .. Len(verdicts) : verdicts'[i] = verdicts[i]
    BY <2>1, AppendIs DEF IInv, TypeOK
  <2>3. /\ resolver = "getaddrinfo" /\ resolver' = "finish" /\ UNCHANGED resolvers
        /\ Marked = Len(verdicts) /\ Marked' = Len(verdicts)
    BY <1>1, <1>4, <2>2 DEF GetAddrInfo, Marked
  <2>4. entry = Len(verdicts) + 1 /\ entry <= Base + Len(resolvers) /\ Base <= Len(verdicts)
    BY <2>3 DEF IInv, VerdictInv
  <2>5. Taken = 1 => Base \in 1 .. Len(verdicts)
    BY <1>1, <2>4 DEF Base
  <2>6. \A i \in 1 .. Len(resolvers) : Base + i <= Len(verdicts) => Base + i \in 1 .. Len(verdicts)
    BY <1>1
  <2>7. QED BY <1>1, <1>2, <1>3, <2>2, <2>3, <2>4, <2>5, <2>6 DEF IInv, VerdictInv
<1>5. CASE Finish
  <2>1. /\ resolver = "finish" /\ resolver' = "store" /\ UNCHANGED verdicts
        /\ Marked = Len(verdicts) - 1 /\ Marked' = Len(verdicts) /\ entry = Len(verdicts)
    BY <1>5 DEF Finish, Marked, history, IInv, VerdictInv
  <2>2. \A i \in 1 .. Len(resolvers) :
          /\ resolvers'[i].finished <=> resolvers[i].finished \/ resolvers[i].lookup = entry
          /\ resolvers'[i].result_ip = resolvers[i].result_ip
    <3>1. TAKE i \in 1 .. Len(resolvers)
    <3>2. resolvers[i] \in Entry /\ i \in DOMAIN resolvers
      BY <3>1 DEF IInv, TypeOK
    <3>3. resolvers'[i] = [resolvers[i] EXCEPT !.finished = @ \/ resolvers[i].lookup = entry]
      BY <1>5, <3>2 DEF Finish
    <3>4. QED BY <3>2, <3>3 DEF Entry
  <2>3. \A i \in 1 .. Len(resolvers) : resolvers[i].lookup = entry <=> Base + i = Len(verdicts)
    BY <1>1, <2>1 DEF IInv, OrderInv
  <2>4. \A i \in 1 .. Len(resolvers) :
          /\ resolvers'[i].finished <=> Base + i <= Len(verdicts)
          /\ Base + i <= Len(verdicts) /\ entry # Base + i
               => resolvers'[i].result_ip = verdicts[Base + i]
    <3>1. TAKE i \in 1 .. Len(resolvers)
    <3>2. /\ resolvers[i].finished <=> Base + i <= Len(verdicts) - 1
          /\ Base + i <= Len(verdicts) - 1 => resolvers[i].result_ip = verdicts[Base + i]
      BY <2>1 DEF IInv, VerdictInv
    <3>3. resolvers'[i].finished <=> Base + i <= Len(verdicts) - 1 \/ Base + i = Len(verdicts)
      BY <2>2, <2>3, <3>2
    <3>4. QED BY <1>1, <2>1, <2>2, <3>2, <3>3
  <2>5. /\ Base <= Len(verdicts) /\ Len(verdicts) <= Base + Len(resolvers)
        /\ entry = Len(verdicts) /\ entry > Base /\ UNCHANGED <<entry, elem>>
        /\ Taken = 1 => elem.result_ip = verdicts[Base]
    BY <1>1, <2>1 DEF IInv, VerdictInv
  <2>6. VerdictInv'
    BY <1>1, <1>2, <2>1, <2>4, <2>5 DEF VerdictInv
  <2>7. QED BY <1>3, <2>6
<1>6. CASE Store
  <2>1. /\ resolver = "store" /\ resolver' = "release" /\ UNCHANGED verdicts
        /\ Marked = Len(verdicts) /\ Marked' = Len(verdicts) /\ entry = Len(verdicts)
    BY <1>6 DEF Store, Marked, history, IInv, VerdictInv
  <2>2. \A i \in 1 .. Len(resolvers) :
          /\ resolvers'[i].finished <=> resolvers[i].finished
          /\ resolvers'[i].result_ip = IF resolvers[i].lookup = entry THEN verdicts[Len(verdicts)]
                                       ELSE resolvers[i].result_ip
    <3>1. TAKE i \in 1 .. Len(resolvers)
    <3>2. resolvers[i] \in Entry /\ i \in DOMAIN resolvers
      BY <3>1 DEF IInv, TypeOK
    <3>3. resolvers'[i] = [resolvers[i] EXCEPT !.result_ip =
                             IF resolvers[i].lookup = entry THEN verdicts[Len(verdicts)] ELSE @]
      BY <1>6, <3>2 DEF Store
    <3>4. QED BY <3>2, <3>3 DEF Entry
  <2>3. \A i \in 1 .. Len(resolvers) : resolvers[i].lookup = entry <=> Base + i = Len(verdicts)
    BY <1>1, <2>1 DEF IInv, OrderInv
  <2>4. \A i \in 1 .. Len(resolvers) :
          /\ resolvers'[i].finished <=> Base + i <= Len(verdicts)
          /\ Base + i <= Len(verdicts) => resolvers'[i].result_ip = verdicts[Base + i]
    <3>1. TAKE i \in 1 .. Len(resolvers)
    <3>2. /\ resolvers[i].finished <=> Base + i <= Len(verdicts)
          /\ Base + i <= Len(verdicts) /\ entry # Base + i
               => resolvers[i].result_ip = verdicts[Base + i]
      BY <2>1 DEF IInv, VerdictInv
    <3>3. QED BY <1>1, <2>1, <2>2, <2>3, <3>2
  <2>5. /\ Base <= Len(verdicts) /\ Len(verdicts) <= Base + Len(resolvers)
        /\ UNCHANGED elem
        /\ Taken = 1 => elem.result_ip = verdicts[Base]
    BY <1>1, <2>1 DEF IInv, VerdictInv
  <2>6. VerdictInv'
    BY <1>1, <1>2, <2>1, <2>4, <2>5 DEF VerdictInv
  <2>7. QED BY <1>3, <2>6
<1>7. QED BY <1>4, <1>5, <1>6

LEMMA Step == IInv /\ [Next]_vars => IInv'
  BY TypeStep, LockStep, PollOrder, QuietOrder, StartOrder, ResolveOrder
     DEF IInv, Next, Core, Resolver

LEMMA Start == Init => IInv
<1> SUFFICES ASSUME Init PROVE IInv
  OBVIOUS
<1>1. TypeOK
  BY ConstantsAssumption DEF Init, TypeOK, CorePcs, ResolverPcs
<1>2. LockInv /\ HandInv /\ OrderInv /\ VerdictInv
  BY DEF Init, LockInv, HandInv, OrderInv, VerdictInv, Base, Taken, InFlight, Marked
<1>3. QED BY <1>1, <1>2 DEF IInv

-----------------------------------------------------------------------------
(* The theorems.                                                           *)

LEMMA Inductive == Spec => []IInv
  BY Start, Step, PTL DEF Spec

\* The variables of both threads and the list keep their types.
THEOREM TypeCorrect == Spec => []TypeOK
<1>1. IInv => TypeOK
  BY DEF IInv
<1>2. QED BY <1>1, Inductive, PTL

\* Neither thread waits for a lock it holds, whatever the callbacks start.
THEOREM LockFree == Spec => []NoSelfDeadlock
<1>1. IInv => NoSelfDeadlock
  BY DEF IInv, LockInv, NoSelfDeadlock
<1>2. QED BY <1>1, Inductive, PTL

\* The list, the lock and the two threads implement DnsLookups: each lookup is
\* answered once, in order, with what getaddrinfo said.
THEOREM ResolverRefinesLookups == Spec => ImplementsLookups
<1>1. Init => Lookups!Init
  BY DEF Init, Lookups!Init
<1>2. IInv /\ [Next]_vars => [Lookups!Next]_Lookups!vars
  <2> SUFFICES ASSUME IInv, [Next]_vars
               PROVE  [Lookups!Next]_Lookups!vars
    OBVIOUS
  <2>1. CASE StartCall
    BY <2>1 DEF StartCall, Lookups!Next, Lookups!Start
  <2>2. CASE GetAddrInfo
    <3>1. Len(verdicts) < started
      <4>1. /\ Base \in Nat /\ Len(resolvers) \in Nat /\ Len(verdicts) \in Nat /\ InFlight \in Nat
            /\ entry = Len(verdicts) + 1 /\ entry <= Base + Len(resolvers)
        BY <2>2 DEF GetAddrInfo, IInv, TypeOK, VerdictInv, Base, Taken, InFlight
      <4>2. started = Base + Len(resolvers) + InFlight
        BY DEF IInv, OrderInv
      <4>3. QED BY <4>1, <4>2
    <3>2. QED BY <2>2, <3>1 DEF GetAddrInfo, Lookups!Next, Lookups!Resolve
  <2>3. CASE Answer
    <3>1. Taken = 1
      BY <2>3 DEF Answer, Taken, IInv, HandInv
    <3>2. /\ elem.lookup = Len(answers) + 1 /\ elem.result_ip = verdicts[Len(answers) + 1]
          /\ Len(answers) + 1 <= Len(verdicts)
      BY <3>1 DEF IInv, TypeOK, OrderInv, VerdictInv, Base, Marked
    <3>3. QED BY <2>3, <3>2 DEF Answer, Lookups!Next, Lookups!Answer
  <2>4. CASE \/ StartAcquire \/ StartAppend \/ StartRelease \/ PollBegin \/ PollAcquire \/ Poll
             \/ PollRelease \/ AnswerDone \/ Wake \/ ResolverAcquire \/ Find \/ Finish \/ Store
             \/ ResolverRelease \/ UNCHANGED vars
    BY <2>4 DEF StartAcquire, StartAppend, StartRelease, PollBegin, PollAcquire, Poll, PollRelease,
                AnswerDone, Wake, ResolverAcquire, Find, Finish, Store, ResolverRelease,
                vars, history, Lookups!vars
  <2>5. QED BY <2>1, <2>2, <2>3, <2>4 DEF Next, Core, Resolver
<1>3. QED BY <1>1, <1>2, Inductive, PTL DEF Spec, ImplementsLookups, Lookups!Spec
=============================================================================
