----------------------------- MODULE DnsResolver -----------------------------
(***************************************************************************)
(* Name resolution (MistPort.m): the Wish core thread starts lookups and   *)
(* polls for finished ones in each turn of its loop; a thread of its own   *)
(* calls getaddrinfo.  They share the list resolvers under dnsResolverLock,*)
(* an NSLock: a thread that takes it twice waits for itself.               *)
(*                                                                         *)
(* The resolver sets finished before result_ip, and holds the lock through *)
(* getaddrinfo.  The core's callbacks run outside the lock and may start   *)
(* further lookups.                                                        *)
(***************************************************************************)
EXTENDS Integers, Sequences, SequencesExt

CONSTANT MaxLookups     \* bound: lookups started

ASSUME ConstantsAssumption == MaxLookups \in Nat

VARIABLES
  core,             \* where the core thread is
  caller,           \* what port_dns_start_resolving returns to
  elem,             \* the core's local: the entry it took from the list
  resolver,         \* where the resolver thread is
  entry,            \* its local elem: the lookup it works on, or 0
  dnsResolverLock,  \* who holds the lock
  resolvers,        \* the list
  started,          \* lookups port_dns_start_resolving accepted
  verdicts,         \* history: what getaddrinfo said, in the order it said it
  answers           \* history: what the core was told, and of which lookup

coreVars == <<core, caller, elem>>
resolverVars == <<resolver, entry>>
history == <<started, verdicts, answers>>
vars == <<coreVars, resolverVars, dnsResolverLock, resolvers, history>>

\* "ip" is a result_ip that is not NULL.
Result == {"ip", "null"}
Entry == [lookup : 1 .. MaxLookups, finished : BOOLEAN, result_ip : Result]
NoEntry == [lookup |-> 0, finished |-> FALSE, result_ip |-> "null"]

\* "callback" is wish_open_connection, port_relay_client_open or the report of a
\* failure, and the core behind them; "loop" the rest of ios_port_main's loop.
CorePcs == {"loop", "startAcquire", "append", "startRelease",
            "pollAcquire", "poll", "pollRelease", "answer", "callback"}
ResolverPcs == {"sleep", "acquire", "find", "getaddrinfo", "finish", "store", "release"}

TypeOK ==
  /\ core \in CorePcs
  /\ caller \in {"loop", "callback"}
  /\ elem \in Entry \cup {NoEntry}
  /\ resolver \in ResolverPcs
  /\ entry \in 0 .. MaxLookups
  /\ dnsResolverLock \in {"free", "core", "resolver"}
  /\ resolvers \in Seq(Entry)
  /\ started \in 0 .. MaxLookups
  /\ verdicts \in Seq(Result)
  /\ answers \in Seq((1 .. MaxLookups) \X Result)

\* launchWish makes the lock before it starts the two threads.
Init ==
  /\ core = "loop" /\ caller = "loop" /\ elem = NoEntry
  /\ resolver = "sleep" /\ entry = 0
  /\ dnsResolverLock = "free"
  /\ resolvers = <<>>
  /\ started = 0 /\ verdicts = <<>> /\ answers = <<>>

Acquire(who) == dnsResolverLock = "free" /\ dnsResolverLock' = who
Release == dnsResolverLock' = "free"

-----------------------------------------------------------------------------
(* The core thread: port_dns_start_resolving.                              *)

\* A lookup without memory is refused and leaves no trace here.
StartCall ==
  /\ core \in {"loop", "callback"}
  /\ started < MaxLookups
  /\ started' = started + 1
  /\ caller' = core
  /\ core' = "startAcquire"
  /\ UNCHANGED <<elem, resolverVars, dnsResolverLock, resolvers, verdicts, answers>>

StartAcquire ==
  /\ core = "startAcquire"
  /\ Acquire("core")
  /\ core' = "append"
  /\ UNCHANGED <<caller, elem, resolverVars, resolvers, history>>

\* Mutant: the new entry is not cleared.
StartAppendUncleared ==
  /\ core = "append"
  /\ \E f \in {TRUE, FALSE}, r \in {"ip", "null", "wild"} :
       resolvers' = Append(resolvers, [lookup |-> started, finished |-> f, result_ip |-> r])
  /\ core' = "startRelease"
  /\ UNCHANGED <<caller, elem, resolverVars, dnsResolverLock, history>>

StartAppend ==
  /\ core = "append"
  /\ resolvers' = Append(resolvers, [lookup |-> started, finished |-> FALSE, result_ip |-> "null"])
  /\ core' = "startRelease"
  /\ UNCHANGED <<caller, elem, resolverVars, dnsResolverLock, history>>

StartRelease ==
  /\ core = "startRelease"
  /\ Release
  /\ core' = caller
  /\ UNCHANGED <<caller, elem, resolverVars, resolvers, history>>

-----------------------------------------------------------------------------
(* The core thread: port_dns_poll_resolvers.                               *)

PollBegin ==
  /\ core = "loop"
  /\ core' = "pollAcquire"
  /\ UNCHANGED <<caller, elem, resolverVars, dnsResolverLock, resolvers, history>>

\* Mutant: the flags are read without the lock.
PollAcquireNot ==
  /\ core = "pollAcquire"
  /\ core' = "poll"
  /\ UNCHANGED <<caller, elem, resolverVars, dnsResolverLock, resolvers, history>>

PollAcquire ==
  /\ core = "pollAcquire"
  /\ Acquire("core")
  /\ core' = "poll"
  /\ UNCHANGED <<caller, elem, resolverVars, resolvers, history>>

\* The first entry of the list that is finished, or not.
IsFirst(i, finished) ==
  /\ resolvers[i].finished = finished
  /\ \A j \in 1 .. i - 1 : resolvers[j].finished # finished
NoneIs(finished) == \A i \in DOMAIN resolvers : resolvers[i].finished # finished

\* Mutant: the entry is deleted, but found stays false.
PollForgets ==
  /\ core = "poll"
  /\ \/ \E i \in DOMAIN resolvers :
          IsFirst(i, TRUE) /\ resolvers' = RemoveAt(resolvers, i)
     \/ NoneIs(TRUE) /\ UNCHANGED resolvers
  /\ core' = "pollRelease"
  /\ UNCHANGED <<caller, elem, resolverVars, dnsResolverLock, history>>

Poll ==
  /\ core = "poll"
  /\ \/ \E i \in DOMAIN resolvers :
          /\ IsFirst(i, TRUE)
          /\ elem' = resolvers[i]
          /\ resolvers' = RemoveAt(resolvers, i)
     \/ NoneIs(TRUE) /\ UNCHANGED <<elem, resolvers>>
  /\ core' = "pollRelease"
  /\ UNCHANGED <<caller, resolverVars, dnsResolverLock, history>>

\* Mutant: the lock is kept through the callback.
PollReleaseLate ==
  /\ core = "pollRelease"
  /\ IF elem = NoEntry THEN Release ELSE UNCHANGED dnsResolverLock
  /\ core' = IF elem = NoEntry THEN "loop" ELSE "answer"
  /\ UNCHANGED <<caller, elem, resolverVars, resolvers, history>>

PollRelease ==
  /\ core = "pollRelease"
  /\ Release
  /\ core' = IF elem = NoEntry THEN "loop" ELSE "answer"
  /\ UNCHANGED <<caller, elem, resolverVars, resolvers, history>>

Answer ==
  /\ core = "answer"
  /\ answers' = Append(answers, <<elem.lookup, elem.result_ip>>)
  /\ core' = "callback"
  /\ UNCHANGED <<caller, elem, resolverVars, dnsResolverLock, resolvers, started, verdicts>>

\* The callback returns, the entry is freed.
AnswerDone ==
  /\ core = "callback"
  /\ elem' = NoEntry
  /\ core' = "loop"
  /\ UNCHANGED <<caller, resolverVars, dnsResolverLock, resolvers, history>>

-----------------------------------------------------------------------------
(* The resolver thread: resolverLooper.                                    *)

Wake ==
  /\ resolver = "sleep"
  /\ resolver' = "acquire"
  /\ UNCHANGED <<coreVars, entry, dnsResolverLock, resolvers, history>>

ResolverAcquire ==
  /\ resolver = "acquire"
  /\ Acquire("resolver")
  /\ resolver' = "find"
  /\ UNCHANGED <<coreVars, entry, resolvers, history>>

\* Mutant: the resolver looks again and again until there is a lookup.
FindSpins ==
  /\ resolver = "find"
  /\ \/ \E i \in DOMAIN resolvers :
          IsFirst(i, FALSE) /\ entry' = resolvers[i].lookup /\ resolver' = "getaddrinfo"
     \/ NoneIs(FALSE) /\ UNCHANGED resolverVars
  /\ UNCHANGED <<coreVars, dnsResolverLock, resolvers, history>>

Find ==
  /\ resolver = "find"
  /\ \/ \E i \in DOMAIN resolvers :
          IsFirst(i, FALSE) /\ entry' = resolvers[i].lookup /\ resolver' = "getaddrinfo"
     \/ NoneIs(FALSE) /\ resolver' = "release" /\ UNCHANGED entry
  /\ UNCHANGED <<coreVars, dnsResolverLock, resolvers, history>>

\* getaddrinfo returns, with an address or without.
GetAddrInfo ==
  /\ resolver = "getaddrinfo"
  /\ \E r \in Result : verdicts' = Append(verdicts, r)
  /\ resolver' = "finish"
  /\ UNCHANGED <<coreVars, entry, dnsResolverLock, resolvers, started, answers>>

\* elem->finished = true, if the entry is still in the list
Finish ==
  /\ resolver = "finish"
  /\ resolvers' = [i \in DOMAIN resolvers |->
       [resolvers[i] EXCEPT !.finished = @ \/ resolvers[i].lookup = entry]]
  /\ resolver' = "store"
  /\ UNCHANGED <<coreVars, entry, dnsResolverLock, history>>

\* elem->result_ip = ip, or NULL
Store ==
  /\ resolver = "store"
  /\ resolvers' = [i \in DOMAIN resolvers |->
       [resolvers[i] EXCEPT !.result_ip =
          IF resolvers[i].lookup = entry THEN verdicts[Len(verdicts)] ELSE @]]
  /\ resolver' = "release"
  /\ UNCHANGED <<coreVars, entry, dnsResolverLock, history>>

ResolverRelease ==
  /\ resolver = "release"
  /\ Release
  /\ entry' = 0
  /\ resolver' = "sleep"
  /\ UNCHANGED <<coreVars, resolvers, history>>

-----------------------------------------------------------------------------
Core ==
  \/ StartCall \/ StartAcquire \/ StartAppend \/ StartRelease
  \/ PollBegin \/ PollAcquire \/ Poll \/ PollRelease \/ Answer \/ AnswerDone

Resolver ==
  \/ Wake \/ ResolverAcquire \/ Find \/ GetAddrInfo \/ Finish \/ Store \/ ResolverRelease

Next == Core \/ Resolver
Spec == Init /\ [][Next]_vars

\* Both threads run, getaddrinfo returns, and callbacks end.  The resolver sleeps
\* 0.1 s and the core spends up to 0.1 s in select() without the lock, so who
\* waits for it gets it in the end (strong fairness).
Fairness ==
  /\ WF_vars(StartAppend \/ StartRelease \/ PollBegin \/ Poll \/ PollRelease
              \/ Answer \/ AnswerDone)
  /\ SF_vars(StartAcquire \/ PollAcquire)
  /\ WF_vars(Wake \/ Find \/ GetAddrInfo \/ Finish \/ Store \/ ResolverRelease)
  /\ SF_vars(ResolverAcquire)
FairSpec == Spec /\ Fairness

-----------------------------------------------------------------------------
(* Properties.                                                             *)

\* The list, the lock and the two threads keep the promise of DnsLookups: each
\* lookup accepted is resolved once, and the core is told once, in order, and
\* what getaddrinfo said: never NULL because result_ip was not stored yet.
Lookups == INSTANCE DnsLookups
ImplementsLookups == Lookups!Spec

\* A thread never waits for a lock it holds: the callbacks that start a lookup run
\* after the poll has let go of the lock.
NoSelfDeadlock ==
  /\ core \in {"startAcquire", "pollAcquire"} => dnsResolverLock # "core"
  /\ resolver = "acquire" => dnsResolverLock # "resolver"

\* Every lookup is answered in the end.
LookupsAnswered == \A i \in 1 .. MaxLookups : started >= i ~> Len(answers) >= i

\* The core's loop gets past the lock, whatever the resolver is doing.
CoreNotStuck ==
  core \in {"startAcquire", "pollAcquire"} ~> core \notin {"startAcquire", "pollAcquire"}
=============================================================================
