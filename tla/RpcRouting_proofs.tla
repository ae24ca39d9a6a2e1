-------------------------- MODULE RpcRouting_proofs --------------------------
(* Proofs about RpcRouting, for any number of requests, clients' ids,        *)
(* settings of a callback and nested calls.                                  *)
EXTENDS RpcRouting, TLAPS

-----------------------------------------------------------------------------
(* Sequences: what pushing and popping a frame does to the stack.            *)

LEMMA PushFrame ==
  ASSUME NEW s \in Seq(Frame), NEW f \in Frame
  PROVE  /\ Append(s, f) \in Seq(Frame)
         /\ Len(Append(s, f)) = Len(s) + 1
         /\ DOMAIN Append(s, f) = DOMAIN s \cup {Len(s) + 1}
         /\ \A i \in DOMAIN s : Append(s, f)[i] = s[i]
         /\ Append(s, f)[Len(s) + 1] = f
         /\ Last(Append(s, f)) = f
  BY DEF Last

LEMMA FunctionIsSeq ==
  ASSUME NEW n \in Nat, NEW t, t = [i \in 1 .. n |-> t[i]], \A i \in 1 .. n : t[i] \in Frame
  PROVE  t \in Seq(Frame) /\ Len(t) = n
  OBVIOUS

LEMMA PopFrame ==
  ASSUME NEW s \in Seq(Frame), s # <<>>
  PROVE  /\ Last(s) \in Frame /\ Last(s) = s[Len(s)] /\ Len(s) \in DOMAIN s
         /\ Front(s) \in Seq(Frame)
         /\ Len(Front(s)) = Len(s) - 1
         /\ DOMAIN Front(s) = DOMAIN s \ {Len(s)}
         /\ \A i \in DOMAIN Front(s) : Front(s)[i] = s[i]
<1>1. Len(s) \in Nat /\ Len(s) >= 1 /\ DOMAIN s = 1 .. Len(s)
  OBVIOUS
<1>2. Last(s) = s[Len(s)] /\ s[Len(s)] \in Frame
  BY <1>1 DEF Last
<1> DEFINE n == Len(s) - 1
           t == [i \in 1 .. n |-> s[i]]
<1>3. n \in Nat /\ Len(s) = n + 1
  BY <1>1
<1>4. Front(s) = t
  BY <1>1 DEF Front
<1>5. \A i \in 1 .. n : t[i] = s[i] /\ t[i] \in Frame
  BY <1>1
<1>6. t = [i \in 1 .. n |-> t[i]]
  OBVIOUS
<1> HIDE DEF t, n
<1>7. t \in Seq(Frame) /\ Len(t) = n
  BY <1>3, <1>5, <1>6, FunctionIsSeq
<1>8. DOMAIN t = 1 .. n
  BY <1>7
<1> QED
  BY <1>1, <1>2, <1>3, <1>4, <1>5, <1>7, <1>8

-----------------------------------------------------------------------------
(* Types.                                                                    *)

LEMMA ClientIdNotNoId == NoId \notin ClientIds /\ NoId \notin Ids
  BY ConstantsAssumption DEF NoId, Ids

LEMMA RpcFields ==
  ASSUME NEW k \in Rpc
  PROVE  /\ k.via \in Vias \cup {"none"} /\ k.cid \in ClientIds \cup {NoId}
         /\ k.reg \in 0 .. MaxRegs /\ k.state \in States
  BY DEF Rpc

\* Ask makes one request and touches no other.
LEMMA AskFacts ==
  ASSUME TypeOK, NEW id \in Ids, NEW via \in Vias, NEW cid \in ClientIds \cup {NoId},
         NEW reg \in 0 .. MaxRegs, Ask(id, via, cid, reg)
  PROVE  /\ rpcs' \in [Ids -> Rpc]
         /\ \A j \in Ids : j # id => rpcs'[j] = rpcs[j]
         /\ rpcs'[id].via = via /\ rpcs'[id].cid = cid /\ rpcs'[id].reg = reg
         /\ rpcs'[id].state = "pending"
<1>1. [via |-> via, cid |-> cid, reg |-> reg, state |-> "pending"] \in Rpc
  BY DEF Rpc, States
<1> QED
  BY <1>1 DEF TypeOK, Ask

\* What steps that only move requests on leave of them.
Moved ==
  /\ rpcs' \in [Ids -> Rpc]
  /\ \A id \in Ids :
       /\ rpcs'[id].via = rpcs[id].via /\ rpcs'[id].cid = rpcs[id].cid
       /\ rpcs'[id].reg = rpcs[id].reg

LEMMA EndRpcsFacts ==
  ASSUME TypeOK, NEW api, NEW targets, NEW asked, EndRpcs(api, targets, asked)
  PROVE  /\ Moved
         /\ \A id \in Ids :
              rpcs'[id].state =
                IF id \in targets /\ rpcs[id].state = "pending" /\ Api(rpcs[id].via) = api
                THEN "ending" ELSE rpcs[id].state
         /\ ended' = ended \cup asked
<1>1. \A id \in Ids : rpcs[id] \in Rpc
  BY DEF TypeOK
<1>2. \A k \in Rpc : /\ [k EXCEPT !.state = "ending"] \in Rpc
                     /\ [k EXCEPT !.state = "ending"].via = k.via
                     /\ [k EXCEPT !.state = "ending"].cid = k.cid
                     /\ [k EXCEPT !.state = "ending"].reg = k.reg
                     /\ [k EXCEPT !.state = "ending"].state = "ending"
  BY DEF Rpc, States
<1> QED
  BY <1>1, <1>2 DEF EndRpcs, Moved

LEMMA ReplyFacts ==
  ASSUME TypeOK, NEW id \in Ids, NEW kind \in Kinds, Reply(id, kind)
  PROVE  /\ Moved
         /\ \A j \in Ids : j # id => rpcs'[j].state = rpcs[j].state
         /\ kind = "sig" => rpcs'[id].state = rpcs[id].state
         /\ kind = "fin" => rpcs'[id].state = "ended"
         /\ kind \in {"ack", "err"} => rpcs'[id].state = "answered"
         /\ Outstanding(id)
<1> DEFINE s == CASE kind = "sig" -> rpcs[id].state [] kind = "fin" -> "ended"
                  [] OTHER -> "answered"
<1>1. rpcs' = [rpcs EXCEPT ![id].state = s]
  BY DEF Reply
<1>2. s \in States
  BY RpcFields DEF TypeOK, States, Kinds
<1>3. /\ kind = "sig" => s = rpcs[id].state
      /\ kind = "fin" => s = "ended"
      /\ kind \in {"ack", "err"} => s = "answered"
  BY DEF Kinds
<1> HIDE DEF s
<1>4. \A k \in Rpc : /\ [k EXCEPT !.state = s] \in Rpc
                     /\ [k EXCEPT !.state = s].via = k.via
                     /\ [k EXCEPT !.state = s].cid = k.cid
                     /\ [k EXCEPT !.state = s].reg = k.reg
                     /\ [k EXCEPT !.state = s].state = s
  BY <1>2 DEF Rpc
<1>5. rpcs'[id] = [rpcs[id] EXCEPT !.state = s] /\ \A j \in Ids : j # id => rpcs'[j] = rpcs[j]
  BY <1>1 DEF TypeOK
<1>6. \A j \in Ids : rpcs[j] \in Rpc
  BY DEF TypeOK
<1>7. rpcs' \in [Ids -> Rpc]
  BY <1>1, <1>4, <1>6 DEF TypeOK
<1>8. Outstanding(id)
  BY DEF Reply, Outstanding
<1>9. rpcs'[id].state = s /\ rpcs'[id].via = rpcs[id].via /\ rpcs'[id].cid = rpcs[id].cid
      /\ rpcs'[id].reg = rpcs[id].reg
  BY <1>4, <1>5, <1>6
<1>10. Moved
  BY <1>5, <1>7, <1>9, Zenon DEF Moved
<1>11. \A j \in Ids : j # id => rpcs'[j].state = rpcs[j].state
  BY <1>5, Zenon
<1> QED
  BY <1>3, <1>8, <1>9, <1>10, <1>11, Zenon

\* A call that may be pushed leaves a stack of frames.
LEMMA CallTypes ==
  ASSUME TypeOK, NEW api, Call(api)
  PROVE  /\ stack' \in Seq(Frame) /\ Len(stack') <= MaxDepth
         /\ stack' = stack \/ stack' = Append(stack, [op |-> "call"])
<1>1. [op |-> "call"] \in Frame
  BY DEF Frame
<1>2. stack \in Seq(Frame) /\ Len(stack) \in Nat /\ Len(stack) <= MaxDepth
  BY DEF TypeOK
<1>3. CASE UNCHANGED stack
  BY <1>2, <1>3
<1>4. CASE Push([op |-> "call"])
  <2>1. Len(stack) < MaxDepth /\ stack' = Append(stack, [op |-> "call"])
    BY <1>4 DEF Push
  <2>2. Len(stack') = Len(stack) + 1 /\ stack' \in Seq(Frame)
    BY <1>1, <1>2, <2>1, PushFrame
  <2> QED
    BY <1>2, <2>1, <2>2, ConstantsAssumption
<1> QED
  BY <1>3, <1>4 DEF Call

\* The frame of a handler that a reply may start.
LEMMA HandlerTypes ==
  ASSUME TypeOK, NEW id \in Ids, NEW kind \in Kinds, NEW reg \in 0 .. MaxRegs,
         NEW shown \in ClientIds \cup Ids \cup {NoId},
         Push([op |-> "handler", rpc |-> id, kind |-> kind, reg |-> reg, shown |-> shown])
  PROVE  stack' \in Seq(Frame) /\ Len(stack') <= MaxDepth
<1> DEFINE f == [op |-> "handler", rpc |-> id, kind |-> kind, reg |-> reg, shown |-> shown]
<1>1. f \in Frame
  BY DEF Frame
<1>2. stack \in Seq(Frame) /\ Len(stack) \in Nat /\ Len(stack) < MaxDepth
  BY DEF TypeOK, Push
<1>3. stack' = Append(stack, f)
  BY DEF Push
<1> HIDE DEF f
<1>4. Len(stack') = Len(stack) + 1 /\ stack' \in Seq(Frame)
  BY <1>1, <1>2, <1>3, PushFrame
<1> QED
  BY <1>2, <1>4, ConstantsAssumption

\* Popping a frame.
LEMMA PopTypes ==
  ASSUME TypeOK, stack # <<>>, stack' = Front(stack)
  PROVE  stack' \in Seq(Frame) /\ Len(stack') <= MaxDepth /\ Top \in Frame
<1>1. stack \in Seq(Frame) /\ Len(stack) <= MaxDepth /\ Len(stack) \in Nat
  BY DEF TypeOK
<1>2. /\ Last(stack) \in Frame /\ Front(stack) \in Seq(Frame)
      /\ Len(Front(stack)) = Len(stack) - 1
  BY <1>1, PopFrame
<1>3. Len(stack') <= MaxDepth
  BY <1>1, <1>2, ConstantsAssumption
<1>4. Top = Last(stack)
  BY Zenon DEF Top
<1> QED
  BY <1>2, <1>3, <1>4, Zenon

LEMMA EndOneOfTypes ==
  ASSUME TypeOK, NEW via \in Passes, NEW cid \in ClientIds, NEW found, EndOneOf(via, found, cid)
  PROVE  /\ Moved /\ ended' \subseteq Ids
         /\ stack' \in Seq(Frame) /\ Len(stack') <= MaxDepth
<1>1. \E targets : EndRpcs(CancelApi(via), targets, Meant(via, cid))
  BY Zenon DEF EndOneOf
<1>2. Meant(via, cid) \subseteq Ids
  BY DEF Meant
<1>3. UNCHANGED stack \/ Call(CancelApi(via))
  BY Zenon DEF EndOneOf
<1>4. stack' \in Seq(Frame) /\ Len(stack') <= MaxDepth
  BY <1>3, CallTypes DEF TypeOK
<1> QED
  BY <1>1, <1>2, <1>4, EndRpcsFacts DEF TypeOK

\* Every step keeps the variables in their types.
LEMMA TypeStep == TypeOK /\ [Next]_vars => TypeOK'
<1> SUFFICES ASSUME TypeOK, [Next]_vars PROVE TypeOK'
  OBVIOUS
<1>1. CASE UNCHANGED vars
  BY <1>1 DEF vars, TypeOK
<1>2. CASE CallReturns
  <2>1. stack # <<>> /\ stack' = Front(stack)
    BY <1>2 DEF CallReturns, Top
  <2> QED
    BY <1>2, <2>1, PopTypes DEF CallReturns, TypeOK
<1>3. ASSUME NEW id \in Ids, GetNextRpcId(id) PROVE next_rpc_id' \in 1 .. MaxRpcs + 1
  BY <1>3, ConstantsAssumption DEF GetNextRpcId, Ids
<1>4. ASSUME NEW via \in Objects, ObjectRequest(via) PROVE TypeOK'
  <2>1. PICK id \in Ids : /\ GetNextRpcId(id) /\ cbDictionary' = cbDictionary \cup {id}
                          /\ Ask(id, via, NoId, 0) /\ Call(Api(via))
    BY <1>4, Zenon DEF ObjectRequest
  <2>2. rpcs' \in [Ids -> Rpc]
    <3>1. via \in Vias /\ NoId \in ClientIds \cup {NoId} /\ 0 \in 0 .. MaxRegs
      BY ConstantsAssumption DEF Vias
    <3> QED
      BY <2>1, <3>1, AskFacts, Zenon
  <2>3. next_rpc_id' \in 1 .. MaxRpcs + 1
    BY <1>3, <2>1
  <2>4. stack' \in Seq(Frame) /\ Len(stack') <= MaxDepth
    BY <2>1, CallTypes
  <2>5. UNCHANGED <<rewrite, registered, ended>>
    BY <1>4, Zenon DEF ObjectRequest
  <2> QED
    BY <2>1, <2>2, <2>3, <2>4, <2>5 DEF TypeOK
<1>5. CASE SpendId \/ Login
  <2>1. next_rpc_id' \in 1 .. MaxRpcs + 1
    BY <1>3, <1>5 DEF SpendId, Login
  <2>2. stack' \in Seq(Frame) /\ Len(stack') <= MaxDepth
    BY <1>5, CallTypes DEF SpendId, Login, TypeOK
  <2> QED
    BY <1>5, <2>1, <2>2 DEF SpendId, Login, TypeOK
<1>6. ASSUME NEW via \in Passes, NEW cid \in ClientIds, PassRequest(via, cid) PROVE TypeOK'
  <2>1. PICK id \in Ids : /\ GetNextRpcId(id) /\ SaveMapping(via, id, cid)
                          /\ Ask(id, via, cid, registered[via]) /\ Call(Api(via))
    BY <1>6, Zenon DEF PassRequest
  <2>2. rpcs' \in [Ids -> Rpc]
    <3>1. registered[via] \in 0 .. MaxRegs
      BY DEF TypeOK
    <3> QED
      BY <2>1, <3>1, AskFacts DEF Vias
  <2>3. next_rpc_id' \in 1 .. MaxRpcs + 1
    BY <1>3, <2>1
  <2>4. stack' \in Seq(Frame) /\ Len(stack') <= MaxDepth
    BY <2>1, CallTypes
  <2>5. rewrite' \in [Passes -> [Ids -> ClientIds \cup {NoId}]]
    BY <2>1 DEF SaveMapping, TypeOK
  <2>6. UNCHANGED <<cbDictionary, registered, ended>>
    BY <1>6, Zenon DEF PassRequest
  <2> QED
    BY <2>2, <2>3, <2>4, <2>5, <2>6 DEF TypeOK
<1>7. ASSUME NEW via \in Passes, SetCallback(via) PROVE TypeOK'
  <2>1. EmptyDict \in [Ids -> ClientIds \cup {NoId}]
    BY DEF EmptyDict
  <2>2. rewrite' \in [Passes -> [Ids -> ClientIds \cup {NoId}]]
    BY <1>7, <2>1 DEF SetCallback, TypeOK
  <2>3. registered' \in [Passes -> 0 .. MaxRegs]
    BY <1>7, ConstantsAssumption DEF SetCallback, TypeOK
  <2> QED
    BY <1>7, <2>2, <2>3 DEF SetCallback, TypeOK
<1>8. ASSUME NEW id \in Ids, ObjectCancel(id) PROVE TypeOK'
  <2>1. Moved /\ ended' = ended \cup {id}
    BY <1>8, EndRpcsFacts DEF ObjectCancel
  <2>2. stack' \in Seq(Frame) /\ Len(stack') <= MaxDepth
    BY <1>8, CallTypes DEF ObjectCancel
  <2> QED
    BY <1>8, <2>1, <2>2 DEF ObjectCancel, TypeOK, Moved
<1>9. ASSUME NEW via \in Passes, NEW cid \in ClientIds, NEW found, EndOneOf(via, found, cid),
             UNCHANGED <<next_rpc_id, cbDictionary, rewrite, registered>>
      PROVE  TypeOK'
  BY <1>9, EndOneOfTypes DEF TypeOK, Moved
<1>10. ASSUME NEW cid \in ClientIds, MistEnd(cid) \/ WishEnd(cid) \/ SandboxEnd(cid) PROVE TypeOK'
  BY <1>9, <1>10 DEF MistEnd, WishEnd, SandboxEnd, Passes
<1>11. ASSUME NEW id \in Ids, NEW kind \in Kinds, Reply(id, kind) PROVE TypeOK'
  <2>1. rpcs' \in [Ids -> Rpc] /\ UNCHANGED <<next_rpc_id, registered, ended, cbDictionary>>
    BY <1>11, ReplyFacts DEF Moved, Reply, ObjectCallback, PassCallback, SandboxCallback
  <2>2. CASE ObjectCallback(id, kind)
    <3>1. stack' \in Seq(Frame) /\ Len(stack') <= MaxDepth
      <4>1. 0 \in 0 .. MaxRegs /\ NoId \in ClientIds \cup Ids \cup {NoId}
        BY ConstantsAssumption
      <4>2. CASE UNCHANGED stack
        BY <4>2 DEF TypeOK
      <4>3. CASE Push([op |-> "handler", rpc |-> id, kind |-> kind, reg |-> 0,
                       shown |-> NoId])
        BY <4>1, <4>3, HandlerTypes, Zenon
      <4> QED
        BY <2>2, <4>2, <4>3, Zenon DEF ObjectCallback
    <3> QED
      BY <2>1, <2>2, <3>1 DEF ObjectCallback, TypeOK
  <2>3. ASSUME NEW via \in Passes, PassCallback(via, id, kind) PROVE TypeOK'
    <3>1. registered[via] \in 0 .. MaxRegs /\ rewrite[via][id] \in ClientIds \cup {NoId}
      BY DEF TypeOK
    <3>2. stack' \in Seq(Frame) /\ Len(stack') <= MaxDepth
      BY <2>3, <3>1, HandlerTypes DEF PassCallback, TypeOK
    <3>3. rewrite' \in [Passes -> [Ids -> ClientIds \cup {NoId}]]
      BY <2>3 DEF PassCallback, TypeOK
    <3> QED
      BY <2>1, <3>2, <3>3 DEF TypeOK
  <2> QED
    BY <1>11, <2>2, <2>3 DEF Reply, SandboxCallback, Passes
<1>12. CASE HandlerReturns
  <2>1. stack # <<>> /\ stack' = Front(stack)
    BY <1>12 DEF HandlerReturns, Top
  <2> QED
    BY <1>12, <2>1, PopTypes DEF HandlerReturns, TypeOK
<1> QED
  BY <1>1, <1>2, <1>4, <1>5, <1>6, <1>7, <1>8, <1>10, <1>11, <1>12
     DEF Next, MistRequest, WishRequest, SandboxRequest, SetMistApiCallback,
         SetWishApiCallback, NewSandbox, Passes

-----------------------------------------------------------------------------
(* The inductive invariant.                                                  *)

\* An id that was not given out belongs to nobody.
Fresh == \A id \in Ids : id >= next_rpc_id => rpcs[id] = Unused

\* A mapping is that of an unanswered request under the callback set now ...
Mapped ==
  \A via \in Passes, id \in Ids : rewrite[via][id] # NoId =>
    /\ rpcs[id].via = via /\ rpcs[id].reg = registered[via] /\ registered[via] > 0
    /\ rpcs[id].cid = rewrite[via][id]
    /\ Outstanding(id)

\* ... and each such request has its mapping.
Remembered ==
  \A via \in Passes, id \in Ids :
    rpcs[id].via = via /\ Outstanding(id) /\ rpcs[id].reg = registered[via] /\ registered[via] > 0
      => rewrite[via][id] = rpcs[id].cid

\* A client asked under a callback that is or was set, with an id of its own.
Asked ==
  \A via \in Passes, id \in Ids : rpcs[id].via = via =>
    rpcs[id].reg <= registered[via] /\ rpcs[id].cid \in ClientIds

\* What a running handler was given, seen with the requests r.
FrameOk(r, f) ==
  f.op = "handler" =>
    /\ r[f.rpc].state # "none"
    /\ f.kind \in {"ack", "err"} => r[f.rpc].state = "answered"
    /\ r[f.rpc].via \in Passes =>
         f.reg = r[f.rpc].reg /\ (f.kind # "fin" => f.shown = r[f.rpc].cid)
Frames == \A i \in DOMAIN stack : FrameOk(rpcs, stack[i])

\* The handler of the last reply of request id is the i-th call.
Concludes(i, id) ==
  stack[i].op = "handler" /\ stack[i].rpc = id /\ stack[i].kind \in {"ack", "err"}

Kept ==
  \A id \in Ids : rpcs[id].via \in Objects =>
    /\ Outstanding(id) => id \in cbDictionary
    /\ id \in cbDictionary /\ rpcs[id].state = "answered" =>
         \E i \in DOMAIN stack : Concludes(i, id)

RoutingInv == TypeOK /\ Fresh /\ Mapped /\ Remembered /\ Asked /\ Frames /\ Kept

\* No step takes a request back: who asked stays, and an answer is final.
Later ==
  \A id \in Ids : rpcs[id].state # "none" =>
    /\ rpcs'[id].via = rpcs[id].via /\ rpcs'[id].cid = rpcs[id].cid
    /\ rpcs'[id].reg = rpcs[id].reg /\ rpcs'[id].state # "none"
    /\ rpcs[id].state = "answered" => rpcs'[id].state = "answered"

LEMMA OldFrames ==
  ASSUME TypeOK, Frames, Later, NEW i \in DOMAIN stack
  PROVE  FrameOk(rpcs', stack[i])
<1>1. stack[i] \in Frame
  BY DEF TypeOK
<1>2. CASE stack[i].op # "handler"
  BY <1>2 DEF FrameOk
<1>3. CASE stack[i].op = "handler"
  <2>1. stack[i].rpc \in Ids
    BY <1>1, <1>3 DEF Frame
  <2> QED
    BY <1>3, <2>1, Zenon DEF Frames, FrameOk, Later
<1> QED
  BY <1>2, <1>3

\* What is pushed lies on top of what was there.
LEMMA PushKeeps ==
  ASSUME TypeOK, Frames, Later, NEW f \in Frame, stack' = Append(stack, f), FrameOk(rpcs', f)
  PROVE  /\ Frames'
         /\ DOMAIN stack \subseteq DOMAIN stack' /\ \A i \in DOMAIN stack : stack'[i] = stack[i]
         /\ Len(stack') \in DOMAIN stack' /\ stack'[Len(stack')] = f
         /\ Len(stack') = Len(stack) + 1 /\ Last(stack') = f
<1>1. /\ DOMAIN stack' = DOMAIN stack \cup {Len(stack) + 1}
      /\ \A i \in DOMAIN stack : stack'[i] = stack[i]
      /\ stack'[Len(stack) + 1] = f /\ Len(stack') = Len(stack) + 1 /\ Last(stack') = f
  BY PushFrame DEF TypeOK
<1>2. \A i \in DOMAIN stack' : FrameOk(rpcs', stack'[i])
  BY <1>1, OldFrames, Zenon
<1> QED
  BY <1>1, <1>2, Zenon DEF Frames

\* A call, or nothing, is pushed.
LEMMA CallKeeps ==
  ASSUME TypeOK, Frames, Later, NEW api, UNCHANGED stack \/ Call(api)
  PROVE  /\ Frames'
         /\ DOMAIN stack \subseteq DOMAIN stack' /\ \A i \in DOMAIN stack : stack'[i] = stack[i]
<1>1. CASE stack' = stack
  BY <1>1, OldFrames, Zenon DEF Frames
<1>2. CASE stack' = Append(stack, [op |-> "call"])
  <2>1. [op |-> "call"] \in Frame
    BY DEF Frame
  <2>2. FrameOk(rpcs', [op |-> "call"])
    BY DEF FrameOk
  <2> QED
    BY <1>2, <2>1, <2>2, PushKeeps, Zenon
<1> QED
  BY <1>1, <1>2, CallTypes

\* The stack only grows: the handlers that ran still do.
LEMMA StillConcludes ==
  ASSUME DOMAIN stack \subseteq DOMAIN stack', \A i \in DOMAIN stack : stack'[i] = stack[i],
         NEW id, \E i \in DOMAIN stack : Concludes(i, id)
  PROVE  \E i \in DOMAIN stack' : Concludes(i, id)'
<1>1. PICK i \in DOMAIN stack : Concludes(i, id)
  OBVIOUS
<1>2. i \in DOMAIN stack' /\ stack'[i].op = "handler" /\ stack'[i].rpc = id
      /\ stack'[i].kind \in {"ack", "err"}
  BY <1>1, Zenon DEF Concludes
<1> QED
  BY <1>2, Zenon DEF Concludes

-----------------------------------------------------------------------------
(* Each step keeps it.                                                       *)

\* Steps that end requests in an API, or none.
LEMMA EndStep ==
  ASSUME RoutingInv, NEW api, NEW api2, NEW targets, NEW asked, EndRpcs(api, targets, asked),
         UNCHANGED <<next_rpc_id, cbDictionary, rewrite, registered>>,
         UNCHANGED stack \/ Call(api2)
  PROVE  Fresh' /\ Mapped' /\ Remembered' /\ Asked' /\ Frames' /\ Kept'
<1> USE DEF RoutingInv
<1>1. /\ Moved
      /\ \A id \in Ids : \/ rpcs'[id].state = rpcs[id].state
                         \/ rpcs[id].state = "pending" /\ rpcs'[id].state = "ending"
  <2>1. /\ Moved
        /\ \A id \in Ids : rpcs'[id].state =
             IF id \in targets /\ rpcs[id].state = "pending" /\ Api(rpcs[id].via) = api
             THEN "ending" ELSE rpcs[id].state
    BY EndRpcsFacts, Zenon
  <2> QED
    BY <2>1
<1>2. /\ Later /\ \A id \in Ids : Outstanding(id)' = Outstanding(id)
      /\ \A id \in Ids : rpcs'[id].state = "answered" <=> rpcs[id].state = "answered"
  BY <1>1 DEF Later, Moved, Outstanding
<1>3. /\ Frames' /\ DOMAIN stack \subseteq DOMAIN stack'
      /\ \A i \in DOMAIN stack : stack'[i] = stack[i]
  BY <1>2, CallKeeps, Zenon
<1>4. Fresh'
  <2>1. ASSUME NEW id \in Ids, id >= next_rpc_id PROVE rpcs'[id] = Unused
    <3>1. rpcs[id] = Unused
      BY <2>1 DEF Fresh
    <3>2. rpcs'[id] = rpcs[id]
      BY <3>1 DEF EndRpcs, Unused
    <3> QED
      BY <3>1, <3>2
  <2> QED
    BY <2>1 DEF Fresh
<1>5. Mapped' /\ Remembered' /\ Asked'
  BY <1>1, <1>2 DEF Mapped, Remembered, Asked, Moved
<1>6. Kept'
  <2>1. ASSUME NEW id \in Ids, rpcs'[id].via \in Objects
        PROVE  /\ Outstanding(id)' => id \in cbDictionary'
               /\ id \in cbDictionary' /\ rpcs'[id].state = "answered" =>
                    \E i \in DOMAIN stack' : Concludes(i, id)'
    <3>1. rpcs[id].via \in Objects
      BY <1>1, <2>1 DEF Moved
    <3>2. /\ Outstanding(id) => id \in cbDictionary
          /\ id \in cbDictionary /\ rpcs[id].state = "answered" =>
               \E i \in DOMAIN stack : Concludes(i, id)
      BY <3>1, Zenon DEF Kept
    <3>3. cbDictionary' = cbDictionary
      OBVIOUS
    <3> QED
      BY <1>2, <1>3, <3>2, <3>3, StillConcludes, Zenon
  <2> QED
    BY <2>1, Zenon DEF Kept
<1> QED
  BY <1>3, <1>4, <1>5, <1>6

\* A new request: what is common to those of objects and of clients.
LEMMA NewRequest ==
  ASSUME RoutingInv, NEW id \in Ids, GetNextRpcId(id), NEW via \in Vias,
         NEW cid \in ClientIds \cup {NoId}, NEW reg \in 0 .. MaxRegs, Ask(id, via, cid, reg),
         NEW api, Call(api)
  PROVE  /\ rpcs[id] = Unused /\ ~Outstanding(id) /\ rpcs[id].via = "none"
         /\ \A j \in Ids : j # id => rpcs'[j] = rpcs[j]
         /\ rpcs'[id].via = via /\ rpcs'[id].cid = cid /\ rpcs'[id].reg = reg
         /\ rpcs'[id].state = "pending"
         /\ Fresh' /\ Frames'
         /\ DOMAIN stack \subseteq DOMAIN stack' /\ \A i \in DOMAIN stack : stack'[i] = stack[i]
<1> USE DEF RoutingInv
<1>1. next_rpc_id \in Int /\ id = next_rpc_id /\ next_rpc_id' = next_rpc_id + 1
  BY ConstantsAssumption DEF GetNextRpcId, Ids
<1>2. rpcs[id] = Unused
  BY <1>1 DEF Fresh, Ids
<1>3. /\ \A j \in Ids : j # id => rpcs'[j] = rpcs[j]
      /\ rpcs'[id].via = via /\ rpcs'[id].cid = cid /\ rpcs'[id].reg = reg
      /\ rpcs'[id].state = "pending"
  BY AskFacts, Zenon
<1>4. rpcs[id].state = "none" /\ rpcs[id].via = "none"
  BY <1>2 DEF Unused
<1>5. Later
  BY <1>3, <1>4 DEF Later
<1>6. Fresh'
  BY <1>1, <1>3 DEF Fresh, Ids
<1>7. ~Outstanding(id)
  BY <1>4 DEF Outstanding
<1> QED
  BY <1>2, <1>3, <1>4, <1>5, <1>6, <1>7, CallKeeps, Zenon

LEMMA ObjectRequestStep ==
  ASSUME RoutingInv, NEW via \in Objects, ObjectRequest(via)
  PROVE  Fresh' /\ Mapped' /\ Remembered' /\ Asked' /\ Frames' /\ Kept'
<1> USE DEF RoutingInv
<1>1. PICK id \in Ids : /\ GetNextRpcId(id) /\ cbDictionary' = cbDictionary \cup {id}
                        /\ Ask(id, via, NoId, 0) /\ Call(Api(via))
  BY Zenon DEF ObjectRequest
<1>2. UNCHANGED <<rewrite, registered>>
  BY Zenon DEF ObjectRequest
<1>3. via \in Vias /\ NoId \in ClientIds \cup {NoId} /\ 0 \in 0 .. MaxRegs
  BY ConstantsAssumption DEF Vias
<1>4. /\ ~Outstanding(id) /\ rpcs[id].via = "none"
      /\ \A j \in Ids : j # id => rpcs'[j] = rpcs[j]
      /\ rpcs'[id].via = via /\ rpcs'[id].state = "pending"
      /\ Fresh' /\ Frames'
      /\ DOMAIN stack \subseteq DOMAIN stack' /\ \A i \in DOMAIN stack : stack'[i] = stack[i]
  BY <1>1, <1>3, NewRequest, Zenon
<1>5. via \notin Passes /\ "none" \notin Objects /\ "none" \notin Passes
  BY DEF Objects, MistObjects, FriendObjects, WldObjects, Passes
<1>6. \A j \in Ids : j # id => Outstanding(j)' = Outstanding(j)
  BY <1>4 DEF Outstanding
<1>7. Mapped' /\ Remembered' /\ Asked'
  BY <1>2, <1>4, <1>5, <1>6 DEF Mapped, Remembered, Asked
<1>8. Kept'
  <2>1. ASSUME NEW j \in Ids, rpcs'[j].via \in Objects, j # id
        PROVE  /\ Outstanding(j)' => j \in cbDictionary'
               /\ j \in cbDictionary' /\ rpcs'[j].state = "answered" =>
                    \E i \in DOMAIN stack' : Concludes(i, j)'
    <3>1. /\ Outstanding(j) => j \in cbDictionary
          /\ j \in cbDictionary /\ rpcs[j].state = "answered" =>
               \E i \in DOMAIN stack : Concludes(i, j)
      BY <1>4, <2>1, Zenon DEF Kept
    <3>2. j \in cbDictionary' <=> j \in cbDictionary
      BY <1>1, <2>1
    <3>3. rpcs'[j].state = rpcs[j].state
      BY <1>4, <2>1
    <3> QED
      BY <1>4, <1>6, <2>1, <3>1, <3>2, <3>3, StillConcludes, Zenon
  <2>2. id \in cbDictionary' /\ rpcs'[id].state # "answered"
    BY <1>1, <1>4
  <2> QED
    BY <2>1, <2>2, Zenon DEF Kept
<1> QED
  BY <1>4, <1>7, <1>8

LEMMA PassRequestStep ==
  ASSUME RoutingInv, NEW via \in Passes, NEW cid \in ClientIds, PassRequest(via, cid)
  PROVE  Fresh' /\ Mapped' /\ Remembered' /\ Asked' /\ Frames' /\ Kept'
<1> USE DEF RoutingInv
<1>1. PICK id \in Ids : /\ GetNextRpcId(id) /\ SaveMapping(via, id, cid)
                        /\ Ask(id, via, cid, registered[via]) /\ Call(Api(via))
  BY Zenon DEF PassRequest
<1>2. UNCHANGED <<cbDictionary, registered>>
  BY Zenon DEF PassRequest
<1>3. via \in Vias /\ cid \in ClientIds \cup {NoId} /\ registered[via] \in 0 .. MaxRegs
  BY DEF Vias, TypeOK
<1>4. /\ ~Outstanding(id) /\ rpcs[id].via = "none"
      /\ \A j \in Ids : j # id => rpcs'[j] = rpcs[j]
      /\ rpcs'[id].via = via /\ rpcs'[id].state = "pending"
      /\ rpcs'[id].cid = cid /\ rpcs'[id].reg = registered[via]
      /\ Fresh' /\ Frames'
      /\ DOMAIN stack \subseteq DOMAIN stack' /\ \A i \in DOMAIN stack : stack'[i] = stack[i]
  <2> DEFINE reg == registered[via]
  <2>1. Ask(id, via, cid, reg) /\ reg \in 0 .. MaxRegs
    BY <1>1, <1>3, Zenon
  <2> HIDE DEF reg
  <2>2. /\ rpcs[id] = Unused /\ ~Outstanding(id) /\ rpcs[id].via = "none"
        /\ \A j \in Ids : j # id => rpcs'[j] = rpcs[j]
        /\ rpcs'[id].via = via /\ rpcs'[id].cid = cid /\ rpcs'[id].reg = reg
        /\ rpcs'[id].state = "pending"
        /\ Fresh' /\ Frames'
        /\ DOMAIN stack \subseteq DOMAIN stack' /\ \A i \in DOMAIN stack : stack'[i] = stack[i]
    BY <1>1, <1>3, <2>1, NewRequest, Zenon
  <2> QED
    BY <2>2 DEF reg
<1>5. via \notin Objects /\ "none" \notin Objects /\ "none" \notin Passes
  BY DEF Objects, MistObjects, FriendObjects, WldObjects, Passes
<1>6. \A j \in Ids : j # id => Outstanding(j)' = Outstanding(j)
  BY <1>4 DEF Outstanding
<1>7. Outstanding(id)'
  BY <1>4 DEF Outstanding
<1>8. \A v \in Passes, j \in Ids : rewrite'[v][j] =
         IF v = via /\ j = id /\ registered[via] # 0 THEN cid ELSE rewrite[v][j]
  BY <1>1 DEF SaveMapping, TypeOK
<1>9. registered[via] # 0 <=> registered[via] > 0
  BY <1>3, ConstantsAssumption
<1>10. rewrite[via][id] = NoId /\ \A v \in Passes : rewrite[v][id] = NoId
  BY <1>4 DEF Mapped
<1>11. Mapped'
  <2>1. ASSUME NEW v \in Passes, NEW j \in Ids, rewrite'[v][j] # NoId
        PROVE  /\ rpcs'[j].via = v /\ rpcs'[j].reg = registered'[v] /\ registered'[v] > 0
               /\ rpcs'[j].cid = rewrite'[v][j] /\ Outstanding(j)'
    <3>1. CASE j = id
      BY <1>2, <1>4, <1>7, <1>8, <1>9, <1>10, <2>1, <3>1
    <3>2. CASE j # id
      <4>1. rewrite'[v][j] = rewrite[v][j] /\ rpcs'[j] = rpcs[j]
        BY <1>4, <1>8, <3>2, Zenon
      <4> QED
        BY <1>2, <1>6, <2>1, <3>2, <4>1 DEF Mapped
    <3> QED
      BY <3>1, <3>2
  <2> QED
    BY <2>1, Zenon DEF Mapped
<1>12. Remembered'
  <2>1. ASSUME NEW v \in Passes, NEW j \in Ids, rpcs'[j].via = v, Outstanding(j)',
               rpcs'[j].reg = registered'[v], registered'[v] > 0
        PROVE  rewrite'[v][j] = rpcs'[j].cid
    <3>1. CASE j = id
      BY <1>2, <1>4, <1>8, <1>9, <2>1, <3>1
    <3>2. CASE j # id
      <4>1. rewrite'[v][j] = rewrite[v][j] /\ rpcs'[j] = rpcs[j]
        BY <1>4, <1>8, <3>2, Zenon
      <4> QED
        BY <1>2, <1>6, <2>1, <3>2, <4>1 DEF Remembered
    <3> QED
      BY <3>1, <3>2
  <2> QED
    BY <2>1, Zenon DEF Remembered
<1>13. Asked'
  BY <1>2, <1>3, <1>4, ConstantsAssumption DEF Asked
<1>14. Kept'
  <2>1. ASSUME NEW j \in Ids, rpcs'[j].via \in Objects
        PROVE  /\ Outstanding(j)' => j \in cbDictionary'
               /\ j \in cbDictionary' /\ rpcs'[j].state = "answered" =>
                    \E i \in DOMAIN stack' : Concludes(i, j)'
    <3>1. j # id /\ rpcs'[j] = rpcs[j]
      BY <1>4, <1>5, <2>1
    <3>2. /\ Outstanding(j) => j \in cbDictionary
          /\ j \in cbDictionary /\ rpcs[j].state = "answered" =>
               \E i \in DOMAIN stack : Concludes(i, j)
      BY <2>1, <3>1, Zenon DEF Kept
    <3>3. cbDictionary' = cbDictionary
      BY <1>2
    <3> QED
      BY <1>4, <1>6, <3>1, <3>2, <3>3, StillConcludes, Zenon
  <2> QED
    BY <2>1, Zenon DEF Kept
<1> QED
  BY <1>4, <1>11, <1>12, <1>13, <1>14

\* The requests made before a callback was set are not those of the new one.
LEMMA SetCallbackStep ==
  ASSUME RoutingInv, NEW via \in Passes, SetCallback(via)
  PROVE  Fresh' /\ Mapped' /\ Remembered' /\ Asked' /\ Frames' /\ Kept'
<1> USE DEF RoutingInv
<1>1. UNCHANGED <<next_rpc_id, cbDictionary, rpcs, stack>>
  BY DEF SetCallback
<1>2. /\ \A v \in Passes : registered[v] \in Nat
      /\ \A v \in Passes :
           registered'[v] = IF v = via THEN registered[v] + 1 ELSE registered[v]
  BY ConstantsAssumption DEF SetCallback, TypeOK
<1>3. \A v \in Passes, j \in Ids : rewrite'[v][j] = IF v = via THEN NoId ELSE rewrite[v][j]
  BY DEF SetCallback, TypeOK, EmptyDict
<1>4. \A j \in Ids : rpcs[j].reg \in Nat
  BY ConstantsAssumption, RpcFields DEF TypeOK
<1>5. Fresh' /\ Frames' /\ Kept'
  BY <1>1 DEF Fresh, Frames, Kept, Outstanding, Concludes
<1>6. \A j \in Ids : Outstanding(j)' = Outstanding(j)
  BY <1>1 DEF Outstanding
<1>7. Mapped'
  BY <1>1, <1>2, <1>3, <1>6 DEF Mapped
<1>8. Remembered'
  BY <1>1, <1>2, <1>3, <1>4, <1>6 DEF Remembered, Asked
<1>9. Asked'
  BY <1>1, <1>2, <1>4 DEF Asked
<1> QED
  BY <1>5, <1>7, <1>8, <1>9

\* An id taken for nobody, whether the API is called with it or not.
LEMMA SpendIdStep ==
  ASSUME RoutingInv, SpendId \/ Login
  PROVE  Fresh' /\ Mapped' /\ Remembered' /\ Asked' /\ Frames' /\ Kept'
<1> USE DEF RoutingInv
<1>1. next_rpc_id \in Int /\ next_rpc_id' = next_rpc_id + 1
  BY ConstantsAssumption DEF SpendId, Login, GetNextRpcId, Ids
<1>2. UNCHANGED <<cbDictionary, rewrite, registered, rpcs>>
  BY DEF SpendId, Login
<1>3. Fresh'
  BY <1>1, <1>2 DEF Fresh, Ids
<1>4. /\ Frames'
      /\ DOMAIN stack \subseteq DOMAIN stack' /\ \A i \in DOMAIN stack : stack'[i] = stack[i]
  <2>1. Later
    BY <1>2 DEF Later
  <2>2. UNCHANGED stack \/ Call("mist")
    BY DEF SpendId, Login
  <2> QED
    BY <2>1, <2>2, CallKeeps
<1>5. Kept'
  <2>1. ASSUME NEW j \in Ids, rpcs'[j].via \in Objects
        PROVE  /\ Outstanding(j)' => j \in cbDictionary'
               /\ j \in cbDictionary' /\ rpcs'[j].state = "answered" =>
                    \E i \in DOMAIN stack' : Concludes(i, j)'
    <3>1. /\ Outstanding(j) => j \in cbDictionary
          /\ j \in cbDictionary /\ rpcs[j].state = "answered" =>
               \E i \in DOMAIN stack : Concludes(i, j)
      BY <1>2, <2>1, Zenon DEF Kept
    <3>2. Outstanding(j)' = Outstanding(j)
      BY <1>2 DEF Outstanding
    <3> QED
      BY <1>2, <1>4, <3>1, <3>2, StillConcludes, Zenon
  <2> QED
    BY <2>1, Zenon DEF Kept
<1> QED
  BY <1>2, <1>3, <1>4, <1>5 DEF Mapped, Remembered, Asked, Outstanding

\* A reply leaves all requests but its own as they are.
LEMMA ReplyLater ==
  ASSUME RoutingInv, NEW id \in Ids, NEW kind \in Kinds, Reply(id, kind)
  PROVE  /\ Later /\ Fresh'
         /\ \A j \in Ids : j # id => Outstanding(j)' = Outstanding(j)
         /\ rpcs'[id].state # "none"
<1> USE DEF RoutingInv
<1>1. /\ Moved
      /\ \A j \in Ids : j # id => rpcs'[j].state = rpcs[j].state
      /\ kind = "sig" => rpcs'[id].state = rpcs[id].state
      /\ kind = "fin" => rpcs'[id].state = "ended"
      /\ kind \in {"ack", "err"} => rpcs'[id].state = "answered"
      /\ Outstanding(id)
  BY ReplyFacts, Zenon
<1>2. rpcs[id].state # "none" /\ rpcs[id].state # "answered"
  BY <1>1 DEF Outstanding
<1>3. rpcs'[id].state # "none"
  BY <1>1, <1>2 DEF Kinds
<1>4. Later
  BY <1>1, <1>2, <1>3 DEF Later, Moved
<1>5. Fresh'
  <2>1. \A j \in Ids : j # id => rpcs'[j] = rpcs[j]
    BY DEF Reply, TypeOK
  <2>2. next_rpc_id' = next_rpc_id
    BY DEF Reply
  <2>3. ~(id >= next_rpc_id)
    BY <1>2 DEF Fresh, Unused
  <2> QED
    BY <2>1, <2>2, <2>3 DEF Fresh
<1>6. \A j \in Ids : j # id => Outstanding(j)' = Outstanding(j)
  BY <1>1 DEF Outstanding
<1> QED
  BY <1>3, <1>4, <1>5, <1>6

\* A reply to a request object.
LEMMA ObjectReplyStep ==
  ASSUME RoutingInv, NEW id \in Ids, NEW kind \in Kinds, Reply(id, kind),
         rpcs[id].via \in Objects, ObjectCallback(id, kind)
  PROVE  /\ Fresh' /\ Mapped' /\ Remembered' /\ Asked' /\ Frames' /\ Kept'
         /\ kind \in {"ack", "err"} => /\ Len(stack') = Len(stack) + 1
                                       /\ Last(stack').op = "handler" /\ Last(stack').rpc = id
<1> USE DEF RoutingInv
<1> DEFINE f == [op |-> "handler", rpc |-> id, kind |-> kind, reg |-> 0, shown |-> NoId]
<1>1. /\ Moved
      /\ \A j \in Ids : j # id => rpcs'[j].state = rpcs[j].state
      /\ kind = "sig" => rpcs'[id].state = rpcs[id].state
      /\ kind = "fin" => rpcs'[id].state = "ended"
      /\ kind \in {"ack", "err"} => rpcs'[id].state = "answered"
      /\ Outstanding(id)
  BY ReplyFacts, Zenon
<1>2. /\ Later /\ Fresh'
      /\ \A j \in Ids : j # id => Outstanding(j)' = Outstanding(j)
      /\ rpcs'[id].state # "none"
  BY ReplyLater, Zenon
<1>3. /\ rpcs[id].via \notin Passes /\ rpcs'[id].via = rpcs[id].via
      /\ id \in cbDictionary
  BY <1>1 DEF Moved, Objects, MistObjects, FriendObjects, WldObjects, Passes, Kept
<1>4. UNCHANGED <<cbDictionary, rewrite, registered>>
  BY DEF Reply, ObjectCallback
<1>5. f \in Frame
  BY ConstantsAssumption DEF Frame
<1>6. FrameOk(rpcs', f)
  BY <1>1, <1>2, <1>3 DEF FrameOk
<1>7. /\ f.op = "handler" /\ f.rpc = id /\ f.kind = kind
  OBVIOUS
<1>8. IF kind = "fin" \/ id \notin cbDictionary THEN UNCHANGED stack
      ELSE Push(f)
  BY DEF ObjectCallback
<1> HIDE DEF f
<1>9. /\ Frames'
      /\ DOMAIN stack \subseteq DOMAIN stack' /\ \A i \in DOMAIN stack : stack'[i] = stack[i]
  <2>1. CASE kind = "fin"
    BY <1>2, <1>8, <2>1, CallKeeps, Zenon
  <2>2. CASE kind # "fin"
    <3>1. stack' = Append(stack, f)
      BY <1>3, <1>8, <2>2 DEF Push
    <3> QED
      BY <1>2, <1>5, <1>6, <3>1, PushKeeps, Zenon
  <2> QED
    BY <2>1, <2>2
<1>10. kind \in {"ack", "err"} =>
         /\ Len(stack') \in DOMAIN stack' /\ stack'[Len(stack')] = f
         /\ Len(stack') = Len(stack) + 1 /\ Last(stack') = f
  <2>1. SUFFICES ASSUME kind \in {"ack", "err"}
        PROVE  /\ Len(stack') \in DOMAIN stack' /\ stack'[Len(stack')] = f
               /\ Len(stack') = Len(stack) + 1 /\ Last(stack') = f
    OBVIOUS
  <2>2. stack' = Append(stack, f)
    BY <1>3, <1>8, <2>1 DEF Push
  <2> QED
    BY <1>2, <1>5, <1>6, <2>2, PushKeeps, Zenon
<1>11. Mapped' /\ Remembered' /\ Asked'
  BY <1>1, <1>2, <1>3, <1>4 DEF Mapped, Remembered, Asked, Moved
<1>12. Kept'
  <2>1. ASSUME NEW j \in Ids, rpcs'[j].via \in Objects, j # id
        PROVE  /\ Outstanding(j)' => j \in cbDictionary'
               /\ j \in cbDictionary' /\ rpcs'[j].state = "answered" =>
                    \E i \in DOMAIN stack' : Concludes(i, j)'
    <3>1. rpcs[j].via \in Objects /\ rpcs'[j].state = rpcs[j].state
      BY <1>1, <2>1 DEF Moved
    <3>2. /\ Outstanding(j) => j \in cbDictionary
          /\ j \in cbDictionary /\ rpcs[j].state = "answered" =>
               \E i \in DOMAIN stack : Concludes(i, j)
      BY <3>1, Zenon DEF Kept
    <3>3. cbDictionary' = cbDictionary
      BY <1>4
    <3> QED
      BY <1>2, <1>9, <2>1, <3>1, <3>2, <3>3, StillConcludes, Zenon
  <2>2. Outstanding(id)' => id \in cbDictionary'
    BY <1>3, <1>4
  <2>3. rpcs'[id].state = "answered" => \E i \in DOMAIN stack' : Concludes(i, id)'
    <3>1. SUFFICES ASSUME rpcs'[id].state = "answered"
          PROVE  \E i \in DOMAIN stack' : Concludes(i, id)'
      OBVIOUS
    <3>2. kind \in {"ack", "err"}
      BY <1>1, <3>1 DEF Kinds, Outstanding
    <3>3. /\ stack'[Len(stack')].op = "handler" /\ stack'[Len(stack')].rpc = id
          /\ stack'[Len(stack')].kind \in {"ack", "err"} /\ Len(stack') \in DOMAIN stack'
      BY <1>7, <1>10, <3>2
    <3> QED
      BY <3>3, Zenon DEF Concludes
  <2> QED
    BY <2>1, <2>2, <2>3, Zenon DEF Kept
<1> QED
  BY <1>2, <1>7, <1>9, <1>10, <1>11, <1>12

\* A reply to a client's request.
LEMMA PassReplyStep ==
  ASSUME RoutingInv, NEW id \in Ids, NEW kind \in Kinds, Reply(id, kind),
         NEW via \in Passes, rpcs[id].via = via, PassCallback(via, id, kind)
  PROVE  /\ Fresh' /\ Mapped' /\ Remembered' /\ Asked' /\ Frames' /\ Kept'
         /\ rewrite[via][id] # NoId => /\ Len(stack') = Len(stack) + 1
                                       /\ Last(stack').op = "handler" /\ Last(stack').rpc = id
<1> USE DEF RoutingInv
<1> DEFINE shown == IF kind = "fin" THEN id ELSE rewrite[via][id]
           reg == registered[via]
           f == [op |-> "handler", rpc |-> id, kind |-> kind, reg |-> reg, shown |-> shown]
<1>1. /\ Moved
      /\ \A j \in Ids : j # id => rpcs'[j].state = rpcs[j].state
      /\ kind = "sig" => rpcs'[id].state = rpcs[id].state
      /\ kind = "fin" => rpcs'[id].state = "ended"
      /\ kind \in {"ack", "err"} => rpcs'[id].state = "answered"
      /\ Outstanding(id)
  BY ReplyFacts, Zenon
<1>2. /\ Later /\ Fresh'
      /\ \A j \in Ids : j # id => Outstanding(j)' = Outstanding(j)
      /\ rpcs'[id].state # "none"
  BY ReplyLater, Zenon
<1>3. /\ via \notin Objects /\ rpcs'[id].via = via /\ rpcs'[id].reg = rpcs[id].reg
      /\ rpcs'[id].cid = rpcs[id].cid
  BY <1>1 DEF Moved, Objects, MistObjects, FriendObjects, WldObjects, Passes
<1>4. UNCHANGED <<cbDictionary, registered>>
  BY DEF Reply, PassCallback
<1>5. shown \in ClientIds \cup Ids \cup {NoId} /\ reg \in 0 .. MaxRegs
  BY DEF TypeOK
<1>6. rewrite[via][id] # NoId =>
        reg = rpcs'[id].reg /\ (kind # "fin" => shown = rpcs'[id].cid)
  BY <1>3 DEF Mapped
<1>7. IF rewrite[via][id] = NoId THEN UNCHANGED stack ELSE Push(f)
  BY DEF PassCallback
<1>8. \A v \in Passes, j \in Ids : rewrite'[v][j] =
        IF v = via /\ j = id /\ kind # "sig" THEN NoId ELSE rewrite[v][j]
  BY DEF PassCallback, TypeOK
<1> HIDE DEF shown, reg
<1>9. f \in Frame
  BY <1>5 DEF Frame
<1>10. /\ f.op = "handler" /\ f.rpc = id
       /\ rewrite[via][id] # NoId => FrameOk(rpcs', f)
  BY <1>1, <1>2, <1>6 DEF FrameOk
<1> HIDE DEF f
<1>11. CASE rewrite[via][id] = NoId
  <2>1. UNCHANGED stack
    BY <1>7, <1>11
  <2> QED
    <3>1. /\ Frames'
          /\ DOMAIN stack \subseteq DOMAIN stack' /\ \A i \in DOMAIN stack : stack'[i] = stack[i]
      BY <1>2, <2>1, CallKeeps, Zenon
    <3>2. stack' = stack
      BY <2>1
    <3>3. ~(rpcs[id].reg = registered[via] /\ registered[via] > 0)
      BY <1>1, <1>11, ClientIdNotNoId DEF Remembered, Asked
    <3>4. Mapped' /\ Remembered' /\ Asked'
      <4>1. Mapped'
        BY <1>1, <1>2, <1>4, <1>8, <1>11 DEF Mapped, Moved
      <4>2. Remembered'
        BY <1>1, <1>2, <1>3, <1>4, <1>8, <3>3 DEF Remembered, Moved
      <4>3. Asked'
        BY <1>1, <1>4 DEF Asked, Moved
      <4> QED
        BY <4>1, <4>2, <4>3
    <3>5. Kept'
      BY <1>1, <1>2, <1>3, <1>4, <3>2 DEF Kept, Concludes, Moved
    <3> QED
      BY <1>2, <1>11, <3>1, <3>4, <3>5
<1>12. CASE rewrite[via][id] # NoId
  <2>1. stack' = Append(stack, f)
    BY <1>7, <1>12 DEF Push
  <2>2. /\ Frames'
        /\ DOMAIN stack \subseteq DOMAIN stack' /\ \A i \in DOMAIN stack : stack'[i] = stack[i]
        /\ Len(stack') \in DOMAIN stack' /\ stack'[Len(stack')] = f
        /\ Len(stack') = Len(stack) + 1 /\ Last(stack') = f
    BY <1>2, <1>9, <1>10, <1>12, <2>1, PushKeeps, Zenon
  <2>3. Mapped'
    <3>1. ASSUME NEW v \in Passes, NEW j \in Ids, rewrite'[v][j] # NoId
          PROVE  /\ rpcs'[j].via = v /\ rpcs'[j].reg = registered'[v] /\ registered'[v] > 0
                 /\ rpcs'[j].cid = rewrite'[v][j] /\ Outstanding(j)'
      <4>1. rewrite[v][j] = rewrite'[v][j]
        BY <1>8, <3>1
      <4>2. /\ rpcs[j].via = v /\ rpcs[j].reg = registered[v] /\ registered[v] > 0
            /\ rpcs[j].cid = rewrite[v][j] /\ Outstanding(j)
        BY <3>1, <4>1, Zenon DEF Mapped
      <4>3. Outstanding(j)'
        <5>1. CASE j # id
          BY <1>2, <4>2, <5>1
        <5>2. CASE j = id
          <6>1. kind = "sig"
            BY <1>8, <3>1, <4>2, <5>2
          <6> QED
            BY <1>1, <5>2, <6>1 DEF Outstanding
        <5> QED
          BY <5>1, <5>2
      <4> QED
        BY <1>1, <1>4, <4>1, <4>2, <4>3 DEF Moved
    <3> QED
      BY <3>1, Zenon DEF Mapped
  <2>4. Remembered'
    <3>1. ASSUME NEW v \in Passes, NEW j \in Ids, rpcs'[j].via = v, Outstanding(j)',
                 rpcs'[j].reg = registered'[v], registered'[v] > 0
          PROVE  rewrite'[v][j] = rpcs'[j].cid
      <4>1. rpcs[j].via = v /\ rpcs[j].reg = registered[v] /\ registered[v] > 0
            /\ rpcs'[j].cid = rpcs[j].cid
        BY <1>1, <1>4, <3>1 DEF Moved
      <4>2. CASE j # id
        BY <1>2, <1>8, <3>1, <4>1, <4>2 DEF Remembered
      <4>3. CASE j = id
        <5>1. kind = "sig"
          BY <1>1, <3>1, <4>3 DEF Outstanding, Kinds
        <5> QED
          BY <1>1, <1>8, <4>1, <4>3, <5>1 DEF Remembered
      <4> QED
        BY <4>2, <4>3
    <3> QED
      BY <3>1, Zenon DEF Remembered
  <2>5. Asked'
    BY <1>1, <1>4 DEF Asked, Moved
  <2>6. Kept'
    <3>1. ASSUME NEW j \in Ids, rpcs'[j].via \in Objects
          PROVE  /\ Outstanding(j)' => j \in cbDictionary'
                 /\ j \in cbDictionary' /\ rpcs'[j].state = "answered" =>
                      \E i \in DOMAIN stack' : Concludes(i, j)'
      <4>1. j # id /\ rpcs[j].via \in Objects
        BY <1>1, <1>3, <3>1 DEF Moved
      <4>2. rpcs'[j].state = rpcs[j].state /\ cbDictionary' = cbDictionary
        BY <1>1, <1>4, <4>1
      <4>3. /\ Outstanding(j) => j \in cbDictionary
            /\ j \in cbDictionary /\ rpcs[j].state = "answered" =>
                 \E i \in DOMAIN stack : Concludes(i, j)
        BY <4>1, Zenon DEF Kept
      <4> QED
        BY <1>2, <2>2, <4>1, <4>2, <4>3, StillConcludes, Zenon
    <3> QED
      BY <3>1, Zenon DEF Kept
  <2> QED
    BY <1>2, <1>10, <2>2, <2>3, <2>4, <2>5, <2>6
<1> QED
  BY <1>11, <1>12

\* A call or handler returns; only handlers of last replies forget their object.
LEMMA ReturnStep ==
  ASSUME RoutingInv, HandlerReturns \/ CallReturns
  PROVE  Fresh' /\ Mapped' /\ Remembered' /\ Asked' /\ Frames' /\ Kept'
<1> USE DEF RoutingInv
<1>1. /\ stack # <<>> /\ stack' = Front(stack) /\ Top = Last(stack)
      /\ UNCHANGED <<next_rpc_id, rewrite, registered, rpcs>>
  BY DEF HandlerReturns, CallReturns, Top
<1>2. /\ Last(stack) \in Frame /\ Last(stack) = stack[Len(stack)] /\ Len(stack) \in DOMAIN stack
      /\ DOMAIN stack' = DOMAIN stack \ {Len(stack)}
      /\ \A i \in DOMAIN stack' : stack'[i] = stack[i]
  <2>1. stack \in Seq(Frame)
    BY DEF TypeOK
  <2> QED
    BY <1>1, <2>1, PopFrame
<1>3. Fresh' /\ Mapped' /\ Remembered' /\ Asked'
  BY <1>1 DEF Fresh, Mapped, Remembered, Asked, Outstanding
<1>4. Frames'
  BY <1>1, <1>2 DEF Frames
<1>5. cbDictionary' = IF Top.op = "handler" /\ Top.kind \in {"ack", "err"}
                      THEN cbDictionary \ {Top.rpc} ELSE cbDictionary
  BY DEF HandlerReturns, CallReturns
<1>6. Kept'
  <2>1. ASSUME NEW j \in Ids, rpcs[j].via \in Objects, Outstanding(j)
        PROVE  j \in cbDictionary'
    <3>1. j \in cbDictionary
      BY <2>1 DEF Kept
    <3>2. ~(Top.op = "handler" /\ Top.kind \in {"ack", "err"} /\ Top.rpc = j)
      <4>1. FrameOk(rpcs, Top)
        BY <1>1, <1>2, Zenon DEF Frames
      <4> QED
        BY <2>1, <4>1 DEF FrameOk, Outstanding
    <3> QED
      BY <1>5, <3>1, <3>2
  <2>2. ASSUME NEW j \in Ids, rpcs[j].via \in Objects, j \in cbDictionary',
               rpcs[j].state = "answered"
        PROVE  \E i \in DOMAIN stack' : Concludes(i, j)'
    <3>1. j \in cbDictionary
      BY <1>5, <2>2
    <3>2. PICK i \in DOMAIN stack : Concludes(i, j)
      BY <2>2, <3>1 DEF Kept
    <3>3. i # Len(stack)
      BY <1>1, <1>2, <1>5, <2>2, <3>2 DEF Concludes
    <3>4. i \in DOMAIN stack' /\ stack'[i] = stack[i]
      BY <1>2, <3>2, <3>3
    <3> QED
      BY <3>2, <3>4, Zenon DEF Concludes
  <2>3. \A j \in Ids : Outstanding(j)' = Outstanding(j) /\ rpcs'[j] = rpcs[j]
    BY <1>1 DEF Outstanding
  <2> QED
    BY <2>1, <2>2, <2>3, Zenon DEF Kept
<1> QED
  BY <1>3, <1>4, <1>6

LEMMA RoutingStep == RoutingInv /\ [Next]_vars => RoutingInv'
<1> SUFFICES ASSUME RoutingInv, [Next]_vars PROVE RoutingInv'
  OBVIOUS
<1>1. TypeOK'
  BY TypeStep DEF RoutingInv
<1> SUFFICES Fresh' /\ Mapped' /\ Remembered' /\ Asked' /\ Frames' /\ Kept'
  BY <1>1 DEF RoutingInv
<1>2. CASE UNCHANGED vars
  BY <1>2 DEF vars, RoutingInv, Fresh, Mapped, Remembered, Asked, Frames, Kept, Outstanding,
              Concludes
<1>3. ASSUME NEW via \in Passes, NEW cid \in ClientIds, NEW found, EndOneOf(via, found, cid),
             UNCHANGED <<next_rpc_id, cbDictionary, rewrite, registered>>
      PROVE  Fresh' /\ Mapped' /\ Remembered' /\ Asked' /\ Frames' /\ Kept'
  <2>1. \E targets : EndRpcs(CancelApi(via), targets, Meant(via, cid))
    BY <1>3, Zenon DEF EndOneOf
  <2>2. UNCHANGED stack \/ Call(CancelApi(via))
    BY <1>3, Zenon DEF EndOneOf
  <2> QED
    BY <1>3, <2>1, <2>2, EndStep, Zenon
<1>4. ASSUME NEW cid \in ClientIds, MistEnd(cid) \/ WishEnd(cid) \/ SandboxEnd(cid)
      PROVE  Fresh' /\ Mapped' /\ Remembered' /\ Asked' /\ Frames' /\ Kept'
  BY <1>3, <1>4 DEF MistEnd, WishEnd, SandboxEnd, Passes
<1>5. ASSUME NEW id \in Ids, ObjectCancel(id)
      PROVE  Fresh' /\ Mapped' /\ Remembered' /\ Asked' /\ Frames' /\ Kept'
  BY <1>5, EndStep, Zenon DEF ObjectCancel
<1>6. ASSUME NEW id \in Ids, NEW kind \in Kinds, Reply(id, kind)
      PROVE  Fresh' /\ Mapped' /\ Remembered' /\ Asked' /\ Frames' /\ Kept'
  <2>1. CASE rpcs[id].via \in Objects /\ ObjectCallback(id, kind)
    BY <1>6, <2>1, ObjectReplyStep, Zenon
  <2>2. ASSUME NEW via \in Passes, rpcs[id].via = via, PassCallback(via, id, kind)
        PROVE  Fresh' /\ Mapped' /\ Remembered' /\ Asked' /\ Frames' /\ Kept'
    BY <1>6, <2>2, PassReplyStep, Zenon
  <2> QED
    BY <1>6, <2>1, <2>2 DEF Reply, SandboxCallback, Passes
<1>7. CASE HandlerReturns \/ CallReturns
  BY <1>7, ReturnStep
<1>8. ASSUME NEW cid \in ClientIds, MistRequest(cid) \/ WishRequest(cid) \/ SandboxRequest(cid)
      PROVE  Fresh' /\ Mapped' /\ Remembered' /\ Asked' /\ Frames' /\ Kept'
  BY <1>8, PassRequestStep DEF MistRequest, WishRequest, SandboxRequest, Passes
<1>9. CASE SetMistApiCallback \/ SetWishApiCallback \/ NewSandbox
  BY <1>9, SetCallbackStep DEF SetMistApiCallback, SetWishApiCallback, NewSandbox, Passes
<1> QED
  BY <1>2, <1>4, <1>5, <1>6, <1>7, <1>8, <1>9, SpendIdStep, ObjectRequestStep, Zenon DEF Next

LEMMA InitTypes == Init => TypeOK
<1> SUFFICES ASSUME Init PROVE TypeOK
  OBVIOUS
<1>1. Unused \in Rpc
  BY ConstantsAssumption DEF Unused, Rpc, States
<1>2. rewrite \in [Passes -> [Ids -> ClientIds \cup {NoId}]]
  BY DEF Init, EmptyDict
<1>3. registered \in [Passes -> 0 .. MaxRegs] /\ next_rpc_id \in 1 .. MaxRpcs + 1
  BY ConstantsAssumption DEF Init
<1>4. stack \in Seq(Frame) /\ Len(stack) <= MaxDepth
  BY ConstantsAssumption DEF Init
<1> QED
  BY <1>1, <1>2, <1>3, <1>4 DEF Init, TypeOK

LEMMA InitRouting == Init => RoutingInv
<1> SUFFICES ASSUME Init PROVE RoutingInv
  OBVIOUS
<1>1. /\ \A id \in Ids : rpcs[id] = Unused
      /\ \A via \in Passes, id \in Ids : rewrite[via][id] = NoId
      /\ DOMAIN stack = {}
  BY DEF Init, EmptyDict
<1>2. Unused.via \notin Vias /\ Unused.state = "none"
  BY DEF Unused, Vias, Objects, MistObjects, FriendObjects, WldObjects, Passes
<1>3. Passes \subseteq Vias /\ Objects \subseteq Vias
  BY DEF Vias
<1>4. \A id \in Ids : rpcs[id].via \notin Passes /\ rpcs[id].via \notin Objects
  BY <1>1, <1>2, <1>3
<1>5. Fresh /\ Mapped
  BY <1>1 DEF Fresh, Mapped
<1>6. Remembered /\ Asked /\ Kept
  BY <1>4, Zenon DEF Remembered, Asked, Kept
<1>7. Frames
  BY <1>1 DEF Frames
<1> QED
  BY <1>5, <1>6, <1>7, InitTypes DEF RoutingInv

LEMMA RoutingInvariant == Spec => []RoutingInv
  BY InitRouting, RoutingStep, PTL DEF Spec

-----------------------------------------------------------------------------
(* Theorems.                                                                 *)

\* The type invariant of the run, for every value of the constants.
THEOREM TypeCorrect == Spec => []TypeOK
<1>1. RoutingInv => TypeOK
  BY DEF RoutingInv
<1> QED
  BY <1>1, RoutingInvariant, PTL

\* Every handler of a pass-through client that runs was started for a request the
\* client made under the callback set when the reply came, with the client's own
\* id: generic_callback of PassthroughRequest.m and Sandbox.m.
THEOREM RepliesMatch == Spec => []AnswersMatch
<1>1. RoutingInv => AnswersMatch
  <2>1. SUFFICES ASSUME RoutingInv, NEW i \in DOMAIN stack,
                        stack[i].op = "handler" /\ rpcs[stack[i].rpc].via \in Passes
                 PROVE  /\ stack[i].reg = rpcs[stack[i].rpc].reg
                        /\ stack[i].kind # "fin" => stack[i].shown = rpcs[stack[i].rpc].cid
    BY DEF AnswersMatch
  <2> QED
    BY <2>1, Zenon DEF RoutingInv, Frames, FrameOk
<1> QED
  BY <1>1, RoutingInvariant, PTL

\* What the dictionaries of PassthroughRequest.m and Sandbox.m hold belongs to
\* unanswered requests of the callback set now.
THEOREM MappingsAreCurrent == Spec => []MappingsCurrent
<1>1. RoutingInv => MappingsCurrent
  BY DEF RoutingInv, Mapped, MappingsCurrent
<1> QED
  BY <1>1, RoutingInvariant, PTL

\* cbDictionary of MistApi.m keeps a request object until its last reply's handler
\* has run, and no longer.
THEOREM ObjectsAreKept == Spec => []ObjectsKeptWhileAsked
<1>1. RoutingInv => ObjectsKeptWhileAsked
  <2>1. SUFFICES ASSUME RoutingInv, NEW id \in Ids, rpcs[id].via \in Objects
        PROVE  /\ Outstanding(id) => id \in cbDictionary
               /\ id \in cbDictionary /\ rpcs[id].state = "answered" =>
                    \E i \in DOMAIN stack : stack[i].op = "handler" /\ stack[i].rpc = id
    BY DEF ObjectsKeptWhileAsked
  <2> QED
    BY <2>1, Zenon DEF RoutingInv, Kept, Concludes
<1> QED
  BY <1>1, RoutingInvariant, PTL

\* Whatever was requested, cancelled or set in between, nested or not, a last
\* reply finds the one who asked if it is still there.
THEOREM AnswersArrive == Spec => NoAnswerLost
<1> DEFINE Arrives ==
      \A id \in Ids :
        rpcs[id].state # rpcs'[id].state /\ rpcs'[id].state = "answered" /\ Listening(id)
          => /\ Len(stack') = Len(stack) + 1
             /\ Last(stack').op = "handler" /\ Last(stack').rpc = id
<1>1. RoutingInv /\ [Next]_vars => [Arrives]_vars
  <2> SUFFICES ASSUME RoutingInv, Next, NEW id \in Ids, rpcs[id].state # rpcs'[id].state,
                      rpcs'[id].state = "answered", Listening(id)
               PROVE  /\ Len(stack') = Len(stack) + 1
                      /\ Last(stack').op = "handler" /\ Last(stack').rpc = id
    OBVIOUS
  <2>1. ~(UNCHANGED rpcs)
    OBVIOUS
  <2>2. ASSUME NEW api, NEW targets, NEW asked, EndRpcs(api, targets, asked) PROVE FALSE
    <3>1. rpcs'[id].state = IF id \in targets /\ rpcs[id].state = "pending"
                                 /\ Api(rpcs[id].via) = api
                            THEN "ending" ELSE rpcs[id].state
      BY <2>2, EndRpcsFacts, Zenon DEF RoutingInv
    <3> QED
      BY <3>1
  <2>3. ASSUME NEW j \in Ids, NEW via \in Vias, NEW cid \in ClientIds \cup {NoId},
               NEW reg \in 0 .. MaxRegs, Ask(j, via, cid, reg)
        PROVE  FALSE
    <3>1. /\ \A k \in Ids : k # j => rpcs'[k] = rpcs[k]
          /\ rpcs'[j].state = "pending"
      BY <2>3, AskFacts, Zenon DEF RoutingInv
    <3> QED
      BY <3>1
  <2>4. PICK j \in Ids, kind \in Kinds : Reply(j, kind)
    <3>1. ASSUME NEW via \in Passes, NEW cid, NEW found, EndOneOf(via, found, cid) PROVE FALSE
      BY <2>2, <3>1, Zenon DEF EndOneOf
    <3>2. ASSUME NEW cid \in ClientIds, MistEnd(cid) \/ WishEnd(cid) \/ SandboxEnd(cid) PROVE FALSE
      BY <3>1, <3>2 DEF MistEnd, WishEnd, SandboxEnd, Passes
    <3>3. ASSUME NEW via \in Objects, ObjectRequest(via) PROVE FALSE
      <4>1. /\ via \in Vias /\ NoId \in ClientIds \cup {NoId} /\ 0 \in 0 .. MaxRegs
            /\ \E j \in Ids : Ask(j, via, NoId, 0)
        BY <3>3, ConstantsAssumption DEF Vias, ObjectRequest
      <4> QED
        BY <2>3, <4>1, Zenon
    <3>4. ASSUME NEW via \in Passes, NEW cid \in ClientIds, PassRequest(via, cid) PROVE FALSE
      <4>1. /\ via \in Vias /\ cid \in ClientIds \cup {NoId} /\ registered[via] \in 0 .. MaxRegs
            /\ \E j \in Ids : Ask(j, via, cid, registered[via])
        BY <3>4 DEF Vias, PassRequest, RoutingInv, TypeOK
      <4> QED
        BY <2>3, <4>1, Zenon
    <3>5. ASSUME NEW cid \in ClientIds, MistRequest(cid) \/ WishRequest(cid) \/ SandboxRequest(cid)
          PROVE  FALSE
      BY <3>4, <3>5 DEF MistRequest, WishRequest, SandboxRequest, Passes
    <3>6. ASSUME NEW j \in Ids, ObjectCancel(j) PROVE FALSE
      BY <2>2, <3>6, Zenon DEF ObjectCancel
    <3>7. ~(SetMistApiCallback \/ SetWishApiCallback \/ NewSandbox)
      BY <2>1 DEF SetMistApiCallback, SetWishApiCallback, NewSandbox, SetCallback
    <3>8. ~(SpendId \/ Login \/ HandlerReturns \/ CallReturns)
      BY <2>1 DEF SpendId, Login, HandlerReturns, CallReturns
    <3> QED
      BY <3>2, <3>3, <3>5, <3>6, <3>7, <3>8, Zenon DEF Next
  <2>5. /\ \A k \in Ids : k # j => rpcs'[k].state = rpcs[k].state
        /\ kind = "sig" => rpcs'[j].state = rpcs[j].state
        /\ kind = "fin" => rpcs'[j].state = "ended"
        /\ Outstanding(j)
    BY <2>4, ReplyFacts, Zenon DEF RoutingInv
  <2>6. j = id /\ kind \in {"ack", "err"}
    BY <2>5 DEF Kinds
  <2>7. CASE rpcs[id].via \in Objects /\ ObjectCallback(id, kind)
    BY <2>4, <2>6, <2>7, ObjectReplyStep, Zenon
  <2>8. ASSUME NEW via \in Passes, rpcs[id].via = via, PassCallback(via, id, kind)
        PROVE  /\ Len(stack') = Len(stack) + 1
               /\ Last(stack').op = "handler" /\ Last(stack').rpc = id
    <3>1. rpcs[id].reg > 0 /\ rpcs[id].reg = registered[via]
      BY <2>8 DEF Listening, Objects, MistObjects, FriendObjects, WldObjects, Passes
    <3>2. rewrite[via][id] # NoId
      BY <2>5, <2>6, <2>8, <3>1, ClientIdNotNoId DEF RoutingInv, Remembered, Asked
    <3> QED
      BY <2>4, <2>6, <2>8, <3>2, PassReplyStep, Zenon
  <2> QED
    BY <2>4, <2>6, <2>7, <2>8 DEF Reply, SandboxCallback, Passes
<1> QED
  BY <1>1, RoutingInvariant, PTL DEF Spec, NoAnswerLost

-----------------------------------------------------------------------------
(* Ending.                                                                   *)

Endable == {"signals", "identity", "mist"}

\* Only what somebody asked can be meant.
EndedAsked == \A id \in ended : id \in Ids /\ rpcs[id].via # "none"

\* EndsMatch with the three clients as one set of requests.
EndsInv ==
  /\ EndedAsked
  /\ \A id \in Ids : rpcs[id].via \in Endable =>
       /\ id \in ended => \E other \in Ids : SameRequest(id, other) /\ rpcs[other].state # "pending"
       /\ rpcs[id].state = "ending" => id \in ended

LEMMA EndsInvMeaning == EndsInv => EndsMatch
  BY Zenon DEF EndsInv, EndsMatch, EndsReach, Endable

\* Steps that leave the requests and what was ended alone.
LEMMA EndsUntouched == EndsInv /\ UNCHANGED <<rpcs, ended>> => EndsInv'
  BY DEF EndsInv, EndedAsked, SameRequest

\* An end that reaches, of the requests meant, one that stands for each, and none
\* that is not meant.
LEMMA EndsByEnd ==
  ASSUME RoutingInv, EndsInv, NEW api, NEW targets, NEW asked, EndRpcs(api, targets, asked),
         \A id \in targets \cap Ids : rpcs[id].via \in Endable /\ Api(rpcs[id].via) = api => id \in asked,
         \A id \in asked : id \in Ids /\ rpcs[id].via # "none",
         \A id \in asked : rpcs[id].via \in Endable =>
           \E other \in Ids : /\ SameRequest(id, other) /\ other \in targets
                              /\ Api(rpcs[other].via) = api
  PROVE  EndsInv'
<1>1. /\ Moved /\ ended' = ended \cup asked
      /\ \A id \in Ids : rpcs'[id].state =
           IF id \in targets /\ rpcs[id].state = "pending" /\ Api(rpcs[id].via) = api
           THEN "ending" ELSE rpcs[id].state
  BY EndRpcsFacts, Zenon DEF RoutingInv
<1>2. \A id \in Ids : /\ rpcs'[id].via = rpcs[id].via
                      /\ \A other \in Ids : SameRequest(id, other)' <=> SameRequest(id, other)
  BY <1>1 DEF Moved, SameRequest
<1>3. EndedAsked'
  BY <1>1, <1>2 DEF EndsInv, EndedAsked
<1>4. ASSUME NEW id \in Ids, rpcs[id].via \in Endable, id \in ended'
      PROVE  \E other \in Ids : SameRequest(id, other)' /\ rpcs'[other].state # "pending"
  <2>1. CASE id \in ended
    <3>1. PICK other \in Ids : SameRequest(id, other) /\ rpcs[other].state # "pending"
      BY <1>4, <2>1, Zenon DEF EndsInv
    <3>2. rpcs'[other].state # "pending"
      BY <1>1, <3>1
    <3> QED
      BY <1>2, <3>1, <3>2, Zenon
  <2>2. CASE id \in asked
    <3>1. PICK other \in Ids : /\ SameRequest(id, other) /\ other \in targets
                               /\ Api(rpcs[other].via) = api
      BY <1>4, <2>2, Zenon
    <3>2. rpcs'[other].state # "pending"
      BY <1>1, <3>1
    <3> QED
      BY <1>2, <3>1, <3>2, Zenon
  <2> QED
    BY <1>1, <1>4, <2>1, <2>2
<1>5. ASSUME NEW id \in Ids, rpcs[id].via \in Endable, rpcs'[id].state = "ending"
      PROVE  id \in ended'
  <2>1. rpcs[id].state = "ending" => id \in ended
    BY <1>5, Zenon DEF EndsInv
  <2> QED
    BY <1>1, <1>5, <2>1
<1> QED
  BY <1>2, <1>3, <1>4, <1>5, Zenon DEF EndsInv

\* A new request was not ended, and stands for no other.
LEMMA EndsByRequest ==
  ASSUME RoutingInv, EndsInv, NEW id \in Ids, GetNextRpcId(id), NEW via \in Vias,
         NEW cid \in ClientIds \cup {NoId}, NEW reg \in 0 .. MaxRegs, Ask(id, via, cid, reg),
         UNCHANGED ended
  PROVE  EndsInv'
<1>1. next_rpc_id \in Int /\ id = next_rpc_id
  BY ConstantsAssumption DEF GetNextRpcId, Ids
<1>2. rpcs[id].via = "none"
  BY <1>1 DEF RoutingInv, Fresh, Ids, Unused
<1>3. /\ \A j \in Ids : j # id => rpcs'[j] = rpcs[j]
      /\ rpcs'[id].via = via /\ rpcs'[id].state = "pending"
  BY AskFacts, Zenon DEF RoutingInv
<1>4. EndedAsked' /\ id \notin ended
  BY <1>2, <1>3 DEF EndsInv, EndedAsked
<1>5. ASSUME NEW j \in Ids, rpcs'[j].via \in Endable, j \in ended'
      PROVE  \E other \in Ids : SameRequest(j, other)' /\ rpcs'[other].state # "pending"
  <2>1. j # id /\ j \in ended /\ rpcs'[j] = rpcs[j]
    BY <1>3, <1>4, <1>5
  <2>2. PICK other \in Ids : SameRequest(j, other) /\ rpcs[other].state # "pending"
    BY <1>5, <2>1, Zenon DEF EndsInv
  <2>3. other # id
    BY <1>2, <2>1, <2>2 DEF SameRequest, Passes
  <2>4. rpcs'[other] = rpcs[other]
    BY <1>3, <2>3
  <2> QED
    BY <2>1, <2>2, <2>4 DEF SameRequest
<1>6. ASSUME NEW j \in Ids, rpcs'[j].via \in Endable, rpcs'[j].state = "ending"
      PROVE  j \in ended'
  <2>1. j # id /\ rpcs'[j] = rpcs[j]
    BY <1>3, <1>6
  <2> QED
    BY <1>6, <2>1 DEF EndsInv
<1> QED
  BY <1>4, <1>5, <1>6, Zenon DEF EndsInv

\* "end" from a client: the ids found are those meant.
LEMMA EndsByMistEnd ==
  ASSUME RoutingInv, EndsInv, NEW cid \in ClientIds, MistEnd(cid)
  PROVE  EndsInv'
<1> DEFINE found == {id \in Ids : rewrite["mist"][id] = cid}
           meant == Meant("mist", cid)
<1>1. "mist" \in Passes /\ CancelApi("mist") = "mist" /\ Api("mist") = "mist" /\ cid # NoId
  BY ClientIdNotNoId DEF Passes, CancelApi, Api, FriendObjects
<1>2. \A id \in Ids : id \in found <=> id \in meant
  <2>1. ASSUME NEW id \in Ids, id \in found PROVE id \in meant
    BY <1>1, <2>1 DEF RoutingInv, Mapped, Meant, Outstanding
  <2>2. ASSUME NEW id \in Ids, id \in meant PROVE id \in found
    BY <1>1, <2>2 DEF RoutingInv, Remembered, Meant, Outstanding
  <2> QED
    BY <2>1, <2>2
<1>3. EndOneOf("mist", found, cid)
  BY DEF MistEnd
<1>4. /\ meant \subseteq Ids
      /\ \A id \in meant : /\ rpcs[id].via = "mist" /\ rpcs[id].cid = cid
                           /\ rpcs[id].reg = registered["mist"]
  BY DEF Meant
<1>5. found \subseteq Ids
  OBVIOUS
<1> HIDE DEF found, meant
<1>6. CASE found = {}
  <2>1. meant = {}
    BY <1>2, <1>4, <1>6
  <2>2. EndRpcs("mist", {}, {})
    <3>1. EndRpcs(CancelApi("mist"), {}, Meant("mist", cid))
      BY <1>3, <1>6, Zenon DEF EndOneOf
    <3> QED
      BY <1>1, <2>1, <3>1 DEF meant
  <2> QED
    BY <2>2, EndsByEnd
<1>7. CASE found # {}
  <2>1. PICK id \in found : EndRpcs(CancelApi("mist"), {id}, Meant("mist", cid))
    BY <1>3, <1>7, Zenon DEF EndOneOf
  <2>2. EndRpcs("mist", {id}, meant)
    BY <1>1, <2>1 DEF meant
  <2>3. id \in Ids /\ id \in meant
    BY <1>2, <1>5, <2>1
  <2>4. \A j \in meant : SameRequest(j, id)
    BY <1>1, <1>4, <2>3 DEF SameRequest
  <2>5. Api(rpcs[id].via) = "mist"
    BY <1>1, <1>4, <2>3
  <2>6. \A j \in meant : j \in Ids /\ rpcs[j].via # "none"
    BY <1>4
  <2>7. \A j \in meant : rpcs[j].via \in Endable =>
          \E other \in Ids : /\ SameRequest(j, other) /\ other \in {id}
                             /\ Api(rpcs[other].via) = "mist"
    BY <2>3, <2>4, <2>5
  <2>8. \A j \in {id} \cap Ids : rpcs[j].via \in Endable /\ Api(rpcs[j].via) = "mist" => j \in meant
    BY <2>3
  <2> QED
    BY <2>2, <2>6, <2>7, <2>8, EndsByEnd, Zenon
<1> QED
  BY <1>6, <1>7

\* WishEnd and SandboxEnd reach requests of their own clients only, if any.
LEMMA EndsByOtherEnd ==
  ASSUME RoutingInv, EndsInv, NEW cid \in ClientIds, WishEnd(cid) \/ SandboxEnd(cid)
  PROVE  EndsInv'
<1>1. ASSUME NEW via \in {"wish", "sandbox"}, NEW targets,
             EndRpcs(CancelApi(via), targets, Meant(via, cid)),
             \A id \in targets \cap Ids : rpcs[id].via = via
      PROVE  EndsInv'
  <2>1. via \notin Endable /\ via # "none"
    BY DEF Endable
  <2>2. \A id \in Meant(via, cid) : id \in Ids /\ rpcs[id].via = via
    BY DEF Meant
  <2>3. \A id \in Meant(via, cid) : rpcs[id].via \in Endable =>
          \E other \in Ids : /\ SameRequest(id, other) /\ other \in targets
                             /\ Api(rpcs[other].via) = CancelApi(via)
    BY <2>1, <2>2
  <2>4. \A id \in Meant(via, cid) : id \in Ids /\ rpcs[id].via # "none"
    BY <2>1, <2>2
  <2>5. \A id \in targets \cap Ids :
          rpcs[id].via \in Endable /\ Api(rpcs[id].via) = CancelApi(via) => id \in Meant(via, cid)
    BY <1>1, <2>1
  <2> QED
    BY <1>1, <2>3, <2>4, <2>5, EndsByEnd, Zenon
<1>2. CASE SandboxEnd(cid)
  <2>1. EndRpcs(CancelApi("sandbox"), {}, Meant("sandbox", cid))
    BY <1>2, Zenon DEF SandboxEnd, EndOneOf
  <2> QED
    BY <1>1, <2>1
<1>3. CASE WishEnd(cid)
  <2> DEFINE found == {id \in Ids : /\ rewrite["wish"][id] # NoId
                                    /\ IntValue(rewrite["mist"][id]) = cid}
  <2>1. EndOneOf("wish", found, cid)
    BY <1>3 DEF WishEnd
  <2>2. \A id \in found : id \in Ids /\ rpcs[id].via = "wish"
    BY DEF RoutingInv, Mapped, Passes
  <2> HIDE DEF found
  <2>3. CASE EndRpcs(CancelApi("wish"), {}, Meant("wish", cid))
    BY <1>1, <2>3
  <2>4. ASSUME NEW id \in found, EndRpcs(CancelApi("wish"), {id}, Meant("wish", cid)) PROVE EndsInv'
    BY <1>1, <2>2, <2>4
  <2> QED
    BY <2>1, <2>3, <2>4, Zenon DEF EndOneOf
<1> QED
  BY <1>2, <1>3

LEMMA EndsByCancel ==
  ASSUME RoutingInv, EndsInv, NEW id \in Ids, ObjectCancel(id)
  PROVE  EndsInv'
<1>1. EndRpcs(CancelApi(rpcs[id].via), {id}, {id}) /\ rpcs[id].via \in Objects
  BY DEF ObjectCancel
<1>2. /\ rpcs[id].via # "none"
      /\ rpcs[id].via \in Endable => Api(rpcs[id].via) = CancelApi(rpcs[id].via)
  BY <1>1 DEF Objects, MistObjects, FriendObjects, WldObjects, Endable, Api, CancelApi
<1>3. SameRequest(id, id)
  BY DEF SameRequest
<1>4. \A j \in {id} : rpcs[j].via \in Endable =>
        \E other \in Ids : /\ SameRequest(j, other) /\ other \in {id}
                           /\ Api(rpcs[other].via) = CancelApi(rpcs[id].via)
  BY <1>2, <1>3
<1>5. \A j \in {id} : j \in Ids /\ rpcs[j].via # "none"
  BY <1>2
<1>6. \A j \in {id} \cap Ids : rpcs[j].via \in Endable /\ Api(rpcs[j].via) = CancelApi(rpcs[id].via)
        => j \in {id}
  OBVIOUS
<1> QED
  BY <1>1, <1>4, <1>5, <1>6, EndsByEnd, Zenon

\* A reply to a request that is being ended does not make it wait again.
LEMMA EndsByReply ==
  ASSUME RoutingInv, EndsInv, NEW id \in Ids, NEW kind \in Kinds, Reply(id, kind)
  PROVE  EndsInv'
<1>1. /\ Moved
      /\ \A j \in Ids : j # id => rpcs'[j].state = rpcs[j].state
      /\ kind = "sig" => rpcs'[id].state = rpcs[id].state
      /\ kind = "fin" => rpcs'[id].state = "ended"
      /\ kind \in {"ack", "err"} => rpcs'[id].state = "answered"
  BY ReplyFacts, Zenon DEF RoutingInv
<1>2. ended' = ended
  BY DEF Reply
<1>3. \A j \in Ids : /\ rpcs[j].state # "pending" => rpcs'[j].state # "pending"
                     /\ rpcs'[j].state = "ending" => rpcs[j].state = "ending"
  BY <1>1 DEF Kinds
<1>4. \A j \in Ids : /\ rpcs'[j].via = rpcs[j].via
                     /\ \A other \in Ids : SameRequest(j, other)' <=> SameRequest(j, other)
  BY <1>1 DEF Moved, SameRequest
<1>5. EndedAsked'
  BY <1>2, <1>4 DEF EndsInv, EndedAsked
<1>6. ASSUME NEW j \in Ids, rpcs[j].via \in Endable, j \in ended
      PROVE  \E other \in Ids : SameRequest(j, other)' /\ rpcs'[other].state # "pending"
  <2>1. PICK other \in Ids : SameRequest(j, other) /\ rpcs[other].state # "pending"
    BY <1>6, Zenon DEF EndsInv
  <2> QED
    BY <1>3, <1>4, <2>1, Zenon
<1>7. ASSUME NEW j \in Ids, rpcs[j].via \in Endable, rpcs'[j].state = "ending"
      PROVE  j \in ended
  BY <1>3, <1>7, Zenon DEF EndsInv
<1> QED
  BY <1>2, <1>4, <1>5, <1>6, <1>7 DEF EndsInv

LEMMA EndsStep == RoutingInv /\ EndsInv /\ [Next]_vars => EndsInv'
<1> SUFFICES ASSUME RoutingInv, EndsInv, [Next]_vars PROVE EndsInv'
  OBVIOUS
<1>1. CASE UNCHANGED <<rpcs, ended>>
  BY <1>1, EndsUntouched
<1>2. CASE UNCHANGED vars \/ SpendId \/ Login \/ HandlerReturns \/ CallReturns
  BY <1>1, <1>2 DEF vars, SpendId, Login, HandlerReturns, CallReturns
<1>3. CASE SetMistApiCallback \/ SetWishApiCallback \/ NewSandbox
  BY <1>1, <1>3 DEF SetMistApiCallback, SetWishApiCallback, NewSandbox, SetCallback
<1>4. ASSUME NEW via \in Objects, ObjectRequest(via) PROVE EndsInv'
  <2>1. PICK id \in Ids : GetNextRpcId(id) /\ Ask(id, via, NoId, 0)
    BY <1>4, Zenon DEF ObjectRequest
  <2>2. via \in Vias /\ NoId \in ClientIds \cup {NoId} /\ 0 \in 0 .. MaxRegs /\ UNCHANGED ended
    BY <1>4, ConstantsAssumption DEF Vias, ObjectRequest
  <2> QED
    BY <2>1, <2>2, EndsByRequest, Zenon
<1>5. ASSUME NEW via \in Passes, NEW cid \in ClientIds, PassRequest(via, cid) PROVE EndsInv'
  <2> DEFINE reg == registered[via]
  <2>1. PICK id \in Ids : GetNextRpcId(id) /\ Ask(id, via, cid, reg)
    BY <1>5, Zenon DEF PassRequest
  <2>2. via \in Vias /\ cid \in ClientIds \cup {NoId} /\ reg \in 0 .. MaxRegs /\ UNCHANGED ended
    BY <1>5 DEF Vias, PassRequest, RoutingInv, TypeOK
  <2> HIDE DEF reg
  <2> QED
    BY <2>1, <2>2, EndsByRequest, Zenon
<1>6. ASSUME NEW cid \in ClientIds, MistRequest(cid) \/ WishRequest(cid) \/ SandboxRequest(cid)
      PROVE  EndsInv'
  BY <1>5, <1>6 DEF MistRequest, WishRequest, SandboxRequest, Passes
<1> QED
  BY <1>2, <1>3, <1>4, <1>6, EndsByMistEnd, EndsByOtherEnd, EndsByCancel, EndsByReply, Zenon
     DEF Next

\* An "end" or -cancel from the Mist pass-through, from Signals and its like and
\* from the friend requests reaches the request it means, and no request of theirs
\* is ended that nobody meant.
THEOREM EndsReachTheirRequest == Spec => []EndsMatch
<1>1. Init => EndsInv
  <2>1. SUFFICES ASSUME Init PROVE EndsInv
    OBVIOUS
  <2>2. ended = {} /\ \A id \in Ids : rpcs[id].via = "none"
    BY <2>1 DEF Init, Unused
  <2>3. "none" \notin Endable
    BY DEF Endable
  <2> QED
    BY <2>2, <2>3 DEF EndsInv, EndedAsked
<1> QED
  BY <1>1, EndsStep, EndsInvMeaning, RoutingInvariant, PTL DEF Spec

-----------------------------------------------------------------------------
(* Ends that reach nothing.                                                  *)

NeverEnded(via) == \A id \in Ids : rpcs[id].via = via => rpcs[id].state \notin {"ending", "ended"}
Unendable(via) == via \in {"wld", "sandbox"} \/ (via = "wish" /\ 0 \notin ClientIds)

\* What is cancelled belongs to another client, or to another API.
LEMMA NeverEndedByEnd ==
  ASSUME RoutingInv, NEW via, NeverEnded(via), NEW api, NEW targets, NEW asked,
         EndRpcs(api, targets, asked),
         \A id \in targets \cap Ids : rpcs[id].via # via \/ Api(rpcs[id].via) # api
  PROVE  NeverEnded(via)'
<1>1. /\ Moved
      /\ \A id \in Ids : rpcs'[id].state =
           IF id \in targets /\ rpcs[id].state = "pending" /\ Api(rpcs[id].via) = api
           THEN "ending" ELSE rpcs[id].state
  BY EndRpcsFacts, Zenon DEF RoutingInv
<1> QED
  BY <1>1 DEF Moved, NeverEnded

LEMMA NeverEndedByRequest ==
  ASSUME RoutingInv, NEW via, NeverEnded(via), NEW id \in Ids, NEW by \in Vias,
         NEW cid \in ClientIds \cup {NoId}, NEW reg \in 0 .. MaxRegs, Ask(id, by, cid, reg)
  PROVE  NeverEnded(via)'
<1>1. /\ \A j \in Ids : j # id => rpcs'[j] = rpcs[j]
      /\ rpcs'[id].state = "pending"
  BY AskFacts, Zenon DEF RoutingInv
<1> QED
  BY <1>1 DEF NeverEnded

LEMMA NeverEndedByReply ==
  ASSUME RoutingInv, NEW via, NeverEnded(via), NEW id \in Ids, NEW kind \in Kinds, Reply(id, kind)
  PROVE  NeverEnded(via)'
<1>1. /\ Moved
      /\ \A j \in Ids : j # id => rpcs'[j].state = rpcs[j].state
      /\ kind = "sig" => rpcs'[id].state = rpcs[id].state
      /\ kind = "fin" => rpcs'[id].state = "ended"
      /\ kind \in {"ack", "err"} => rpcs'[id].state = "answered"
  BY ReplyFacts, Zenon DEF RoutingInv
<1>2. kind = "fin" => rpcs[id].state = "ending"
  BY DEF Reply
<1> QED
  BY <1>1, <1>2 DEF NeverEnded, Moved, Kinds

\* Every step keeps it.
LEMMA NeverEndedStep ==
  ASSUME NEW via, Unendable(via), RoutingInv, NeverEnded(via), [Next]_vars
  PROVE  NeverEnded(via)'
<1>1. CASE UNCHANGED rpcs
  BY <1>1 DEF NeverEnded
<1>2. CASE UNCHANGED vars \/ SpendId \/ Login \/ HandlerReturns \/ CallReturns
  BY <1>1, <1>2 DEF vars, SpendId, Login, HandlerReturns, CallReturns
<1>3. CASE SetMistApiCallback \/ SetWishApiCallback \/ NewSandbox
  BY <1>1, <1>3 DEF SetMistApiCallback, SetWishApiCallback, NewSandbox, SetCallback
<1>4. ASSUME NEW by \in Objects, ObjectRequest(by) PROVE NeverEnded(via)'
  <2>1. PICK id \in Ids : Ask(id, by, NoId, 0)
    BY <1>4, Zenon DEF ObjectRequest
  <2>2. by \in Vias /\ NoId \in ClientIds \cup {NoId} /\ 0 \in 0 .. MaxRegs
    BY <1>4, ConstantsAssumption DEF Vias
  <2> QED
    BY <2>1, <2>2, NeverEndedByRequest, Zenon
<1>5. ASSUME NEW by \in Passes, NEW cid \in ClientIds, PassRequest(by, cid)
      PROVE  NeverEnded(via)'
  <2> DEFINE reg == registered[by]
  <2>1. PICK id \in Ids : Ask(id, by, cid, reg)
    BY <1>5, Zenon DEF PassRequest
  <2>2. by \in Vias /\ cid \in ClientIds \cup {NoId} /\ reg \in 0 .. MaxRegs
    BY <1>5 DEF Vias, RoutingInv, TypeOK
  <2> HIDE DEF reg
  <2> QED
    BY <2>1, <2>2, NeverEndedByRequest, Zenon
<1>6. ASSUME NEW cid \in ClientIds, MistRequest(cid) \/ WishRequest(cid) \/ SandboxRequest(cid)
      PROVE  NeverEnded(via)'
  BY <1>5, <1>6 DEF MistRequest, WishRequest, SandboxRequest, Passes
<1>7. ASSUME NEW by, NEW found \in SUBSET Ids, NEW cid, EndOneOf(by, found, cid),
             \A id \in found : rpcs[id].via # via
      PROVE  NeverEnded(via)'
  <2>1. CASE EndRpcs(CancelApi(by), {}, Meant(by, cid))
    BY <2>1, NeverEndedByEnd
  <2>2. ASSUME NEW id \in found, EndRpcs(CancelApi(by), {id}, Meant(by, cid))
        PROVE  NeverEnded(via)'
    BY <1>7, <2>2, NeverEndedByEnd
  <2> QED
    BY <1>7, <2>1, <2>2, Zenon DEF EndOneOf
<1>8. ASSUME NEW cid \in ClientIds, MistEnd(cid) PROVE NeverEnded(via)'
  <2> DEFINE found == {id \in Ids : rewrite["mist"][id] = cid}
  <2>1. EndOneOf("mist", found, cid)
    BY <1>8 DEF MistEnd
  <2>2. \A id \in found : rpcs[id].via # via
    BY ClientIdNotNoId DEF RoutingInv, Mapped, Passes, Unendable
  <2>3. found \in SUBSET Ids
    OBVIOUS
  <2> HIDE DEF found
  <2> QED
    BY <1>7, <2>1, <2>2, <2>3
<1>9. ASSUME NEW cid \in ClientIds, WishEnd(cid) PROVE NeverEnded(via)'
  <2> DEFINE found == {id \in Ids : /\ rewrite["wish"][id] # NoId
                                    /\ IntValue(rewrite["mist"][id]) = cid}
  <2>1. EndOneOf("wish", found, cid)
    BY <1>9 DEF WishEnd
  <2>2. ASSUME NEW id \in found PROVE rpcs[id].via # via
    <3>1. rpcs[id].via = "wish"
      BY DEF RoutingInv, Mapped, Passes
    <3>2. rewrite["mist"][id] = NoId
      BY <3>1 DEF RoutingInv, Mapped, Passes
    <3>3. cid = 0
      BY <3>2 DEF IntValue
    <3> QED
      BY <3>1, <3>3 DEF Unendable
  <2>3. found \in SUBSET Ids
    OBVIOUS
  <2> HIDE DEF found
  <2> QED
    BY <1>7, <2>1, <2>2, <2>3
<1>10. ASSUME NEW cid \in ClientIds, SandboxEnd(cid) PROVE NeverEnded(via)'
  BY <1>7, <1>10 DEF SandboxEnd
<1>11. ASSUME NEW id \in Ids, ObjectCancel(id) PROVE NeverEnded(via)'
  <2>1. EndRpcs(CancelApi(rpcs[id].via), {id}, {id}) /\ rpcs[id].via \in Objects
    BY <1>11 DEF ObjectCancel
  <2>2. rpcs[id].via # via \/ Api(rpcs[id].via) # CancelApi(rpcs[id].via)
    BY <2>1 DEF Objects, MistObjects, FriendObjects, WldObjects, Api, CancelApi, Unendable
  <2> QED
    BY <2>1, <2>2, NeverEndedByEnd
<1> QED
  BY <1>2, <1>3, <1>4, <1>6, <1>8, <1>9, <1>10, <1>11, NeverEndedByReply, Zenon DEF Next

\* No request of a sandbox or of WldClear and WldList is ever ended, whatever its
\* client does; and of the Wish pass-through none is, unless its client numbers
\* from 0, the value nil has for intValue.
THEOREM EndsReachNothing ==
  \A via \in Vias : Unendable(via) => (Spec => []NeverEnded(via))
<1> SUFFICES ASSUME NEW via \in Vias, Unendable(via) PROVE Spec => []NeverEnded(via)
  OBVIOUS
<1>1. Init => NeverEnded(via)
  BY DEF Init, Unused, NeverEnded
<1>2. RoutingInv /\ NeverEnded(via) /\ [Next]_vars => NeverEnded(via)'
  BY NeverEndedStep
<1> QED
  BY <1>1, <1>2, RoutingInvariant, PTL DEF Spec
=============================================================================
