-------------------------- MODULE RpcDirect_proofs ---------------------------
(* RpcRouting implements DirectRpc: the ids, cbDictionary and the rewrite     *)
(* dictionaries together know who asked.                                      *)
EXTENDS RpcRouting_proofs

-----------------------------------------------------------------------------
(* The two specifications name the same clients, requests and calls.         *)

LEMMA SameClients ==
  /\ Direct!Ids = Ids /\ Direct!NoId = NoId /\ Direct!Unused = Unused /\ Direct!Kinds = Kinds
  /\ Direct!Objects = Objects /\ Direct!Passes = Passes
  /\ \A via : Direct!Api(via) = Api(via) /\ Direct!CancelApi(via) = CancelApi(via)
  BY DEF Direct!Ids, Ids, Direct!NoId, NoId, Direct!Unused, Unused, Direct!Kinds, Kinds,
         Direct!Objects, Objects, Direct!MistObjects, MistObjects, Direct!FriendObjects,
         FriendObjects, Direct!WldObjects, WldObjects, Direct!Passes, Passes,
         Direct!Api, Api, Direct!CancelApi, CancelApi

LEMMA SameTop == Direct!Top = Top /\ (Direct!AppRuns <=> AppRuns)
  BY DEF Direct!Top, Top, Direct!Last, Last, Direct!AppRuns, AppRuns

LEMMA SameCall ==
  ASSUME NEW api, Call(api)
  PROVE  Direct!Call(api)
  BY DEF Call, Push, Direct!Call, Direct!Push

LEMMA OutstandingIs == \A id : Direct!Outstanding(id) <=> Outstanding(id)
  BY DEF Direct!Outstanding, Outstanding

\* Who has a mapping under the callback set now is heard for, and the other way round.
LEMMA MappedListens ==
  ASSUME RoutingInv, NEW id \in Ids, rpcs[id].via \in Passes, Outstanding(id)
  PROVE  /\ Direct!Listens(id) <=> rewrite[rpcs[id].via][id] # NoId
         /\ rewrite[rpcs[id].via][id] # NoId =>
              /\ rewrite[rpcs[id].via][id] = rpcs[id].cid
              /\ registered[rpcs[id].via] = rpcs[id].reg
<1> DEFINE via == rpcs[id].via
<1>1. via \notin Objects
  BY DEF Objects, MistObjects, FriendObjects, WldObjects, Passes
<1>2. rewrite[via][id] # NoId =>
        /\ rpcs[id].reg = registered[via] /\ registered[via] > 0
        /\ rewrite[via][id] = rpcs[id].cid
  BY DEF RoutingInv, Mapped
<1>3. rpcs[id].reg = registered[via] /\ registered[via] > 0 => rewrite[via][id] = rpcs[id].cid
  BY DEF RoutingInv, Remembered
<1>4. rpcs[id].cid # NoId
  BY ClientIdNotNoId DEF RoutingInv, Asked
<1>5. Direct!Listens(id) <=> rpcs[id].reg = registered[via] /\ registered[via] > 0
  <2>1. Direct!Listens(id) <=> rpcs[id].reg > 0 /\ rpcs[id].reg = registered[via]
    BY <1>1, SameClients DEF Direct!Listens
  <2> QED
    BY <2>1
<1> QED
  BY <1>2, <1>3, <1>4, <1>5

-----------------------------------------------------------------------------
(* Each step is one of DirectRpc, or none.                                   *)

Same == UNCHANGED <<rpcs, registered, stack>>

LEMMA AskDirect ==
  ASSUME RoutingInv, AppRuns, NEW id \in Ids, GetNextRpcId(id), NEW via, NEW cid, NEW reg,
         Ask(id, via, cid, reg), Call(Api(via)), UNCHANGED registered
  PROVE  Direct!Ask(via, cid, reg)
<1>1. rpcs[id] = Unused
  BY DEF RoutingInv, Fresh, GetNextRpcId, TypeOK, Ids
<1>2. Direct!Call(Direct!Api(via))
  BY SameCall, SameClients, Zenon
<1>3. rpcs' = [rpcs EXCEPT ![id] = [via |-> via, cid |-> cid, reg |-> reg, state |-> "pending"]]
  BY DEF Ask
<1>4. \E j \in Direct!Ids :
        /\ rpcs[j] = Direct!Unused
        /\ rpcs' = [rpcs EXCEPT ![j] =
                      [via |-> via, cid |-> cid, reg |-> reg, state |-> "pending"]]
  BY <1>1, <1>3, SameClients, Zenon
<1> QED
  BY <1>2, <1>4, SameTop, Zenon DEF Direct!Ask

LEMMA EndNone ==
  ASSUME TypeOK, NEW api, NEW asked, EndRpcs(api, {}, asked)
  PROVE  rpcs' = rpcs
  BY DEF TypeOK, EndRpcs

LEMMA EndDirect ==
  ASSUME RoutingInv, NEW id \in Ids, NEW asked, EndRpcs(CancelApi(rpcs[id].via), {id}, asked),
         Call(CancelApi(rpcs[id].via)), UNCHANGED registered
  PROVE  Direct!End(id)
<1> DEFINE via == rpcs[id].via
           reached == rpcs[id].state = "pending" /\ Api(via) = CancelApi(via)
<1>1. rpcs \in [Ids -> Rpc]
  BY DEF RoutingInv, TypeOK
<1>2. rpcs' = [j \in Ids |->
        IF j = id /\ reached THEN [rpcs[j] EXCEPT !.state = "ending"] ELSE rpcs[j]]
  BY DEF EndRpcs
<1>3. CASE reached
  <2>1. rpcs' = [rpcs EXCEPT ![id].state = "ending"]
    BY <1>1, <1>2, <1>3
  <2> QED
    BY <1>3, <2>1, SameCall, SameClients DEF Direct!End
<1>4. CASE ~reached
  <2>1. rpcs' = rpcs
    BY <1>1, <1>2, <1>4
  <2> QED
    BY <1>4, <2>1, SameCall, SameClients DEF Direct!End
<1> QED
  BY <1>3, <1>4

\* What a pass-through client's end finds are requests it is heard for.
LEMMA FoundDirect ==
  ASSUME RoutingInv, NEW via \in Passes, NEW id \in Ids, rewrite[via][id] # NoId
  PROVE  /\ rpcs[id].via = via /\ Direct!Listens(id) /\ Direct!Outstanding(id)
         /\ rpcs[id].cid = rewrite[via][id]
<1>1. rpcs[id].via = via /\ Outstanding(id) /\ rpcs[id].cid = rewrite[via][id]
  BY DEF RoutingInv, Mapped
<1> QED
  BY <1>1, MappedListens, OutstandingIs, Zenon

LEMMA MistEndDirect ==
  ASSUME RoutingInv, NEW cid \in ClientIds, MistEnd(cid)
  PROVE  Direct!MistEnd(cid) \/ Same
<1> DEFINE found == {id \in Ids : rewrite["mist"][id] = cid}
<1>1. AppRuns /\ EndOneOf("mist", found, cid) /\ UNCHANGED registered
  BY DEF MistEnd
<1>2. "mist" \in Passes /\ found \subseteq Ids /\ \A id \in found : rewrite["mist"][id] = cid
  BY DEF Passes
<1> HIDE DEF found
<1>3. CASE found = {}
  <2>1. EndRpcs(CancelApi("mist"), {}, Meant("mist", cid)) /\ UNCHANGED stack
    BY <1>1, <1>3, Zenon DEF EndOneOf
  <2> QED
    BY <1>1, <2>1, EndNone DEF RoutingInv, Same
<1>4. CASE found # {}
  <2>1. PICK id \in found : /\ EndRpcs(CancelApi("mist"), {id}, Meant("mist", cid))
                            /\ Call(CancelApi("mist"))
    BY <1>1, <1>4, Zenon DEF EndOneOf
  <2>2. /\ id \in Ids /\ rpcs[id].via = "mist" /\ rpcs[id].cid = cid
        /\ Direct!Listens(id) /\ Direct!Outstanding(id)
    BY <1>2, <2>1, FoundDirect, ClientIdNotNoId
  <2>3. Direct!End(id)
    BY <1>1, <2>1, <2>2, EndDirect
  <2> QED
    BY <1>1, <2>2, <2>3, SameTop, SameClients, Zenon DEF Direct!MistEnd
<1> QED
  BY <1>3, <1>4

LEMMA WishEndDirect ==
  ASSUME RoutingInv, NEW cid \in ClientIds, WishEnd(cid)
  PROVE  Direct!WishEnd \/ Same
<1> DEFINE found == {id \in Ids : rewrite["wish"][id] # NoId
                                     /\ IntValue(rewrite["mist"][id]) = cid}
<1>1. AppRuns /\ EndOneOf("wish", found, cid) /\ UNCHANGED registered
  BY DEF WishEnd
<1>2. "wish" \in Passes /\ found \subseteq Ids /\ \A id \in found : rewrite["wish"][id] # NoId
  BY DEF Passes
<1> HIDE DEF found
<1>3. CASE found = {}
  <2>1. EndRpcs(CancelApi("wish"), {}, Meant("wish", cid)) /\ UNCHANGED stack
    BY <1>1, <1>3, Zenon DEF EndOneOf
  <2> QED
    BY <1>1, <2>1, EndNone DEF RoutingInv, Same
<1>4. CASE found # {}
  <2>1. PICK id \in found : /\ EndRpcs(CancelApi("wish"), {id}, Meant("wish", cid))
                            /\ Call(CancelApi("wish"))
    BY <1>1, <1>4, Zenon DEF EndOneOf
  <2>2. id \in Ids /\ rpcs[id].via = "wish" /\ Direct!Listens(id) /\ Direct!Outstanding(id)
    BY <1>2, <2>1, FoundDirect
  <2>3. Direct!End(id)
    BY <1>1, <2>1, <2>2, EndDirect
  <2> QED
    BY <1>1, <2>2, <2>3, SameTop, SameClients, Zenon DEF Direct!WishEnd
<1> QED
  BY <1>3, <1>4

LEMMA CancelDirect ==
  ASSUME RoutingInv, NEW id \in Ids, ObjectCancel(id)
  PROVE  Direct!ObjectEnd(id)
<1>1. /\ AppRuns /\ rpcs[id].via \in Objects /\ UNCHANGED registered
      /\ EndRpcs(CancelApi(rpcs[id].via), {id}, {id}) /\ Call(CancelApi(rpcs[id].via))
  BY DEF ObjectCancel
<1> QED
  BY <1>1, EndDirect, SameTop, SameClients, Zenon DEF Direct!ObjectEnd

\* The guard and the new state of a reply are the same in both.
LEMMA ReplyState ==
  ASSUME NEW id \in Ids, NEW kind \in Kinds, Reply(id, kind)
  PROVE  /\ Direct!Top.op = "runLoop" \/ (Direct!Top.op = "call" /\ Direct!Api(rpcs[id].via) = "mist")
         /\ rpcs[id].state = "ending" \/ (rpcs[id].state = "pending" /\ kind # "fin")
         /\ rpcs' = [rpcs EXCEPT ![id].state =
                       CASE kind = "sig" -> @ [] kind = "fin" -> "ended" [] OTHER -> "answered"]
         /\ registered' = registered /\ Outstanding(id)
<1>1. Outstanding(id)
  BY DEF Reply, Outstanding
<1> QED
  BY <1>1, SameTop, SameClients, Zenon DEF Reply

LEMMA ReplyDirect ==
  ASSUME RoutingInv, NEW id \in Ids, NEW kind \in Kinds, Reply(id, kind)
  PROVE  Direct!Reply(id, kind)
<1>1. Outstanding(id)
  BY ReplyState
<1>2. IF Direct!Listens(id) /\ ~(rpcs[id].via \in Direct!Objects /\ kind = "fin")
      THEN Direct!Push(Direct!Told(id, kind)) ELSE UNCHANGED stack
  <2>1. CASE rpcs[id].via \in Objects /\ ObjectCallback(id, kind)
    <3>1. rpcs[id].via \notin Passes /\ id \in cbDictionary
      BY <1>1, <2>1 DEF RoutingInv, Kept, Objects, MistObjects, FriendObjects, WldObjects, Passes
    <3>2. Direct!Listens(id)
      BY <2>1, SameClients DEF Direct!Listens
    <3>3. Direct!Told(id, kind) =
            [op |-> "handler", rpc |-> id, kind |-> kind, reg |-> 0, shown |-> NoId]
      BY <3>1, SameClients DEF Direct!Told
    <3>4. IF kind = "fin" THEN UNCHANGED stack
          ELSE stack' = Append(stack, [op |-> "handler", rpc |-> id, kind |-> kind, reg |-> 0,
                                       shown |-> NoId])
      BY <2>1, <3>1 DEF ObjectCallback, Push
    <3> QED
      BY <2>1, <3>2, <3>3, <3>4, SameClients DEF Direct!Push
  <2>2. ASSUME NEW via \in Passes, rpcs[id].via = via, PassCallback(via, id, kind)
        PROVE  IF Direct!Listens(id) /\ ~(rpcs[id].via \in Direct!Objects /\ kind = "fin")
               THEN Direct!Push(Direct!Told(id, kind)) ELSE UNCHANGED stack
    <3>1. rpcs[id].via \notin Objects
      BY <2>2 DEF Objects, MistObjects, FriendObjects, WldObjects, Passes
    <3>2. /\ Direct!Listens(id) <=> rewrite[via][id] # NoId
          /\ rewrite[via][id] # NoId =>
               rewrite[via][id] = rpcs[id].cid /\ registered[via] = rpcs[id].reg
      BY <1>1, <2>2, MappedListens
    <3>3. IF rewrite[via][id] = NoId THEN UNCHANGED stack
          ELSE stack' = Append(stack, [op |-> "handler", rpc |-> id, kind |-> kind,
                  reg |-> registered[via], shown |-> IF kind = "fin" THEN id ELSE rewrite[via][id]])
      BY <2>2 DEF PassCallback, Push
    <3>4. Direct!Told(id, kind) =
            [op |-> "handler", rpc |-> id, kind |-> kind, reg |-> rpcs[id].reg,
             shown |-> IF kind = "fin" THEN id ELSE rpcs[id].cid]
      BY <2>2, SameClients DEF Direct!Told
    <3> QED
      BY <3>1, <3>2, <3>3, <3>4, SameClients DEF Direct!Push
  <2>3. \/ rpcs[id].via \in Objects /\ ObjectCallback(id, kind)
        \/ \E via \in Passes : rpcs[id].via = via /\ PassCallback(via, id, kind)
    BY DEF Reply, SandboxCallback, Passes
  <2> QED
    BY <2>1, <2>2, <2>3, Zenon
<1> QED
  BY <1>2, ReplyState, Zenon DEF Direct!Reply

LEMMA ReturnDirect ==
  ASSUME RoutingInv, HandlerReturns \/ CallReturns
  PROVE  Direct!Return
<1>1. Direct!Top.op \in {"handler", "call"}
  BY SameTop DEF HandlerReturns, CallReturns
<1>2. stack' = Direct!Front(stack)
  BY DEF HandlerReturns, CallReturns, Front, Direct!Front
<1>3. UNCHANGED <<rpcs, registered>>
  BY DEF HandlerReturns, CallReturns
<1> QED
  BY <1>1, <1>2, <1>3 DEF Direct!Return

-----------------------------------------------------------------------------
(* The refinement.                                                           *)

LEMMA DirectStep == RoutingInv /\ [Next]_vars => [Direct!Next]_Direct!vars
<1> SUFFICES ASSUME RoutingInv, [Next]_vars PROVE Direct!Next \/ Same
  BY DEF Direct!vars, Same
<1>1. CASE UNCHANGED vars \/ SpendId
  BY <1>1 DEF vars, SpendId, Same
<1>2. ASSUME NEW via \in Objects, ObjectRequest(via) PROVE Direct!Next
  <2>1. PICK id \in Ids : GetNextRpcId(id) /\ Ask(id, via, NoId, 0) /\ Call(Api(via))
    BY <1>2 DEF ObjectRequest
  <2>2. Direct!Ask(via, NoId, 0)
    BY <1>2, <2>1, AskDirect DEF ObjectRequest
  <2> QED
    BY <2>2, SameClients, Zenon DEF Direct!Next
<1>3. ASSUME NEW via \in Passes, NEW cid \in ClientIds, PassRequest(via, cid) PROVE Direct!Next
  <2>1. PICK id \in Ids : /\ GetNextRpcId(id) /\ Ask(id, via, cid, registered[via])
                          /\ Call(Api(via))
    BY <1>3 DEF PassRequest
  <2>2. Direct!Ask(via, cid, registered[via])
    BY <1>3, <2>1, AskDirect DEF PassRequest
  <2> QED
    BY <2>2, SameClients, Zenon DEF Direct!Next
<1>4. ASSUME NEW via \in Passes, SetCallback(via) PROVE Direct!Next
  <2>1. Direct!Renew(via)
    BY <1>4, SameTop DEF SetCallback, Direct!Renew
  <2> QED
    BY <2>1, SameClients, Zenon DEF Direct!Next
<1>5. ASSUME NEW id \in Ids, ObjectCancel(id) PROVE Direct!Next
  BY <1>5, CancelDirect, SameClients, Zenon DEF Direct!Next
<1>6. ASSUME NEW cid \in ClientIds, MistEnd(cid) PROVE Direct!Next \/ Same
  BY <1>6, MistEndDirect, Zenon DEF Direct!Next
<1>7. ASSUME NEW cid \in ClientIds, WishEnd(cid) PROVE Direct!Next \/ Same
  BY <1>7, WishEndDirect, Zenon DEF Direct!Next
<1>8. ASSUME NEW cid \in ClientIds, SandboxEnd(cid) PROVE Same
  <2>1. /\ EndRpcs(CancelApi("sandbox"), {}, Meant("sandbox", cid)) /\ UNCHANGED stack
        /\ UNCHANGED registered
    BY <1>8, Zenon DEF SandboxEnd, EndOneOf
  <2> QED
    BY <2>1, EndNone DEF RoutingInv, Same
<1>9. ASSUME NEW id \in Ids, NEW kind \in Kinds, Reply(id, kind) PROVE Direct!Next
  BY <1>9, ReplyDirect, SameClients, Zenon DEF Direct!Next
<1>10. CASE HandlerReturns \/ CallReturns
  BY <1>10, ReturnDirect, Zenon DEF Direct!Next
<1>11. CASE Login
  <2>1. Direct!Login
    BY <1>11, SameTop, SameCall DEF Login, Direct!Login
  <2> QED
    BY <2>1, Zenon DEF Direct!Next
<1>12. "mist" \in Passes /\ "wish" \in Passes /\ "sandbox" \in Passes
  BY DEF Passes
<1> QED
  BY <1>1, <1>2, <1>3, <1>4, <1>5, <1>6, <1>7, <1>8, <1>9, <1>10, <1>11, <1>12, Zenon
     DEF Next, MistRequest, WishRequest, SandboxRequest, SetMistApiCallback,
         SetWishApiCallback, NewSandbox

\* MistApi.m, PassthroughRequest.m and Sandbox.m route replies as if every request
\* knew who asked, whatever ids collide, however calls nest and whenever callbacks
\* are set: the dictionaries lose nobody and mistake nobody.
THEOREM RoutingIsDirect == Spec => ImplementsDirect
<1>1. Init => Direct!Init
  BY SameClients DEF Init, Direct!Init
<1> QED
  BY <1>1, DirectStep, RoutingInvariant, PTL DEF Spec, ImplementsDirect, Direct!Spec
=============================================================================
