----------------------------- MODULE DirectRpc ------------------------------
(***************************************************************************)
(* What the request layer is to its clients: as if every request knew who  *)
(* asked.  A reply goes to a handler of the asker, under the asker's id,   *)
(* unless the asker has set another callback since; nothing else is ever   *)
(* called.  RpcRouting gets there with four dictionaries and a counter,    *)
(* none of which is here.  Two things are no promise but what the clients  *)
(* have to live with: fin is shown under the API's id, and an end of the   *)
(* Wish pass-through meets any request of that client or none.             *)
(***************************************************************************)
EXTENDS RpcClients

VARIABLES
  requests,  \* each request: who asked, under which id and callback, what became of it
  setting,   \* how often each client has set its callback
  running    \* calls into an API and handlers that have not returned

vars == <<requests, setting, running>>

Init ==
  /\ requests = [id \in Ids |-> Unused]
  /\ setting = [who \in Passes |-> 0]
  /\ running = <<>>

Top == IF running = <<>> THEN [op |-> "runLoop"] ELSE Last(running)
AppRuns == Top.op \in {"runLoop", "handler"}
Push(frame) == running' = Append(running, frame)
\* Only the Mist API may call back before a call of it returns.
Call(api) == IF api = "mist" THEN Push([op |-> "call"]) ELSE UNCHANGED running

Ask(who, cid, reg) ==
  /\ AppRuns
  /\ \E id \in Ids :
       /\ requests[id] = Unused
       /\ requests' = [requests EXCEPT ![id] =
            [via |-> who, cid |-> cid, reg |-> reg, state |-> "pending"]]
  /\ Call(Api(who))
  /\ UNCHANGED setting

Renew(who) ==
  /\ AppRuns
  /\ setting' = [setting EXCEPT ![who] = @ + 1]
  /\ UNCHANGED <<requests, running>>

\* The sandbox logs in; nobody waits for the reply.
Login ==
  /\ AppRuns
  /\ setting["sandbox"] > 0
  /\ Call("mist")
  /\ UNCHANGED <<requests, setting>>

Outstanding(id) == requests[id].state \in {"pending", "ending"}
Listens(id) ==
  \/ requests[id].via \in Objects
  \/ /\ requests[id].via \in Passes
     /\ requests[id].reg > 0 /\ requests[id].reg = setting[requests[id].via]

\* The API is told to end a request; not if it is told so in the other API.
End(id) ==
  LET via == requests[id].via IN
  /\ requests' = IF requests[id].state = "pending" /\ Api(via) = CancelApi(via)
                 THEN [requests EXCEPT ![id].state = "ending"] ELSE requests
  /\ Call(CancelApi(via))
  /\ UNCHANGED setting

ObjectEnd(id) == AppRuns /\ requests[id].via \in Objects /\ End(id)

\* The end of a client's request cid, if it is still heard for.
MistEnd(cid) ==
  /\ AppRuns
  /\ \E id \in Ids :
       /\ requests[id].via = "mist" /\ requests[id].cid = cid
       /\ Listens(id) /\ Outstanding(id)
       /\ End(id)

WishEnd ==
  /\ AppRuns
  /\ \E id \in Ids : requests[id].via = "wish" /\ Listens(id) /\ Outstanding(id) /\ End(id)

\* What the handler of the asker is shown; a request object has no id of its own.
Told(id, kind) ==
  LET pass == requests[id].via \in Passes IN
  [op |-> "handler", rpc |-> id, kind |-> kind,
   reg |-> IF pass THEN requests[id].reg ELSE 0,
   shown |-> IF ~pass THEN NoId ELSE IF kind = "fin" THEN id ELSE requests[id].cid]

\* A request object's handler is not told of fin.
Reply(id, kind) ==
  /\ Top.op = "runLoop" \/ (Top.op = "call" /\ Api(requests[id].via) = "mist")
  /\ requests[id].state = "ending" \/ (requests[id].state = "pending" /\ kind # "fin")
  /\ requests' = [requests EXCEPT ![id].state =
                    CASE kind = "sig" -> @ [] kind = "fin" -> "ended" [] OTHER -> "answered"]
  /\ IF Listens(id) /\ ~(requests[id].via \in Objects /\ kind = "fin")
     THEN Push(Told(id, kind)) ELSE UNCHANGED running
  /\ UNCHANGED setting

Return ==
  /\ Top.op \in {"handler", "call"}
  /\ running' = Front(running)
  /\ UNCHANGED <<requests, setting>>

Next ==
  \/ Return
  \/ Login
  \/ \E who \in Passes : Renew(who)
  \/ \E id \in Ids, kind \in Kinds : Reply(id, kind)
  \/ \E id \in Ids : ObjectEnd(id)
  \/ \E cid \in ClientIds : MistEnd(cid)
  \/ WishEnd
  \/ \E who \in Objects : Ask(who, NoId, 0)
  \/ \E who \in Passes, cid \in ClientIds : Ask(who, cid, setting[who])
Spec == Init /\ [][Next]_vars
=============================================================================
