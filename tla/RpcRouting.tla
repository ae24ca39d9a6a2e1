----------------------------- MODULE RpcRouting -----------------------------
(***************************************************************************)
(* How a reply finds who asked (MistApi.m, PassthroughRequest.m, Sandbox.m,*)
(* MistRequest.m, WishRequest.m).                                          *)
(*                                                                         *)
(* Every request to the Mist and Wish APIs gets an id of its own from      *)
(* get_next_rpc_id.  Request objects are kept in cbDictionary under that   *)
(* id.  The three pass-through clients number their requests themselves;   *)
(* a dictionary of each rewrites the ids of the replies.  It is replaced   *)
(* whenever the client's callback is set.                                  *)
(*                                                                         *)
(* All of it runs on the main thread, but calls nest: the Mist API answers *)
(* from its own state and may do so before mist_api_request returns, and a *)
(* handler may request, cancel and set callbacks itself.  The stack of     *)
(* calls is therefore part of the state.                                   *)
(***************************************************************************)
EXTENDS RpcClients

CONSTANTS
  MaxRegs,      \* bound: times a client's callback is set
  MaxDepth      \* bound: nested calls

ASSUME ConstantsAssumption ==
  /\ MaxRpcs \in Nat \ {0}
  /\ ClientIds \subseteq Nat
  /\ MaxRegs \in Nat
  /\ MaxDepth \in Nat

VARIABLES
  next_rpc_id,
  cbDictionary,   \* the ids a request object is kept for
  rewrite,        \* the three rewrite dictionaries: client's id, or NoId
  registered,     \* how often the callback was set; 0: the dictionary is nil
  rpcs,           \* what became of each id: asked by whom, and the service's view
  ended,          \* history: the requests their clients have asked to end
  stack           \* calls into an API and handlers that have not returned

vars == <<next_rpc_id, cbDictionary, rewrite, registered, rpcs, ended, stack>>

\* cid and reg: the client's id and which setting of its callback asked (history).
Rpc == [via : Vias \cup {"none"}, cid : ClientIds \cup {NoId}, reg : 0 .. MaxRegs,
        state : States]
Frame == [op : {"call"}] \cup
         [op : {"handler"}, rpc : Ids, kind : Kinds, reg : 0 .. MaxRegs,
          shown : ClientIds \cup Ids \cup {NoId}]

TypeOK ==
  /\ next_rpc_id \in 1 .. MaxRpcs + 1
  /\ cbDictionary \subseteq Ids
  /\ rewrite \in [Passes -> [Ids -> ClientIds \cup {NoId}]]
  /\ registered \in [Passes -> 0 .. MaxRegs]
  /\ rpcs \in [Ids -> Rpc]
  /\ ended \subseteq Ids
  /\ stack \in Seq(Frame)
  /\ Len(stack) <= MaxDepth

EmptyDict == [id \in Ids |-> NoId]

Init ==
  /\ next_rpc_id = 1
  /\ cbDictionary = {}
  /\ rewrite = [v \in Passes |-> EmptyDict]
  /\ registered = [v \in Passes |-> 0]
  /\ rpcs = [id \in Ids |-> Unused]
  /\ ended = {}
  /\ stack = <<>>

-----------------------------------------------------------------------------
(* Calls, and the ids.                                                     *)

\* What runs on the main thread.
Top == IF stack = <<>> THEN [op |-> "runLoop"] ELSE Last(stack)

\* The app's code runs: from the run loop, or in a handler.
AppRuns == Top.op \in {"runLoop", "handler"}

Push(frame) ==
  /\ Len(stack) < MaxDepth
  /\ stack' = Append(stack, frame)

\* A call of the Mist API may call back before it returns.  The Wish API only
\* sends to the core's thread.
Call(api) == IF api = "mist" THEN Push([op |-> "call"]) ELSE UNCHANGED stack

CallReturns ==
  /\ Top.op = "call"
  /\ stack' = Front(stack)
  /\ UNCHANGED <<next_rpc_id, cbDictionary, rewrite, registered, rpcs, ended>>

\* get_next_rpc_id.  Ids are ints that never wrap here.
GetNextRpcId(id) ==
  /\ id = next_rpc_id
  /\ next_rpc_id' = next_rpc_id + 1

\* External: the API has the request.
Ask(id, via, cid, reg) ==
  rpcs' = [rpcs EXCEPT ![id] = [via |-> via, cid |-> cid, reg |-> reg,
                                state |-> "pending"]]

-----------------------------------------------------------------------------
(* Requests.                                                               *)

\* mistApiRequestWithBson: and wishApiRequestWithBson:
ObjectRequest(via) ==
  /\ AppRuns
  /\ \E id \in Ids :
       /\ GetNextRpcId(id)
       /\ cbDictionary' = cbDictionary \cup {id}
       /\ Ask(id, via, NoId, 0)
       /\ Call(Api(via))
  /\ UNCHANGED <<rewrite, registered, ended>>

\* A request without an op takes an id before it is refused.
SpendId ==
  /\ AppRuns
  /\ \E id \in Ids : GetNextRpcId(id)
  /\ UNCHANGED <<cbDictionary, rewrite, registered, rpcs, stack, ended>>

\* -login of the sandbox: a request of the Mist API, which may call back meanwhile.
\* Its own reply goes to a callback that does nothing.
Login ==
  /\ AppRuns
  /\ registered["sandbox"] > 0
  /\ \E id \in Ids : GetNextRpcId(id)
  /\ Call("mist")
  /\ UNCHANGED <<cbDictionary, rewrite, registered, rpcs, ended>>

\* Mutant: the reply's id is looked up with the client's id as the key.
SaveMappingSwapped(via, id, cid) ==
  rewrite' = IF registered[via] = 0 \/ cid \notin Ids THEN rewrite
             ELSE [rewrite EXCEPT ![via][cid] = id]

\* A client's dictionary remembers whose the id is; a nil dictionary keeps nothing.
SaveMapping(via, id, cid) ==
  rewrite' = IF registered[via] = 0 THEN rewrite ELSE [rewrite EXCEPT ![via][id] = cid]

\* A client's request goes to its API under an id of its own.
PassRequest(via, cid) ==
  /\ AppRuns
  /\ \E id \in Ids :
       /\ GetNextRpcId(id)
       /\ SaveMapping(via, id, cid)
       /\ Ask(id, via, cid, registered[via])
       /\ Call(Api(via))
  /\ UNCHANGED <<cbDictionary, registered, ended>>

MistRequest(cid) == PassRequest("mist", cid)
WishRequest(cid) == PassRequest("wish", cid)
SandboxRequest(cid) == registered["sandbox"] > 0 /\ PassRequest("sandbox", cid)

\* Mutant: the dictionary is kept.
SetCallbackKeeps(via) ==
  /\ AppRuns
  /\ registered[via] < MaxRegs
  /\ registered' = [registered EXCEPT ![via] = @ + 1]
  /\ UNCHANGED <<next_rpc_id, cbDictionary, rewrite, rpcs, stack, ended>>

\* Mutant: one callback's setter replaces both dictionaries.
SetCallbackBoth(via) ==
  /\ AppRuns
  /\ registered[via] < MaxRegs
  /\ registered' = [registered EXCEPT ![via] = @ + 1]
  /\ rewrite' = [v \in Passes |-> EmptyDict]
  /\ UNCHANGED <<next_rpc_id, cbDictionary, rpcs, stack, ended>>

\* The callback is replaced, and the dictionary with it.
SetCallback(via) ==
  /\ AppRuns
  /\ registered[via] < MaxRegs
  /\ registered' = [registered EXCEPT ![via] = @ + 1]
  /\ rewrite' = [rewrite EXCEPT ![via] = EmptyDict]
  /\ UNCHANGED <<next_rpc_id, cbDictionary, rpcs, stack, ended>>

SetMistApiCallback == SetCallback("mist")
SetWishApiCallback == SetCallback("wish")
NewSandbox == SetCallback("sandbox")

-----------------------------------------------------------------------------
(* Cancelling.                                                             *)

\* External: what ending targets does in the API, an unknown id nothing.  The
\* requests in asked are those the client means.
EndRpcs(api, targets, asked) ==
  /\ rpcs' = [id \in Ids |->
       IF id \in targets /\ rpcs[id].state = "pending" /\ Api(rpcs[id].via) = api
       THEN [rpcs[id] EXCEPT !.state = "ending"] ELSE rpcs[id]]
  /\ ended' = ended \cup asked

\* -cancel of a request object: mistApiCancel: or wishApiCancel:
ObjectCancel(id) ==
  /\ AppRuns
  /\ rpcs[id].via \in Objects
  /\ EndRpcs(CancelApi(rpcs[id].via), {id}, {id})
  /\ Call(CancelApi(rpcs[id].via))
  /\ UNCHANGED <<next_rpc_id, cbDictionary, rewrite, registered>>

\* The requests a client means by its id: the unanswered ones it made since its
\* callback was set.
Meant(via, cid) ==
  {id \in Ids : /\ rpcs[id].via = via /\ rpcs[id].cid = cid
                /\ rpcs[id].reg = registered[via] /\ registered[via] > 0
                /\ rpcs[id].state \in {"pending", "ending"}}

\* "end" in a client's request: one of the ids found is cancelled.
EndOneOf(via, found, cid) ==
  IF found = {} THEN EndRpcs(CancelApi(via), {}, Meant(via, cid)) /\ UNCHANGED stack
  ELSE \E id \in found :
         EndRpcs(CancelApi(via), {id}, Meant(via, cid)) /\ Call(CancelApi(via))

\* Mutant: the client's id is taken for the API's.
MistEndUnmapped(cid) ==
  /\ AppRuns
  /\ EndOneOf("mist", {cid} \cap Ids, cid)
  /\ UNCHANGED <<next_rpc_id, cbDictionary, rewrite, registered>>

MistEnd(cid) ==
  /\ AppRuns
  /\ EndOneOf("mist", {id \in Ids : rewrite["mist"][id] = cid}, cid)
  /\ UNCHANGED <<next_rpc_id, cbDictionary, rewrite, registered>>

\* intValue of what a dictionary holds; of nil it is 0.
IntValue(entry) == IF entry = NoId THEN 0 ELSE entry

\* The keys are those of one dictionary, the values those of the other.
WishEnd(cid) ==
  /\ AppRuns
  /\ EndOneOf("wish", {id \in Ids : rewrite["wish"][id] # NoId
                                     /\ IntValue(rewrite["mist"][id]) = cid}, cid)
  /\ UNCHANGED <<next_rpc_id, cbDictionary, rewrite, registered>>

\* The sandbox finds the id and cancels nothing.
SandboxEnd(cid) ==
  /\ AppRuns
  /\ EndOneOf("sandbox", {}, cid)
  /\ UNCHANGED <<next_rpc_id, cbDictionary, rewrite, registered>>

-----------------------------------------------------------------------------
(* Replies.                                                                *)

\* Mutant: the mapping stays after an error.
PassCallbackKeepsErr(via, id, kind) ==
  /\ rewrite' = IF kind \in {"sig", "err"} THEN rewrite
                ELSE [rewrite EXCEPT ![via][id] = NoId]
  /\ IF rewrite[via][id] = NoId THEN UNCHANGED stack
     ELSE Push([op |-> "handler", rpc |-> id, kind |-> kind, reg |-> registered[via],
                shown |-> IF kind = "fin" THEN id ELSE rewrite[via][id]])
  /\ UNCHANGED cbDictionary

\* generic_callback of PassthroughRequest.m: fin is shown with the id it came with,
\* the others with the client's.
PassCallback(via, id, kind) ==
  /\ rewrite' = IF kind = "sig" THEN rewrite ELSE [rewrite EXCEPT ![via][id] = NoId]
  /\ IF rewrite[via][id] = NoId THEN UNCHANGED stack
     ELSE Push([op |-> "handler", rpc |-> id, kind |-> kind, reg |-> registered[via],
                shown |-> IF kind = "fin" THEN id ELSE rewrite[via][id]])
  /\ UNCHANGED cbDictionary

\* The sandbox has the same callback once more, over its own dictionary.
SandboxCallback(id, kind) == PassCallback("sandbox", id, kind)

\* generic_callback of MistApi.m, up to the handler.
ObjectCallback(id, kind) ==
  /\ IF kind = "fin" \/ id \notin cbDictionary THEN UNCHANGED stack
     ELSE Push([op |-> "handler", rpc |-> id, kind |-> kind, reg |-> 0, shown |-> NoId])
  /\ UNCHANGED <<cbDictionary, rewrite>>

\* Mutant: a signal is taken for the last reply.
HandlerReturnsAll ==
  /\ Top.op = "handler"
  /\ stack' = Front(stack)
  /\ cbDictionary' = cbDictionary \ {Top.rpc}
  /\ UNCHANGED <<next_rpc_id, rewrite, registered, rpcs, ended>>

\* The handler is done; a request object is removed after its last reply.
HandlerReturns ==
  /\ Top.op = "handler"
  /\ stack' = Front(stack)
  /\ cbDictionary' = IF Top.kind \in {"ack", "err"}
                     THEN cbDictionary \ {Top.rpc} ELSE cbDictionary
  /\ UNCHANGED <<next_rpc_id, rewrite, registered, rpcs, ended>>

\* External: an API replies to what it was asked, and says fin when it has ended it.
\* The Mist API may do so in any call of it.
Reply(id, kind) ==
  /\ Top.op = "runLoop" \/ (Top.op = "call" /\ Api(rpcs[id].via) = "mist")
  /\ rpcs[id].state = "ending" \/ (rpcs[id].state = "pending" /\ kind # "fin")
  /\ rpcs' = [rpcs EXCEPT ![id].state =
                CASE kind = "sig" -> @ [] kind = "fin" -> "ended" [] OTHER -> "answered"]
  /\ \/ rpcs[id].via \in Objects /\ ObjectCallback(id, kind)
     \/ rpcs[id].via \in {"mist", "wish"} /\ PassCallback(rpcs[id].via, id, kind)
     \/ rpcs[id].via = "sandbox" /\ SandboxCallback(id, kind)
  /\ UNCHANGED <<next_rpc_id, registered, ended>>

-----------------------------------------------------------------------------
Next ==
  \/ SpendId \/ Login
  \/ \E via \in Objects : ObjectRequest(via)
  \/ \E cid \in ClientIds : MistRequest(cid) \/ WishRequest(cid) \/ SandboxRequest(cid)
  \/ SetMistApiCallback \/ SetWishApiCallback \/ NewSandbox
  \/ \E id \in Ids : ObjectCancel(id)
  \/ \E cid \in ClientIds : MistEnd(cid) \/ WishEnd(cid) \/ SandboxEnd(cid)
  \/ \E id \in Ids, kind \in Kinds : Reply(id, kind)
  \/ HandlerReturns
  \/ CallReturns

Spec == Init /\ [][Next]_vars

-----------------------------------------------------------------------------
(* Properties.                                                             *)

Outstanding(id) == rpcs[id].state \in {"pending", "ending"}

\* A client's callback is only given replies to what the client asked since it was
\* set, under the id it asked with, however calls nest (fin excepted:
\* the code does not rewrite it).
AnswersMatch ==
  \A i \in DOMAIN stack : LET f == stack[i] IN
    f.op = "handler" /\ rpcs[f.rpc].via \in Passes =>
      f.reg = rpcs[f.rpc].reg /\ (f.kind # "fin" => f.shown = rpcs[f.rpc].cid)

\* The one who asked is still there: a request object, or the same callback.
Listening(id) ==
  \/ rpcs[id].via \in Objects
  \/ rpcs[id].via \in Passes /\ rpcs[id].reg > 0 /\ rpcs[id].reg = registered[rpcs[id].via]

\* A last reply whose asker is still there reaches a handler: no request, cancel
\* or callback made in between, nested or not, loses it.
NoAnswerLost ==
  [][\A id \in Ids :
       rpcs[id].state # rpcs'[id].state /\ rpcs'[id].state = "answered" /\ Listening(id)
         => /\ Len(stack') = Len(stack) + 1
            /\ Last(stack').op = "handler" /\ Last(stack').rpc = id]_vars

\* A signal does not end a request object: while it waits for its last reply it is
\* kept, and after that, only while the handler of that reply runs.  (One that was
\* ended stays: fin does not remove it.)
ObjectsKeptWhileAsked ==
  \A id \in Ids : rpcs[id].via \in Objects =>
    /\ Outstanding(id) => id \in cbDictionary
    /\ id \in cbDictionary /\ rpcs[id].state = "answered" =>
         \E i \in DOMAIN stack : stack[i].op = "handler" /\ stack[i].rpc = id

\* A mapping belongs to an unanswered request of that client under the callback
\* set now: replies leave nothing behind that an "end" could find later.
MappingsCurrent ==
  \A via \in Passes, id \in Ids : rewrite[via][id] # NoId =>
    /\ rpcs[id].via = via /\ rpcs[id].reg = registered[via]
    /\ Outstanding(id)

\* Ending reaches the request that is meant (one of them, if the client used the
\* id twice), and no other.
SameRequest(a, b) ==
  a = b \/ /\ rpcs[a].via \in Passes
           /\ <<rpcs[a].via, rpcs[a].cid, rpcs[a].reg>> = <<rpcs[b].via, rpcs[b].cid, rpcs[b].reg>>
EndsReach(via) ==
  \A id \in Ids : rpcs[id].via = via =>
    /\ id \in ended => \E other \in Ids : SameRequest(id, other) /\ rpcs[other].state # "pending"
    /\ rpcs[id].state = "ending" => id \in ended

\* The requests of Signals and its like, the friend requests and the Mist
\* pass-through can be ended, whatever other clients use the same ids.
EndsMatch == \A via \in {"signals", "identity", "mist"} : EndsReach(via)

Direct == INSTANCE DirectRpc WITH
  requests <- rpcs, setting <- registered, running <- stack

\* The ids given out, cbDictionary and the rewrite dictionaries do what it would be
\* to know who asked: however calls nest and ids collide, a reply runs the handler
\* of its asker and no other, and an end of the Mist pass-through or of a request
\* object meets that client's request.
ImplementsDirect == Direct!Spec

-----------------------------------------------------------------------------
(* What comments say, and what the code does.                              *)

\* PassthroughRequest.m:245: "Normal request, save the mapping between passthrough
\* id and actual rpc id", kept to end the request by the client's id.
WishEndReaches == EndsReach("wish")
=============================================================================
