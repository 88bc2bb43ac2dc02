------------------------------ MODULE LiveServer ------------------------------
(***************************************************************************)
(* The local WebSocket server of the live view (starhub-live/src/ws.rs)    *)
(* together with the method face that opens, closes and issues tokens      *)
(* (starhub-sidecar/src/methods/ui_live.rs), over the frame hub.           *)
(*                                                                         *)
(* Every JSON-RPC frame is handled on a thread of its own and every        *)
(* accepted socket by a task of its own, so the steps of any two of them   *)
(* interleave; a step below is what one of them does between two locks or  *)
(* awaits.                                                                 *)
(***************************************************************************)
EXTENDS FrameHub

CONSTANTS
  Callers,   \* threads serving ui.live_open, ui.live_token and ui.live_close
  Conns,     \* connection tasks
  NoToken

ASSUME ServerAssumption ==
  /\ NoToken \notin Tokens
  /\ IsFiniteSet(Conns)
  /\ Cardinality(Conns) < UsizeMod

VARIABLES
  rpc,   \* caller -> where it is in its method, and for which id
  conn,  \* connection -> where it is in serve_connection, and what it holds
  issuedFor,  \* history: token -> the channel object issue_token found for it
  loose       \* history: the tokens whose channel was closed in one of the
              \* gaps that the two locks of the hub leave (see AdmittedToIssued)

history == <<issuedFor, loose>>
vars == <<channels, chanId, subscribers, closed, tokens, rpc, conn,
          issuedFor, loose>>

IdleCaller == [pc |-> "idle", id |-> NoId, chan |-> NoChannel]
IdleConn   == [pc |-> "idle", path |-> NoId, target |-> NoId,
               token |-> NoToken, chan |-> NoChannel]

(* A caller in its method has an id, and once issue_token has found it the *)
(* channel; a connection has redeemed a token, or goes on with the channel *)
(* that token admitted it to.                                              *)
BusyCaller == [pc : {"issuing", "dropping"}, id : Ids, chan : {NoChannel}]
InsertingCaller == [pc : {"inserting"}, id : Ids, chan : Handles]
RedeemedConn == [pc : {"redeemed"}, path : Ids, target : Ids,
                 token : Tokens, chan : {NoChannel}]
AttachedPcs == {"admitted", "greeting", "streaming", "closing", "dropping"}
AttachedConn == [pc : AttachedPcs, path : Ids, target : Ids,
                 token : Tokens, chan : Handles]

TypeOK ==
  /\ HubTypeOK
  /\ rpc \in [Callers -> {IdleCaller} \cup BusyCaller \cup InsertingCaller]
  /\ conn \in [Conns -> {IdleConn} \cup RedeemedConn \cup AttachedConn]
  /\ issuedFor \in [Tokens -> Handles \cup {NoChannel}]
  /\ loose \in SUBSET Tokens

Init ==
  /\ HubInit
  /\ rpc = [p \in Callers |-> IdleCaller]
  /\ conn = [k \in Conns |-> IdleConn]
  /\ issuedFor = [t \in Tokens |-> NoChannel]
  /\ loose = {}

RpcGoto(p, pc, id, h) ==
  rpc' = [rpc EXCEPT ![p] = [pc |-> pc, id |-> id, chan |-> h]]
RpcReturn(p) == rpc' = [rpc EXCEPT ![p] = IdleCaller]
ConnEnd(k) == conn' = [conn EXCEPT ![k] = IdleConn]

(* Somebody is between the two halves of FrameHub::close for id.           *)
Closing(id) ==
  \/ \E p \in Callers : rpc[p].pc = "dropping" /\ rpc[p].id = id
  \/ \E k \in Conns : conn[k].pc = "dropping" /\ chanId[conn[k].chan] = id

(* The tokens between redeem's removal and its lookup, issued for h.       *)
InRedeem(h) ==
  {t \in Tokens : /\ issuedFor[t] = h
                  /\ \E k \in Conns : /\ conn[k].pc = "redeemed"
                                      /\ conn[k].token = t}
Loosen(ts) == loose' = loose \cup ts /\ UNCHANGED issuedFor

-----------------------------------------------------------------------------
(* Bound: a method that issues a token is only called while the finite set *)
(* Tokens can still provide a fresh one for it.                            *)
Issuing == {p \in Callers : rpc[p].pc \in {"issuing", "inserting"}}
MayDrawToken ==
  Cardinality({t \in Tokens : tokens[t] = Unissued}) > Cardinality(Issuing)

(* ui.live_open: the hub's open, then the first token.  The source that    *)
(* AndroidLiveSource::open starts in between is the subject of LiveSource. *)
LiveOpen(p, id) ==
  /\ rpc[p].pc = "idle"
  /\ MayDrawToken
  /\ \E h \in Handles : HubOpen(id, h)
  /\ RpcGoto(p, "issuing", id, NoChannel)
  /\ UNCHANGED <<conn, history>>

(* ui.live_token goes straight to issue_token.                             *)
LiveToken(p, id) ==
  /\ rpc[p].pc = "idle"
  /\ MayDrawToken
  /\ RpcGoto(p, "issuing", id, NoChannel)
  /\ UNCHANGED <<hubVars, conn, history>>

(* FrameHub::issue_token looks the channel up, releases the table's lock   *)
(* and only then inserts the token; without a channel it fails.            *)
IssueCheck(p) ==
  /\ rpc[p].pc = "issuing"
  /\ IF channels[rpc[p].id] = NoChannel
     THEN RpcReturn(p)
     ELSE RpcGoto(p, "inserting", rpc[p].id, channels[rpc[p].id])
  /\ UNCHANGED <<hubVars, conn, history>>

IssueInsert(p, t) ==
  /\ rpc[p].pc = "inserting"
  /\ HubAddToken(t, rpc[p].id)
  /\ RpcReturn(p)
  /\ issuedFor' = [issuedFor EXCEPT ![t] = rpc[p].chan]
  /\ loose' = IF closed[rpc[p].chan] THEN loose \cup {t} ELSE loose
  /\ UNCHANGED conn

(* ui.live_close: both halves of the hub's close.                          *)
LiveClose(p, id) ==
  /\ rpc[p].pc = "idle"
  /\ HubUnregister(id)
  /\ RpcGoto(p, "dropping", id, NoChannel)
  /\ Loosen(InRedeem(channels[id]))
  /\ UNCHANGED conn

(* Mutant: close unregisters the channel and keeps its tokens.             *)
LiveCloseKeepsTokens(p) ==
  /\ rpc[p].pc = "dropping"
  /\ RpcReturn(p)
  /\ UNCHANGED <<hubVars, conn, history>>

LiveCloseTokens(p) ==
  /\ rpc[p].pc = "dropping"
  /\ HubDropTokens(rpc[p].id)
  /\ RpcReturn(p)
  /\ UNCHANGED <<conn, history>>

-----------------------------------------------------------------------------
(* serve_connection.  A client presents the path of a channel and a token  *)
(* that was handed out, perhaps one it used before; redeem removes it.     *)
Present(k, path, t) ==
  /\ conn[k].pc = "idle"
  /\ HubTakeToken(t)
  /\ conn' = [conn EXCEPT ![k] =
                [pc |-> "redeemed", path |-> path, target |-> tokens[t],
                 token |-> t, chan |-> NoChannel]]
  /\ Loosen(IF closed[issuedFor[t]] /\ Closing(tokens[t]) THEN {t} ELSE {})
  /\ UNCHANGED rpc

(* redeem's lookup, then the comparison with the channel of the path.      *)
Admit(k) ==
  LET h == channels[conn[k].target] IN
  /\ conn[k].pc = "redeemed"
  /\ IF h # NoChannel /\ chanId[h] = conn[k].path
     THEN conn' = [conn EXCEPT ![k] = [@ EXCEPT !.pc = "admitted",
                                                !.chan = h]]
     ELSE ConnEnd(k)
  /\ UNCHANGED <<hubVars, rpc, history>>

Subscribe(k) ==
  /\ conn[k].pc = "admitted"
  /\ ChanSubscribe(conn[k].chan)
  /\ conn' = [conn EXCEPT ![k].pc = "greeting"]
  /\ UNCHANGED <<rpc, history>>

(* The metadata message and the replayed frames are sent ...               *)
Greet(k) ==
  /\ conn[k].pc = "greeting"
  /\ conn' = [conn EXCEPT ![k].pc = "streaming"]
  /\ UNCHANGED <<hubVars, rpc, history>>

(* Mutant: the early return forgets to unsubscribe.                        *)
GreetFailsSubscribed(k) ==
  /\ conn[k].pc = "greeting"
  /\ ConnEnd(k)
  /\ UNCHANGED <<hubVars, rpc, history>>

(* ... or one of those sends fails: unsubscribe and return.                *)
GreetFails(k) ==
  /\ conn[k].pc = "greeting"
  /\ ChanUnsubscribe(conn[k].chan)
  /\ ConnEnd(k)
  /\ UNCHANGED <<rpc, history>>

(* The forwarding loop ends: the client closed or its socket failed, it    *)
(* lagged behind the broadcast buffer, or its input found no source.  The  *)
(* connection holds the channel object and with it the sending ends it     *)
(* listens to, so a closed channel never ends the loop.                    *)
Leave(k) ==
  LET h == conn[k].chan IN
  /\ conn[k].pc = "streaming"
  /\ ChanUnsubscribe(h)
  /\ IF UnsubscribeReports(h) = 0
     THEN conn' = [conn EXCEPT ![k].pc = "closing"]
     ELSE ConnEnd(k)
  /\ UNCHANGED <<rpc, history>>

(* Mutant: the tokens are dropped, the channel stays.                      *)
CloseChannelOnlyTokens(k) ==
  /\ conn[k].pc = "closing"
  /\ conn' = [conn EXCEPT ![k].pc = "dropping"]
  /\ UNCHANGED <<hubVars, rpc, history>>

(* hub.close(channel.id()): by id, not by object.                          *)
CloseChannel(k) ==
  /\ conn[k].pc = "closing"
  /\ HubUnregister(chanId[conn[k].chan])
  /\ conn' = [conn EXCEPT ![k].pc = "dropping"]
  /\ Loosen(InRedeem(channels[chanId[conn[k].chan]]))
  /\ UNCHANGED rpc

CloseTokens(k) ==
  /\ conn[k].pc = "dropping"
  /\ HubDropTokens(chanId[conn[k].chan])
  /\ ConnEnd(k)
  /\ UNCHANGED <<rpc, history>>

-----------------------------------------------------------------------------
CallerStep(p) ==
  \/ IssueCheck(p)
  \/ \E t \in Tokens : IssueInsert(p, t)
  \/ LiveCloseTokens(p)

CallerRequest(p) ==
  \E id \in Ids : LiveOpen(p, id) \/ LiveToken(p, id) \/ LiveClose(p, id)

(* The steps a connection task takes without waiting for its client.       *)
ConnStep(k) == \/ Admit(k) \/ Subscribe(k)
               \/ CloseChannel(k) \/ CloseTokens(k)

ConnEvent(k) ==
  \/ \E path \in Ids, t \in Tokens : Present(k, path, t)
  \/ Greet(k) \/ GreetFails(k) \/ Leave(k)

Next ==
  \/ \E p \in Callers : CallerStep(p) \/ CallerRequest(p)
  \/ \E k \in Conns : ConnStep(k) \/ ConnEvent(k)

(* A spawned task runs on; the clients owe nothing.                        *)
Fairness == /\ \A p \in Callers : WF_vars(CallerStep(p))
            /\ \A k \in Conns : WF_vars(ConnStep(k))

Spec == Init /\ [][Next]_vars
FairSpec == Spec /\ Fairness

-----------------------------------------------------------------------------
Watching(k, h) == conn[k].pc \in {"greeting", "streaming"} /\ conn[k].chan = h
Viewers(h) == {k \in Conns : Watching(k, h)}
Registered(h) == \E id \in Ids : channels[id] = h

(* The counter of a registered channel is the number of connections that   *)
(* have subscribed to it and not unsubscribed (hub.rs subscribe, close and *)
(* unsubscribe): whatever wraps is confined to channels already dropped.   *)
CountIsViewers ==
  \A id \in Ids : channels[id] # NoChannel =>
    subscribers[channels[id]] = Cardinality(Viewers(channels[id]))

(* A token admits at most once (hub.rs redeem): no two connections hold    *)
(* the same one, and one that a connection holds is gone from the table.   *)
TokenSingleUse ==
  \A k \in Conns : conn[k].token # NoToken =>
    /\ tokens[conn[k].token] = Spent
    /\ \A l \in Conns : conn[l].token = conn[k].token => l = k

(* A token admits only to the channel object it was issued for, never to a *)
(* later channel of the same id (hub.rs issue_token, close, redeem), but   *)
(* for the tokens whose channel was closed in one of three gaps: between   *)
(* issue_token's lookup and its insertion, between the two locks of the    *)
(* close itself, and between redeem's removal and its lookup.  Those are   *)
(* loose; any other token dies with its channel.                           *)
AdmittedToIssued ==
  \A k \in Conns : conn[k].chan # NoChannel =>
    \/ conn[k].chan = issuedFor[conn[k].token]
    \/ conn[k].token \in loose

(* A connection is only ever attached to a channel of the id its URL names *)
(* (ws.rs, the comparison after redeem): used by the proofs.               *)
AdmittedAsNamed ==
  \A k \in Conns : conn[k].chan # NoChannel =>
    chanId[conn[k].chan] = conn[k].path

(* When a connection leaves its forwarding loop while its channel is still *)
(* registered, it goes on to close the channel exactly when nobody else is *)
(* subscribed (ws.rs: the last subscriber's departure closes).             *)
LeaveDecides(k) ==
  /\ conn[k].pc = "streaming"
  /\ conn'[k].pc # "streaming"
  /\ Registered(conn[k].chan)
  => (conn'[k].pc = "closing" <=> Viewers(conn[k].chan) = {k})
LoopExitDecides == [][\A k \in Conns : LeaveDecides(k)]_vars

(* A connection that saw itself to be the last gets its channel closed.    *)
LastLeaverCloses ==
  \A k \in Conns, h \in Handles :
    (conn[k].pc = "closing" /\ conn[k].chan = h) ~> closed[h]

=============================================================================
