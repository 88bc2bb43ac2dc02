------------------------------ MODULE HubProofs -------------------------------
(***************************************************************************)
(* Proofs about those who share the frame hub, for any set of ids, channel *)
(* objects, tokens and tasks: the live server, and the panels that took a  *)
(* device over.                                                            *)
(*                                                                         *)
(* The invariants of the server are proved in layers: the types, the       *)
(* table, what each task holds, the tokens, and last the counter, which    *)
(* needs the others.  Those of the takeover rest on the same table.        *)
(***************************************************************************)
EXTENDS LiveServer, LiveTakeover, FiniteSetTheorems, TLAPS

USE DEF AttachedPcs

(* The next-state relation, one named action at a time.                    *)
LEMMA NextCases ==
  ASSUME Next
  PROVE  \/ \E p \in Callers, id \in Ids, h \in Handles :
              LiveOpen(p, id) /\ HubOpen(id, h)
         \/ \E p \in Callers, id \in Ids : LiveToken(p, id)
         \/ \E p \in Callers, id \in Ids : LiveClose(p, id)
         \/ \E p \in Callers : IssueCheck(p)
         \/ \E p \in Callers, t \in Tokens : IssueInsert(p, t)
         \/ \E p \in Callers : LiveCloseTokens(p)
         \/ \E k \in Conns, path \in Ids, t \in Tokens : Present(k, path, t)
         \/ \E k \in Conns : Admit(k)
         \/ \E k \in Conns : Subscribe(k)
         \/ \E k \in Conns : Greet(k)
         \/ \E k \in Conns : GreetFails(k)
         \/ \E k \in Conns : Leave(k)
         \/ \E k \in Conns : CloseChannel(k)
         \/ \E k \in Conns : CloseTokens(k)
<1>1. ASSUME NEW p \in Callers, NEW id \in Ids, LiveOpen(p, id)
      PROVE  \E h \in Handles : LiveOpen(p, id) /\ HubOpen(id, h)
  BY <1>1 DEF LiveOpen
<1>2. QED
  BY <1>1 DEF Next, CallerStep, CallerRequest, ConnStep, ConnEvent

-----------------------------------------------------------------------------
(* Types.                                                                  *)

(* A counter kept modulo m stays below m (the AtomicUsize of subscribers). *)
LEMMA ModInRange ==
  ASSUME NEW n \in Nat, NEW m \in Nat \ {0}
  PROVE  n % m \in 0 .. m - 1
OBVIOUS

(* FrameHub::open keeps the types of the two tables and the objects.       *)
LEMMA HubOpenTyped ==
  ASSUME HubTypeOK, NEW id \in Ids, NEW h \in Handles, HubOpen(id, h)
  PROVE  HubTypeOK'
<1> USE HubAssumption DEF HubTypeOK
<1>1. closed' \in [Handles -> BOOLEAN]
  BY DEF HubOpen
<1>2. subscribers' \in [Handles -> 0 .. UsizeMod - 1]
  BY DEF HubOpen
<1>3. channels' \in [Ids -> Handles \cup {NoChannel}]
  BY DEF HubOpen
<1>4. chanId' \in [Handles -> Ids \cup {NoId}]
  BY DEF HubOpen
<1>5. tokens' = tokens
  BY DEF HubOpen
<1>6. QED
  BY <1>1, <1>2, <1>3, <1>4, <1>5

(* So does the first half of FrameHub::close.                              *)
LEMMA HubUnregisterTyped ==
  ASSUME HubTypeOK, NEW id, HubUnregister(id)
  PROVE  HubTypeOK'
<1> USE HubAssumption DEF HubTypeOK
<1>1. closed' \in [Handles -> BOOLEAN]
  BY DEF HubUnregister
<1>2. subscribers' \in [Handles -> 0 .. UsizeMod - 1]
  BY DEF HubUnregister
<1>3. channels' \in [Ids -> Handles \cup {NoChannel}]
  BY DEF HubUnregister
<1>4. QED
  BY <1>1, <1>2, <1>3 DEF HubUnregister

(* So does each operation on the token table (issue_token, redeem, close). *)
LEMMA HubTokensTyped ==
  ASSUME HubTypeOK, NEW id, NEW t,
         \/ HubDropTokens(id)
         \/ id \in Ids /\ HubAddToken(t, id)
         \/ HubTakeToken(t)
  PROVE  HubTypeOK'
<1>1. CASE HubDropTokens(id)
  BY <1>1 DEF HubTypeOK, HubDropTokens
<1>2. CASE id \in Ids /\ HubAddToken(t, id)
  BY <1>2 DEF HubTypeOK, HubAddToken
<1>3. CASE HubTakeToken(t)
  BY <1>3 DEF HubTypeOK, HubTakeToken
<1>4. QED
  BY <1>1, <1>2, <1>3

(* So do subscribe and unsubscribe, whose counter may wrap.                *)
LEMMA ChanCountTyped ==
  ASSUME HubTypeOK, NEW h, ChanSubscribe(h) \/ ChanUnsubscribe(h)
  PROVE  HubTypeOK'
<1>1. ASSUME NEW g \in Handles
      PROVE  /\ (subscribers[g] + 1) % UsizeMod \in 0 .. UsizeMod - 1
             /\ (subscribers[g] + UsizeMod - 1) % UsizeMod
                  \in 0 .. UsizeMod - 1
  <2>1. subscribers[g] + 1 \in Nat /\ subscribers[g] + UsizeMod - 1 \in Nat
    BY HubAssumption DEF HubTypeOK
  <2>2. QED
    BY <2>1, ModInRange, HubAssumption
<1>2. CASE ChanSubscribe(h)
  BY <1>1, <1>2 DEF HubTypeOK, ChanSubscribe
<1>3. CASE ChanUnsubscribe(h)
  BY <1>1, <1>3 DEF HubTypeOK, ChanUnsubscribe
<1>4. QED
  BY <1>2, <1>3

(* So does every step what is noted of the tokens.                         *)
LEMMA HistoryTyped ==
  ASSUME TypeOK, [Next]_vars
  PROVE  /\ issuedFor' \in [Tokens -> Handles \cup {NoChannel}]
         /\ loose' \in SUBSET Tokens
<1> USE DEF TypeOK
<1>1. ASSUME NEW p \in Callers, NEW t \in Tokens, IssueInsert(p, t)
      PROVE  /\ issuedFor' \in [Tokens -> Handles \cup {NoChannel}]
             /\ loose' \in SUBSET Tokens
  <2>1. rpc[p].chan \in Handles
    BY <1>1 DEF IssueInsert, IdleCaller, BusyCaller, InsertingCaller
  <2>2. QED
    BY <1>1, <2>1 DEF IssueInsert
<1>2. CASE UNCHANGED history
  BY <1>2 DEF history
<1>3. ASSUME NEW ts \in SUBSET Tokens, Loosen(ts)
      PROVE  /\ issuedFor' \in [Tokens -> Handles \cup {NoChannel}]
             /\ loose' \in SUBSET Tokens
  BY <1>3 DEF Loosen
<1>4. \A h : InRedeem(h) \in SUBSET Tokens
  BY DEF InRedeem
<1>5. QED
  BY <1>1, <1>2, <1>3, <1>4, NextCases
     DEF vars, history, LiveOpen, LiveToken, LiveClose, IssueCheck,
         LiveCloseTokens, Present, Admit, Subscribe, Greet, GreetFails, Leave,
         CloseChannel, CloseTokens

(* Every variable keeps its type.                                          *)
THEOREM TypeCorrect == Spec => []TypeOK
<1>1. Init => TypeOK
  BY HubAssumption, ServerAssumption
     DEF Init, HubInit, TypeOK, HubTypeOK, IdleCaller, IdleConn
<1>2. TypeOK /\ [Next]_vars => TypeOK'
  <2> SUFFICES ASSUME TypeOK, [Next]_vars PROVE TypeOK'
    OBVIOUS
  <2>a. HubTypeOK
    BY DEF TypeOK
  <2>b. ASSUME NEW p \in Callers,
               NEW c \in {IdleCaller} \cup BusyCaller \cup InsertingCaller,
               rpc' = [rpc EXCEPT ![p] = c], conn' = conn, HubTypeOK'
        PROVE  TypeOK'
    BY <2>b, HistoryTyped DEF TypeOK
  <2>c. ASSUME NEW k \in Conns,
               NEW c \in {IdleConn} \cup RedeemedConn \cup AttachedConn,
               conn' = [conn EXCEPT ![k] = c], rpc' = rpc, HubTypeOK'
        PROVE  TypeOK'
    BY <2>c, HistoryTyped DEF TypeOK
  <2>d. UNCHANGED hubVars => HubTypeOK'
    BY <2>a DEF HubTypeOK, hubVars
  <2>e. ASSUME NEW p \in Callers, rpc[p].pc # "idle"
        PROVE  rpc[p] \in BusyCaller \cup InsertingCaller
    BY <2>e DEF TypeOK, IdleCaller
  <2>f. ASSUME NEW k \in Conns, conn[k].pc \in AttachedPcs
        PROVE  conn[k] \in AttachedConn
    BY <2>f DEF TypeOK, IdleConn, RedeemedConn
  <2>1. ASSUME NEW p \in Callers, NEW id \in Ids, NEW h \in Handles,
               LiveOpen(p, id), HubOpen(id, h)
        PROVE  TypeOK'
    BY <2>1, <2>a, <2>b, HubOpenTyped DEF LiveOpen, RpcGoto, BusyCaller
  <2>2. ASSUME NEW p \in Callers, NEW id \in Ids, LiveToken(p, id)
        PROVE  TypeOK'
    BY <2>2, <2>b, <2>d DEF LiveToken, RpcGoto, BusyCaller
  <2>3. ASSUME NEW p \in Callers, NEW id \in Ids, LiveClose(p, id)
        PROVE  TypeOK'
    BY <2>3, <2>a, <2>b, HubUnregisterTyped DEF LiveClose, RpcGoto, BusyCaller
  <2>4. ASSUME NEW p \in Callers, IssueCheck(p)
        PROVE  TypeOK'
    <3>1. rpc[p].id \in Ids
      BY <2>4, <2>e DEF IssueCheck, BusyCaller, InsertingCaller
    <3>2. CASE channels[rpc[p].id] = NoChannel
      BY <2>4, <3>2, <2>b, <2>d DEF IssueCheck, RpcReturn
    <3>3. CASE channels[rpc[p].id] # NoChannel
      <4>1. channels[rpc[p].id] \in Handles
        BY <2>a, <3>1, <3>3 DEF HubTypeOK
      <4>2. [pc |-> "inserting", id |-> rpc[p].id,
             chan |-> channels[rpc[p].id]] \in InsertingCaller
        BY <3>1, <4>1 DEF InsertingCaller
      <4>3. QED
        BY <2>4, <3>3, <4>2, <2>b, <2>d DEF IssueCheck, RpcGoto
    <3>4. QED
      BY <3>2, <3>3
  <2>5. ASSUME NEW p \in Callers, NEW t \in Tokens, IssueInsert(p, t)
        PROVE  TypeOK'
    <3>1. rpc[p].id \in Ids
      BY <2>5, <2>e DEF IssueInsert, BusyCaller, InsertingCaller
    <3>2. QED
      BY <2>5, <3>1, <2>a, <2>b, HubTokensTyped DEF IssueInsert, RpcReturn
  <2>6. ASSUME NEW p \in Callers, LiveCloseTokens(p)
        PROVE  TypeOK'
    BY <2>6, <2>a, <2>b, HubTokensTyped DEF LiveCloseTokens, RpcReturn
  <2>7. ASSUME NEW k \in Conns, NEW path \in Ids, NEW t \in Tokens,
               Present(k, path, t)
        PROVE  TypeOK'
    <3>1. HubTypeOK'
      BY <2>7, <2>a, HubTokensTyped DEF Present
    <3>2. tokens[t] \in Ids
      BY <2>7 DEF Present, HubTakeToken
    <3>3. [pc |-> "redeemed", path |-> path, target |-> tokens[t],
           token |-> t, chan |-> NoChannel] \in RedeemedConn
      BY <3>2 DEF RedeemedConn
    <3>4. QED
      BY <2>7, <3>1, <3>3, <2>c DEF Present
  <2>8. ASSUME NEW k \in Conns, Admit(k)
        PROVE  TypeOK'
    <3> DEFINE h == channels[conn[k].target]
    <3>1. conn[k] \in RedeemedConn
      BY <2>8 DEF Admit, TypeOK, IdleConn, AttachedConn
    <3>2. h # NoChannel => h \in Handles
      BY <2>a, <3>1 DEF HubTypeOK, RedeemedConn
    <3>3. h # NoChannel =>
            [conn[k] EXCEPT !.pc = "admitted", !.chan = h] \in AttachedConn
      BY <3>1, <3>2 DEF RedeemedConn, AttachedConn
    <3>4. QED
      BY <2>8, <3>3, <2>c, <2>d DEF Admit, ConnEnd
  <2>9. ASSUME NEW k \in Conns, Subscribe(k)
        PROVE  TypeOK'
    <3>1. [conn[k] EXCEPT !.pc = "greeting"] \in AttachedConn
      BY <2>9, <2>f DEF Subscribe, AttachedConn
    <3>2. HubTypeOK'
      BY <2>9, <2>a, ChanCountTyped DEF Subscribe
    <3>3. QED
      BY <2>9, <3>1, <3>2, <2>c DEF Subscribe
  <2>10. ASSUME NEW k \in Conns, Greet(k)
         PROVE  TypeOK'
    <3>1. [conn[k] EXCEPT !.pc = "streaming"] \in AttachedConn
      BY <2>10, <2>f DEF Greet, AttachedConn
    <3>2. QED
      BY <2>10, <3>1, <2>c, <2>d DEF Greet
  <2>11. ASSUME NEW k \in Conns, GreetFails(k)
         PROVE  TypeOK'
    BY <2>11, <2>a, <2>c, ChanCountTyped DEF GreetFails, ConnEnd
  <2>12. ASSUME NEW k \in Conns, Leave(k)
         PROVE  TypeOK'
    <3>1. [conn[k] EXCEPT !.pc = "closing"] \in AttachedConn
      BY <2>12, <2>f DEF Leave, AttachedConn
    <3>2. HubTypeOK'
      BY <2>12, <2>a, ChanCountTyped DEF Leave
    <3>3. QED
      BY <2>12, <3>1, <3>2, <2>c DEF Leave, ConnEnd
  <2>13. ASSUME NEW k \in Conns, CloseChannel(k)
         PROVE  TypeOK'
    <3>1. [conn[k] EXCEPT !.pc = "dropping"] \in AttachedConn
      BY <2>13, <2>f DEF CloseChannel, AttachedConn
    <3>2. HubTypeOK'
      BY <2>13, <2>a, HubUnregisterTyped DEF CloseChannel
    <3>3. QED
      BY <2>13, <3>1, <3>2, <2>c DEF CloseChannel
  <2>14. ASSUME NEW k \in Conns, CloseTokens(k)
         PROVE  TypeOK'
    BY <2>14, <2>a, <2>c, HubTokensTyped DEF CloseTokens, ConnEnd
  <2>15. CASE UNCHANGED vars
    BY <2>15, <2>d DEF vars, hubVars, TypeOK
  <2>16. QED
    BY <2>1, <2>2, <2>3, <2>4, <2>5, <2>6, <2>7, <2>8, <2>9, <2>10, <2>11,
       <2>12, <2>13, <2>14, <2>15, NextCases
<1>3. QED
  BY <1>1, <1>2, PTL DEF Spec

-----------------------------------------------------------------------------
(* The table.                                                              *)

(* Opening and unregistering keep the table and the objects in agreement.  *)
LEMMA HubOpenConsistent ==
  ASSUME HubTypeOK, RegistryConsistent,
         NEW id \in Ids, NEW h \in Handles, HubOpen(id, h)
  PROVE  RegistryConsistent'
<1>1. CASE /\ channels[id] = h
           /\ closed' = [closed EXCEPT ![h] = FALSE]
           /\ UNCHANGED <<channels, chanId, subscribers, tokens>>
  <2>1. \A i \in Ids : channels'[i] # NoChannel => chanId'[channels'[i]] = i
    BY <1>1 DEF RegistryConsistent
  <2>2. ASSUME NEW g \in Handles, chanId'[g] # NoId
        PROVE  closed'[g] <=> channels'[chanId'[g]] # g
    <3>1. CASE g = h
      BY <1>1, <2>2, <3>1, HubAssumption DEF RegistryConsistent, HubTypeOK
    <3>2. CASE g # h
      BY <1>1, <2>2, <3>2 DEF RegistryConsistent, HubTypeOK
    <3>3. QED
      BY <3>1, <3>2
  <2>3. QED
    BY <2>1, <2>2 DEF RegistryConsistent
<1>2. CASE /\ channels[id] = NoChannel
           /\ chanId[h] = NoId
           /\ channels' = [channels EXCEPT ![id] = h]
           /\ chanId' = [chanId EXCEPT ![h] = id]
           /\ closed' = [closed EXCEPT ![h] = FALSE]
  <2>1. ASSUME NEW i \in Ids, channels'[i] # NoChannel
        PROVE  chanId'[channels'[i]] = i
    BY <1>2, <2>1, HubAssumption DEF RegistryConsistent, HubTypeOK
  <2>2. ASSUME NEW g \in Handles, chanId'[g] # NoId
        PROVE  closed'[g] <=> channels'[chanId'[g]] # g
    <3>1. CASE g = h
      BY <1>2, <3>1, HubAssumption DEF HubTypeOK
    <3>2. CASE g # h
      BY <1>2, <2>2, <3>2, HubAssumption DEF RegistryConsistent, HubTypeOK
    <3>3. QED
      BY <3>1, <3>2
  <2>3. QED
    BY <2>1, <2>2 DEF RegistryConsistent
<1>3. QED
  BY <1>1, <1>2 DEF HubOpen

(* FrameHub::close leaves the other channels as they were and flags the    *)
(* one it drops, so that the table and the objects still agree.            *)
LEMMA HubUnregisterConsistent ==
  ASSUME HubTypeOK, RegistryConsistent, NEW id \in Ids, HubUnregister(id)
  PROVE  RegistryConsistent'
<1>1. ASSUME NEW i \in Ids, channels'[i] # NoChannel
      PROVE  chanId'[channels'[i]] = i
  BY <1>1 DEF HubUnregister, RegistryConsistent, HubTypeOK
<1>2. ASSUME NEW g \in Handles, chanId'[g] # NoId
      PROVE  closed'[g] <=> channels'[chanId'[g]] # g
  <2>1. chanId'[g] = chanId[g] /\ chanId[g] \in Ids
    BY <1>2 DEF HubUnregister, HubTypeOK
  <2>2. closed'[g] <=> closed[g] \/ g = channels[id]
    BY DEF HubUnregister
  <2>3. channels'[chanId[g]] =
          IF chanId[g] = id THEN NoChannel ELSE channels[chanId[g]]
    BY <2>1 DEF HubUnregister, HubTypeOK
  <2>4. closed[g] <=> channels[chanId[g]] # g
    BY <1>2, <2>1 DEF RegistryConsistent
  <2>5. g = channels[id] => chanId[g] = id
    BY HubAssumption DEF RegistryConsistent
  <2>6. QED
    BY <2>1, <2>2, <2>3, <2>4, <2>5, HubAssumption
<1>3. QED
  BY <1>1, <1>2 DEF RegistryConsistent

(* An allocated channel keeps its id.                                      *)
LEMMA IdsArePermanent ==
  ASSUME TypeOK, [Next]_vars, NEW h \in Handles, chanId[h] # NoId
  PROVE  chanId'[h] = chanId[h]
<1> USE DEF hubVars
<1>1. ASSUME NEW id \in Ids, NEW g \in Handles, HubOpen(id, g)
      PROVE  chanId'[h] = chanId[h]
  BY <1>1 DEF HubOpen, TypeOK, HubTypeOK
<1>2. CASE UNCHANGED chanId
  BY <1>2
<1>3. QED
  BY <1>1, <1>2, NextCases
     DEF vars, LiveToken, LiveClose, IssueCheck, IssueInsert, LiveCloseTokens,
         Present, Admit, Subscribe, Greet, GreetFails, Leave, CloseChannel,
         CloseTokens, HubUnregister, HubDropTokens, HubAddToken, HubTakeToken,
         ChanSubscribe, ChanUnsubscribe

(* One step keeps AdmittedAsNamed: only Admit attaches a connection, after *)
(* the comparison, and a channel that is allocated never changes its id.   *)
LEMMA AdmittedStep ==
  ASSUME TypeOK, AdmittedAsNamed, [Next]_vars
  PROVE  AdmittedAsNamed'
<1> SUFFICES ASSUME NEW l \in Conns, conn'[l].chan # NoChannel
             PROVE  chanId'[conn'[l].chan] = conn'[l].path
  BY DEF AdmittedAsNamed
<1>1. ASSUME conn[l].chan # NoChannel,
             conn'[l].chan = conn[l].chan, conn'[l].path = conn[l].path
      PROVE  chanId'[conn'[l].chan] = conn'[l].path
  <2>1. conn[l].chan \in Handles /\ conn[l].path \in Ids
    BY <1>1 DEF TypeOK, IdleConn, RedeemedConn, AttachedConn
  <2>2. QED
    BY <1>1, <2>1, IdsArePermanent, HubAssumption DEF AdmittedAsNamed
<1>2. CASE UNCHANGED conn
  BY <1>1, <1>2
<1>3. ASSUME NEW k \in Conns, Admit(k)
      PROVE  chanId'[conn'[l].chan] = conn'[l].path
  <2>1. conn[k] \in RedeemedConn
    BY <1>3 DEF Admit, TypeOK, IdleConn, AttachedConn
  <2>2. CASE l # k
    BY <1>1, <1>3, <2>2 DEF Admit, ConnEnd, TypeOK
  <2>3. CASE l = k
    <3>1. conn'[k] = IdleConn
            \/ /\ chanId[conn'[k].chan] = conn[k].path
               /\ conn'[k].path = conn[k].path
      BY <1>3, <2>1 DEF Admit, ConnEnd, TypeOK, RedeemedConn
    <3>2. chanId' = chanId
      BY <1>3 DEF Admit, hubVars
    <3>3. QED
      BY <2>3, <3>1, <3>2 DEF IdleConn
  <2>4. QED
    BY <2>2, <2>3
<1>4. ASSUME NEW k \in Conns, NEW pc,
             \/ conn' = [conn EXCEPT ![k].pc = pc]
             \/ conn' = [conn EXCEPT ![k] = IdleConn]
      PROVE  chanId'[conn'[l].chan] = conn'[l].path
  BY <1>1, <1>4 DEF TypeOK, IdleConn, RedeemedConn, AttachedConn
<1>5. ASSUME NEW k \in Conns, NEW path \in Ids, NEW t \in Tokens,
             Present(k, path, t)
      PROVE  chanId'[conn'[l].chan] = conn'[l].path
  BY <1>1, <1>5 DEF Present, TypeOK
<1>6. QED
  BY <1>2, <1>3, <1>4, <1>5, NextCases
     DEF vars, LiveOpen, LiveToken, LiveClose, IssueCheck, IssueInsert,
         LiveCloseTokens, Subscribe, Greet, GreetFails, Leave, CloseChannel,
         CloseTokens, ConnEnd

(* In every reachable state a connection is attached to a channel of the   *)
(* id its URL names (ws.rs serve_connection, the comparison after redeem). *)
THEOREM AdmissionCorrect == Spec => []AdmittedAsNamed
<1>1. Init => AdmittedAsNamed
  BY DEF Init, AdmittedAsNamed, IdleConn
<1>2. TypeOK /\ AdmittedAsNamed /\ [Next]_vars => AdmittedAsNamed'
  BY AdmittedStep
<1>3. QED
  BY <1>1, <1>2, TypeCorrect, PTL DEF Spec

(* The table and the objects agree in every reachable state (hub.rs open   *)
(* and close).                                                             *)
THEOREM RegistryCorrect == Spec => []RegistryConsistent
<1>1. Init => RegistryConsistent
  BY DEF Init, HubInit, RegistryConsistent
<1>2. TypeOK /\ AdmittedAsNamed /\ RegistryConsistent /\ [Next]_vars
        => RegistryConsistent'
  <2> SUFFICES ASSUME TypeOK, AdmittedAsNamed, RegistryConsistent, [Next]_vars
               PROVE  RegistryConsistent'
    OBVIOUS
  <2>1. HubTypeOK
    BY DEF TypeOK
  <2>2. CASE UNCHANGED <<channels, chanId, closed>>
    BY <2>2 DEF RegistryConsistent
  <2>3. ASSUME NEW p \in Callers, NEW id \in Ids, LiveClose(p, id)
        PROVE  RegistryConsistent'
    BY <2>1, <2>3, HubUnregisterConsistent DEF LiveClose
  <2>4. ASSUME NEW k \in Conns, CloseChannel(k)
        PROVE  RegistryConsistent'
    <3>1. chanId[conn[k].chan] \in Ids
      BY <2>4, HubAssumption DEF CloseChannel, TypeOK, IdleConn, RedeemedConn,
         AttachedConn, AdmittedAsNamed
    <3>2. QED
      BY <2>1, <2>4, <3>1, HubUnregisterConsistent DEF CloseChannel
  <2>5. QED
    BY <2>1, <2>2, <2>3, <2>4, HubOpenConsistent, NextCases
       DEF vars, hubVars, LiveToken, IssueCheck, IssueInsert, LiveCloseTokens,
           Present, Admit, Subscribe, Greet, GreetFails, Leave, CloseTokens,
           HubDropTokens, HubAddToken, HubTakeToken, ChanSubscribe,
           ChanUnsubscribe
<1>3. QED
  BY <1>1, <1>2, TypeCorrect, AdmissionCorrect, PTL DEF Spec

-----------------------------------------------------------------------------
(* The tokens.                                                             *)

(* A spent token stays spent: a fresh uuid is never one drawn before.      *)
LEMMA SpentIsForever ==
  ASSUME TypeOK, [Next]_vars, NEW t \in Tokens, tokens[t] = Spent
  PROVE  tokens'[t] = Spent
<1> USE HubAssumption DEF TypeOK, HubTypeOK
<1>1. CASE UNCHANGED tokens
  BY <1>1
<1>2. ASSUME NEW id, HubDropTokens(id)
      PROVE  tokens'[t] = Spent
  BY <1>2 DEF HubDropTokens
<1>3. ASSUME NEW id, NEW u \in Tokens, HubAddToken(u, id)
      PROVE  tokens'[t] = Spent
  BY <1>3 DEF HubAddToken
<1>4. ASSUME NEW u \in Tokens, HubTakeToken(u)
      PROVE  tokens'[t] = Spent
  BY <1>4 DEF HubTakeToken
<1>5. QED
  BY <1>1, <1>2, <1>3, <1>4, NextCases
     DEF vars, hubVars, LiveOpen, HubOpen, LiveToken, LiveClose, IssueCheck,
         IssueInsert, LiveCloseTokens, Present, Admit, Subscribe, Greet,
         GreetFails, Leave, CloseChannel, CloseTokens, HubUnregister,
         ChanSubscribe, ChanUnsubscribe

(* A step other than Present gives no connection a token it did not hold.  *)
LEMMA TokensAreKept ==
  ASSUME TypeOK, Next,
         ~ \E k \in Conns, path \in Ids, t \in Tokens : Present(k, path, t),
         NEW l \in Conns
  PROVE  conn'[l].token \in {conn[l].token, NoToken}
<1>1. CASE UNCHANGED conn
  BY <1>1
<1>2. ASSUME NEW k \in Conns, NEW pc, conn' = [conn EXCEPT ![k].pc = pc]
      PROVE  conn'[l].token \in {conn[l].token, NoToken}
  BY <1>2 DEF TypeOK, IdleConn, RedeemedConn, AttachedConn
<1>3. ASSUME NEW k \in Conns, conn' = [conn EXCEPT ![k] = IdleConn]
      PROVE  conn'[l].token \in {conn[l].token, NoToken}
  BY <1>3 DEF TypeOK, IdleConn
<1>4. ASSUME NEW k \in Conns, Admit(k)
      PROVE  conn'[l].token \in {conn[l].token, NoToken}
  <2>1. conn[k] \in RedeemedConn
    BY <1>4 DEF Admit, TypeOK, IdleConn, AttachedConn
  <2>2. QED
    <3> DEFINE h == channels[conn[k].target]
    <3>1. CASE conn' = [conn EXCEPT ![k] = [@ EXCEPT !.pc = "admitted",
                                                     !.chan = h]]
      <4>1. [conn[k] EXCEPT !.pc = "admitted", !.chan = h].token = conn[k].token
        BY <2>1 DEF RedeemedConn
      <4>2. QED
        BY <3>1, <4>1 DEF TypeOK
    <3>2. QED
      BY <1>3, <1>4, <3>1 DEF Admit, ConnEnd
<1>5. QED
  BY <1>1, <1>2, <1>3, <1>4, NextCases
     DEF LiveOpen, LiveToken, LiveClose, IssueCheck, IssueInsert,
         LiveCloseTokens, Subscribe, Greet, GreetFails, Leave,
         CloseChannel, CloseTokens, ConnEnd

(* A token admits at most once (hub.rs redeem).                            *)
THEOREM TokensCorrect == Spec => []TokenSingleUse
<1>1. Init => TokenSingleUse
  BY DEF Init, TokenSingleUse, IdleConn
<1>2. TypeOK /\ TokenSingleUse /\ [Next]_vars => TokenSingleUse'
  <2> SUFFICES ASSUME TypeOK, TokenSingleUse, [Next]_vars
               PROVE  TokenSingleUse'
    OBVIOUS
  <2>1. \A l \in Conns : conn[l].token \in Tokens \cup {NoToken}
    BY DEF TypeOK, IdleConn, RedeemedConn, AttachedConn
  <2>2. CASE UNCHANGED vars
    BY <2>2 DEF vars, TokenSingleUse
  <2>3. CASE /\ Next
             /\ ~ \E k \in Conns, path \in Ids, t \in Tokens :
                     Present(k, path, t)
    <3> SUFFICES ASSUME NEW k \in Conns, conn'[k].token # NoToken
                 PROVE  /\ tokens'[conn'[k].token] = Spent
                        /\ \A l \in Conns :
                             conn'[l].token = conn'[k].token => l = k
      BY DEF TokenSingleUse
    <3>1. conn'[k].token = conn[k].token
      BY <2>3, TokensAreKept
    <3>2. tokens'[conn[k].token] = Spent
      BY <2>1, <3>1, SpentIsForever DEF TokenSingleUse
    <3>3. \A l \in Conns : conn'[l].token = conn[k].token => l = k
      BY <2>3, <3>1, TokensAreKept DEF TokenSingleUse
    <3>4. QED
      BY <3>1, <3>2, <3>3
  <2>4. ASSUME NEW k \in Conns, NEW path \in Ids, NEW t \in Tokens,
               Present(k, path, t)
        PROVE  TokenSingleUse'
    <3>1. /\ tokens[t] # Spent
          /\ tokens'[t] = Spent
      BY <2>4, HubAssumption DEF Present, HubTakeToken, TypeOK, HubTypeOK
    <3>2. \A l \in Conns : conn[l].token # t
      BY <3>1, ServerAssumption DEF TokenSingleUse
    <3>3. \A l \in Conns :
            conn'[l].token = IF l = k THEN t ELSE conn[l].token
      BY <2>4 DEF Present, TypeOK
    <3>4. \A l \in Conns : conn[l].token # NoToken =>
                            tokens'[conn[l].token] = Spent
      BY <2>1, SpentIsForever DEF TokenSingleUse
    <3>5. QED
      BY <3>1, <3>2, <3>3, <3>4 DEF TokenSingleUse
  <2>5. QED
    BY <2>2, <2>3, <2>4
<1>3. QED
  BY <1>1, <1>2, TypeCorrect, PTL DEF Spec

(* A token in the table whose insertion found its channel open belongs to  *)
(* that channel while it is open, and is about to be dropped once it is    *)
(* not; one that a connection has just redeemed belongs to an open channel;*)
(* and one that was used admitted to the channel it was issued for.        *)
Filed(t) == tokens[t] \in Ids /\ t \notin loose =>
  /\ issuedFor[t] \in Handles
  /\ chanId[issuedFor[t]] = tokens[t]
  /\ closed[issuedFor[t]] => Closing(tokens[t])
Redeemed(k) == conn[k].pc = "redeemed" /\ conn[k].token \notin loose =>
  /\ issuedFor[conn[k].token] \in Handles
  /\ chanId[issuedFor[conn[k].token]] = conn[k].target
  /\ ~closed[issuedFor[conn[k].token]]
Found(p) == rpc[p].pc = "inserting" => chanId[rpc[p].chan] = rpc[p].id

IssueInv == /\ \A t \in Tokens : Filed(t)
            /\ \A k \in Conns : Redeemed(k)
            /\ \A p \in Callers : Found(p)
            /\ AdmittedToIssued

(* A caller and a connection move only by their own steps.                 *)
LEMMA RpcMoves ==
  ASSUME TypeOK, [Next]_vars, NEW q \in Callers
  PROVE  \/ rpc'[q] = rpc[q]
         \/ \E id \in Ids : LiveOpen(q, id) \/ LiveToken(q, id) \/ LiveClose(q, id)
         \/ IssueCheck(q)
         \/ \E t \in Tokens : IssueInsert(q, t)
         \/ LiveCloseTokens(q)
<1>1. CASE UNCHANGED rpc
  BY <1>1
<1>2. ASSUME NEW p \in Callers, NEW c, rpc' = [rpc EXCEPT ![p] = c]
      PROVE  p = q \/ rpc'[q] = rpc[q]
  BY <1>2 DEF TypeOK
<1>3. QED
  BY <1>1, <1>2, NextCases
     DEF vars, RpcGoto, RpcReturn, LiveOpen, LiveToken, LiveClose, IssueCheck,
         IssueInsert, LiveCloseTokens, Present, Admit, Subscribe, Greet,
         GreetFails, Leave, CloseChannel, CloseTokens

LEMMA ConnMoves ==
  ASSUME TypeOK, [Next]_vars, NEW l \in Conns
  PROVE  \/ conn'[l] = conn[l]
         \/ \E path \in Ids, t \in Tokens : Present(l, path, t)
         \/ Admit(l) \/ Subscribe(l) \/ Greet(l) \/ GreetFails(l)
         \/ Leave(l) \/ CloseChannel(l) \/ CloseTokens(l)
<1>1. CASE UNCHANGED conn
  BY <1>1
<1>2. ASSUME NEW k \in Conns, NEW c, conn' = [conn EXCEPT ![k] = c]
      PROVE  k = l \/ conn'[l] = conn[l]
  BY <1>2 DEF TypeOK
<1>3. ASSUME NEW k \in Conns, Admit(k)
      PROVE  k = l \/ conn'[l] = conn[l]
  BY <1>2, <1>3 DEF Admit, ConnEnd
<1>4. ASSUME NEW k \in Conns,
             \/ Subscribe(k) \/ Greet(k) \/ GreetFails(k) \/ Leave(k)
             \/ CloseChannel(k) \/ CloseTokens(k)
      PROVE  k = l \/ conn'[l] = conn[l]
  BY <1>2, <1>4 DEF ConnEnd, Subscribe, Greet, GreetFails, Leave,
     CloseChannel, CloseTokens
<1>5. ASSUME NEW k \in Conns, NEW path \in Ids, NEW t \in Tokens,
             Present(k, path, t)
      PROVE  k = l \/ conn'[l] = conn[l]
  BY <1>2, <1>5 DEF Present
<1>6. QED
  BY <1>1, <1>3, <1>4, <1>5, NextCases
     DEF vars, LiveOpen, LiveToken, LiveClose, IssueCheck, IssueInsert,
         LiveCloseTokens

(* What is noted of a token stays: loose tokens are loose for good, and a  *)
(* token that was drawn is never issued again.                             *)
LEMMA HistoryKept ==
  ASSUME TypeOK, [Next]_vars
  PROVE  /\ loose \subseteq loose'
         /\ \A t \in Tokens : tokens[t] # Unissued => issuedFor'[t] = issuedFor[t]
<1>1. CASE UNCHANGED history
  BY <1>1 DEF history
<1>2. ASSUME NEW ts, Loosen(ts)
      PROVE  /\ loose \subseteq loose'
             /\ issuedFor' = issuedFor
  BY <1>2 DEF Loosen
<1>3. ASSUME NEW p \in Callers, NEW u \in Tokens, IssueInsert(p, u)
      PROVE  /\ loose \subseteq loose'
             /\ \A t \in Tokens : tokens[t] # Unissued => issuedFor'[t] = issuedFor[t]
  BY <1>3 DEF IssueInsert, HubAddToken, TypeOK
<1>4. QED
  BY <1>1, <1>2, <1>3, NextCases
     DEF vars, history, LiveOpen, LiveToken, LiveClose, IssueCheck,
         LiveCloseTokens, Present, Admit, Subscribe, Greet, GreetFails, Leave,
         CloseChannel, CloseTokens

(* A channel is closed by the first half of a close of its id.             *)
LEMMA ClosedByClose ==
  ASSUME TypeOK, [Next]_vars, NEW g \in Handles, ~closed[g], closed'[g]
  PROVE  \/ \E p \in Callers, id \in Ids : LiveClose(p, id) /\ channels[id] = g
         \/ \E k \in Conns : /\ CloseChannel(k)
                              /\ channels[chanId[conn[k].chan]] = g
<1>1. CASE UNCHANGED closed
  BY <1>1
<1>2. ASSUME NEW id \in Ids, NEW h \in Handles, HubOpen(id, h)
      PROVE  FALSE
  BY <1>2 DEF HubOpen, TypeOK, HubTypeOK
<1>3. ASSUME NEW id, HubUnregister(id)
      PROVE  channels[id] = g
  BY <1>3 DEF HubUnregister
<1>4. QED
  BY <1>1, <1>2, <1>3, NextCases
     DEF vars, hubVars, LiveToken, LiveClose, IssueCheck, IssueInsert,
         LiveCloseTokens, Present, Admit, Subscribe, Greet, GreetFails, Leave,
         CloseChannel, CloseTokens, HubDropTokens, HubAddToken, HubTakeToken,
         ChanSubscribe, ChanUnsubscribe

(* A token enters the table by its insertion and by nothing else.          *)
LEMMA TokenEnters ==
  ASSUME TypeOK, [Next]_vars, NEW t \in Tokens, tokens'[t] \in Ids
  PROVE  tokens'[t] = tokens[t] \/ \E p \in Callers : IssueInsert(p, t)
<1> USE HubAssumption DEF TypeOK, HubTypeOK
<1>1. CASE UNCHANGED tokens
  BY <1>1
<1>2. ASSUME NEW id, HubDropTokens(id)
      PROVE  tokens'[t] = tokens[t]
  BY <1>2 DEF HubDropTokens
<1>3. ASSUME NEW p \in Callers, NEW u \in Tokens, IssueInsert(p, u)
      PROVE  u = t \/ tokens'[t] = tokens[t]
  BY <1>3 DEF IssueInsert, HubAddToken
<1>4. ASSUME NEW u \in Tokens, HubTakeToken(u)
      PROVE  tokens'[t] = tokens[t]
  BY <1>4 DEF HubTakeToken
<1>5. QED
  BY <1>1, <1>2, <1>3, <1>4, NextCases
     DEF vars, hubVars, LiveOpen, HubOpen, LiveToken, LiveClose, IssueCheck,
         LiveCloseTokens, Present, Admit, Subscribe, Greet,
         GreetFails, Leave, CloseChannel, CloseTokens, HubUnregister,
         ChanSubscribe, ChanUnsubscribe

(* Whoever is in the middle of a close of id stays there until it has      *)
(* dropped the tokens of id.                                               *)
LEMMA ClosingLasts ==
  ASSUME TypeOK, AdmittedAsNamed, [Next]_vars, NEW id \in Ids, Closing(id),
         NEW t \in Tokens, tokens[t] = id, tokens'[t] = id
  PROVE  Closing(id)'
<1>a. ~HubDropTokens(id)
  BY HubAssumption DEF HubDropTokens
<1>1. ASSUME NEW p \in Callers, rpc[p].pc = "dropping", rpc[p].id = id
      PROVE  Closing(id)'
  <2>1. ~LiveCloseTokens(p)
    BY <1>a, <1>1 DEF LiveCloseTokens
  <2>2. rpc'[p] = rpc[p]
    BY <1>1, <2>1, RpcMoves
       DEF LiveOpen, LiveToken, LiveClose, IssueCheck, IssueInsert
  <2>3. QED
    BY <1>1, <2>2 DEF Closing
<1>2. ASSUME NEW k \in Conns, conn[k].pc = "dropping",
             chanId[conn[k].chan] = id
      PROVE  Closing(id)'
  <2>1. ~CloseTokens(k)
    BY <1>a, <1>2 DEF CloseTokens
  <2>2. conn'[k] = conn[k]
    BY <1>2, <2>1, ConnMoves
       DEF Present, Admit, Subscribe, Greet, GreetFails, Leave, CloseChannel
  <2>3. conn[k].chan \in Handles
    BY <1>2 DEF TypeOK, IdleConn, RedeemedConn, AttachedConn
  <2>4. chanId'[conn[k].chan] = id
    BY <1>2, <2>3, IdsArePermanent, HubAssumption
  <2>5. QED
    BY <1>2, <2>2, <2>4 DEF Closing
<1>3. QED
  BY <1>1, <1>2 DEF Closing

(* A close that has unregistered a channel is in the middle of the close.  *)
LEMMA ClosingBegins ==
  ASSUME TypeOK, AdmittedAsNamed, RegistryConsistent, [Next]_vars,
         NEW g \in Handles, ~closed[g], closed'[g], NEW id \in Ids,
         chanId[g] = id
  PROVE  Closing(id)'
<1>1. ASSUME NEW p \in Callers, NEW i \in Ids, LiveClose(p, i),
             channels[i] = g
      PROVE  Closing(id)'
  <2>1. i = id
    BY <1>1, HubAssumption DEF RegistryConsistent
  <2>2. rpc'[p].pc = "dropping" /\ rpc'[p].id = id
    BY <1>1, <2>1 DEF LiveClose, RpcGoto, TypeOK
  <2>3. QED
    BY <2>2 DEF Closing
<1>2. ASSUME NEW k \in Conns, CloseChannel(k),
             channels[chanId[conn[k].chan]] = g
      PROVE  Closing(id)'
  <2>1. conn[k] \in AttachedConn
    BY <1>2 DEF CloseChannel, TypeOK, IdleConn, RedeemedConn
  <2>2. chanId[conn[k].chan] \in Ids
    BY <2>1, HubAssumption DEF AdmittedAsNamed, AttachedConn
  <2>3. chanId[conn[k].chan] = id
    BY <1>2, <2>2, HubAssumption DEF RegistryConsistent
  <2>4. /\ conn'[k].pc = "dropping"
        /\ conn'[k].chan = conn[k].chan
        /\ chanId' = chanId
    BY <1>2, <2>1 DEF CloseChannel, HubUnregister, TypeOK, AttachedConn
  <2>5. QED
    BY <2>3, <2>4 DEF Closing
<1>3. QED
  BY <1>1, <1>2, ClosedByClose

LEMMA FiledStep ==
  ASSUME TypeOK, AdmittedAsNamed, RegistryConsistent, IssueInv, [Next]_vars,
         NEW t \in Tokens
  PROVE  Filed(t)'
<1> SUFFICES ASSUME tokens'[t] \in Ids, t \notin loose'
             PROVE  /\ issuedFor'[t] \in Handles
                    /\ chanId'[issuedFor'[t]] = tokens'[t]
                    /\ closed'[issuedFor'[t]] => Closing(tokens[t])'
  BY DEF Filed
<1>1. ASSUME NEW p \in Callers, IssueInsert(p, t)
      PROVE  /\ issuedFor'[t] \in Handles
             /\ chanId'[issuedFor'[t]] = tokens'[t]
             /\ ~closed'[issuedFor'[t]]
  <2>1. rpc[p] \in InsertingCaller
    BY <1>1 DEF IssueInsert, TypeOK, IdleCaller, BusyCaller
  <2>2. /\ issuedFor'[t] = rpc[p].chan
        /\ tokens'[t] = rpc[p].id
        /\ UNCHANGED <<chanId, closed>>
    BY <1>1 DEF IssueInsert, HubAddToken, TypeOK, HubTypeOK
  <2>3. ~closed[rpc[p].chan]
    BY <1>1 DEF IssueInsert
  <2>4. chanId[rpc[p].chan] = rpc[p].id
    BY <2>1 DEF IssueInv, Found, InsertingCaller
  <2>5. QED
    BY <2>1, <2>2, <2>3, <2>4 DEF InsertingCaller
<1>2. ASSUME NEW p \in Callers, NEW u \in Tokens, IssueInsert(p, u), u # t
      PROVE  tokens'[t] = tokens[t]
  BY <1>2 DEF IssueInsert, HubAddToken, TypeOK, HubTypeOK
<1>3. CASE tokens'[t] = tokens[t]
  <2> DEFINE g == issuedFor[t]
  <2>1. t \notin loose /\ issuedFor'[t] = g
    BY <1>3, HistoryKept, HubAssumption
  <2>2. /\ g \in Handles
        /\ chanId[g] = tokens[t]
        /\ closed[g] => Closing(tokens[t])
    BY <1>3, <2>1 DEF IssueInv, Filed
  <2>3. chanId'[g] = tokens[t]
    BY <1>3, <2>2, IdsArePermanent, HubAssumption
  <2>4. closed[g] => Closing(tokens[t])'
    BY <1>3, <2>2, ClosingLasts
  <2>5. ~closed[g] /\ closed'[g] => Closing(tokens[t])'
    BY <1>3, <2>2, ClosingBegins
  <2>6. QED
    BY <1>3, <2>1, <2>2, <2>3, <2>4, <2>5
<1>4. QED
  BY <1>1, <1>3, TokenEnters

LEMMA RedeemedStep ==
  ASSUME TypeOK, TokenSingleUse, RegistryConsistent, IssueInv, [Next]_vars,
         NEW k \in Conns
  PROVE  Redeemed(k)'
<1> DEFINE t == conn'[k].token
<1> SUFFICES ASSUME conn'[k].pc = "redeemed", t \notin loose'
             PROVE  /\ issuedFor'[t] \in Handles
                    /\ chanId'[issuedFor'[t]] = conn'[k].target
                    /\ ~closed'[issuedFor'[t]]
  BY DEF Redeemed
<1>1. ASSUME NEW path \in Ids, NEW u \in Tokens, Present(k, path, u)
      PROVE  /\ issuedFor'[t] \in Handles
             /\ chanId'[issuedFor'[t]] = conn'[k].target
             /\ ~closed'[issuedFor'[t]]
  <2>1. t = u /\ conn'[k].target = tokens[u]
    BY <1>1 DEF Present, TypeOK
  <2>2. /\ tokens[u] \in Ids
        /\ UNCHANGED <<chanId, closed, issuedFor>>
        /\ ~(closed[issuedFor[u]] /\ Closing(tokens[u]))
    BY <1>1, <2>1 DEF Present, HubTakeToken, Loosen
  <2>3. u \notin loose
    BY <2>1, HistoryKept
  <2>4. Filed(u)
    BY DEF IssueInv
  <2>5. QED
    BY <2>1, <2>2, <2>3, <2>4 DEF Filed
<1>2. CASE conn'[k] = conn[k]
  <2>1. conn[k] \in RedeemedConn
    BY <1>2 DEF TypeOK, IdleConn, AttachedConn
  <2>2. t = conn[k].token /\ t \in Tokens /\ t # NoToken
    BY <1>2, <2>1, ServerAssumption DEF RedeemedConn
  <2>3. tokens[t] = Spent
    BY <2>2 DEF TokenSingleUse
  <2>4. issuedFor'[t] = issuedFor[t] /\ t \notin loose
    BY <2>2, <2>3, HistoryKept, HubAssumption
  <2> DEFINE g == issuedFor[t]
  <2>5. g \in Handles /\ chanId[g] = conn[k].target /\ ~closed[g]
    BY <1>2, <2>2, <2>4 DEF IssueInv, Redeemed
  <2>6. chanId'[g] = chanId[g]
    BY <2>1, <2>5, IdsArePermanent, HubAssumption DEF RedeemedConn
  <2>7. t \in InRedeem(g)
    BY <1>2, <2>2 DEF InRedeem
  <2>8. ASSUME Loosen(InRedeem(g))
        PROVE  FALSE
    BY <2>7, <2>8 DEF Loosen
  <2>9. ~closed'[g]
    <3> HIDE DEF g
    <3>1. SUFFICES ASSUME closed'[g] PROVE FALSE
      OBVIOUS
    <3>2. QED
      BY <2>5, <2>8, <3>1, ClosedByClose DEF LiveClose, CloseChannel
  <2>10. QED
    BY <1>2, <2>4, <2>5, <2>6, <2>9
<1>3. ASSUME \/ Admit(k) \/ Subscribe(k) \/ Greet(k) \/ GreetFails(k)
             \/ Leave(k) \/ CloseChannel(k) \/ CloseTokens(k)
      PROVE  FALSE
  <2>1. CASE Admit(k)
    <3>1. conn[k] \in RedeemedConn
      BY <2>1 DEF Admit, TypeOK, IdleConn, AttachedConn
    <3>2. conn'[k].pc \in {"admitted", "idle"}
      <4> DEFINE h == channels[conn[k].target]
      <4>1. [conn[k] EXCEPT !.pc = "admitted", !.chan = h].pc = "admitted"
        BY <3>1 DEF RedeemedConn
      <4>2. CASE conn' = [conn EXCEPT ![k] = [@ EXCEPT !.pc = "admitted",
                                                       !.chan = h]]
        BY <4>1, <4>2 DEF TypeOK
      <4>3. CASE conn' = [conn EXCEPT ![k] = IdleConn]
        BY <4>3 DEF TypeOK, IdleConn
      <4>4. QED
        BY <2>1, <4>2, <4>3 DEF Admit, ConnEnd
    <3>3. QED
      BY <3>2
  <2>2. CASE ~Admit(k)
    BY <1>3, <2>2
       DEF Subscribe, Greet, GreetFails, Leave, CloseChannel, CloseTokens,
           ConnEnd, TypeOK, IdleConn, RedeemedConn, AttachedConn
  <2>3. QED
    BY <2>1, <2>2
<1>4. QED
  BY <1>1, <1>2, <1>3, ConnMoves

LEMMA FoundStep ==
  ASSUME TypeOK, RegistryConsistent, IssueInv, [Next]_vars, NEW p \in Callers
  PROVE  Found(p)'
<1> SUFFICES ASSUME rpc'[p].pc = "inserting"
             PROVE  chanId'[rpc'[p].chan] = rpc'[p].id
  BY DEF Found
<1>1. CASE rpc'[p] = rpc[p]
  <2>1. rpc[p] \in InsertingCaller
    BY <1>1 DEF TypeOK, IdleCaller, BusyCaller
  <2>2. chanId[rpc[p].chan] = rpc[p].id
    BY <1>1 DEF IssueInv, Found
  <2>3. QED
    BY <1>1, <2>1, <2>2, IdsArePermanent, HubAssumption DEF InsertingCaller
<1>2. CASE IssueCheck(p)
  <2> DEFINE i == rpc[p].id
  <2>1. i \in Ids
    BY <1>2 DEF IssueCheck, TypeOK, IdleCaller, BusyCaller, InsertingCaller
  <2>2. /\ channels[i] # NoChannel
        /\ rpc'[p].id = i
        /\ rpc'[p].chan = channels[i]
        /\ chanId' = chanId
    BY <1>2 DEF IssueCheck, RpcGoto, RpcReturn, TypeOK, IdleCaller, hubVars
  <2>3. QED
    BY <2>1, <2>2 DEF RegistryConsistent
<1>3. ASSUME \/ \E id \in Ids : LiveOpen(p, id) \/ LiveToken(p, id)
                                  \/ LiveClose(p, id)
             \/ \E t \in Tokens : IssueInsert(p, t)
             \/ LiveCloseTokens(p)
      PROVE  FALSE
  BY <1>3 DEF LiveOpen, LiveToken, LiveClose, IssueInsert, LiveCloseTokens,
     RpcGoto, RpcReturn, TypeOK, IdleCaller
<1>4. QED
  BY <1>1, <1>2, <1>3, RpcMoves

LEMMA AdmittedToIssuedStep ==
  ASSUME TypeOK, TokenSingleUse, RegistryConsistent, IssueInv, [Next]_vars
  PROVE  AdmittedToIssued'
<1> SUFFICES ASSUME NEW k \in Conns, conn'[k].chan # NoChannel
             PROVE  \/ conn'[k].chan = issuedFor'[conn'[k].token]
                    \/ conn'[k].token \in loose'
  BY DEF AdmittedToIssued
<1> DEFINE t == conn[k].token
<1>a. conn[k] \notin {IdleConn} =>
        t # NoToken /\ t \in Tokens /\ issuedFor'[t] = issuedFor[t]
  <2>1. conn[k] # IdleConn => t # NoToken /\ t \in Tokens
    BY ServerAssumption DEF TypeOK, RedeemedConn, AttachedConn
  <2>2. QED
    BY <2>1, HistoryKept, HubAssumption DEF TokenSingleUse
<1>1. CASE conn'[k].chan = conn[k].chan /\ conn'[k].token = t
  <2>1. conn[k] # IdleConn
    BY <1>1 DEF IdleConn
  <2>2. conn[k].chan = issuedFor[t] \/ t \in loose
    BY <1>1 DEF IssueInv, AdmittedToIssued
  <2>3. QED
    BY <1>1, <1>a, <2>1, <2>2, HistoryKept
<1>2. CASE Admit(k)
  <2> DEFINE h == channels[conn[k].target]
  <2>1. conn[k] \in RedeemedConn /\ conn[k].pc = "redeemed"
    BY <1>2 DEF Admit, TypeOK, IdleConn, AttachedConn
  <2>2. conn[k] # IdleConn
    BY <2>1 DEF IdleConn
  <2>3. CASE conn' = [conn EXCEPT ![k] = [@ EXCEPT !.pc = "admitted",
                                                   !.chan = h]]
    <3>1. /\ [conn[k] EXCEPT !.pc = "admitted", !.chan = h].token = t
          /\ [conn[k] EXCEPT !.pc = "admitted", !.chan = h].chan = h
      BY <2>1 DEF RedeemedConn
    <3>2. conn'[k].token = t /\ conn'[k].chan = h
      BY <2>3, <3>1 DEF TypeOK
    <3>3. CASE t \notin loose
      <4>1. /\ issuedFor[t] \in Handles
            /\ chanId[issuedFor[t]] = conn[k].target
            /\ ~closed[issuedFor[t]]
        BY <2>1, <3>3 DEF IssueInv, Redeemed
      <4>2. chanId[issuedFor[t]] # NoId
        BY <2>1, <4>1, HubAssumption DEF RedeemedConn
      <4>3. channels[conn[k].target] = issuedFor[t]
        BY <4>1, <4>2 DEF RegistryConsistent
      <4>4. QED
        BY <1>a, <2>2, <3>2, <4>3
    <3>4. QED
      BY <3>2, <3>3, HistoryKept
  <2>4. CASE conn' = [conn EXCEPT ![k] = IdleConn]
    BY <2>4 DEF TypeOK, IdleConn
  <2>5. QED
    BY <1>2, <2>3, <2>4 DEF Admit, ConnEnd
<1>3. ASSUME NEW path \in Ids, NEW u \in Tokens, Present(k, path, u)
      PROVE  FALSE
  BY <1>3 DEF Present, TypeOK
<1>4. ASSUME \/ Subscribe(k) \/ Greet(k) \/ GreetFails(k) \/ Leave(k)
             \/ CloseChannel(k) \/ CloseTokens(k)
      PROVE  conn'[k].chan = conn[k].chan /\ conn'[k].token = t
  BY <1>4 DEF Subscribe, Greet, GreetFails, Leave, CloseChannel, CloseTokens,
     ConnEnd, TypeOK, IdleConn, RedeemedConn, AttachedConn
<1>5. QED
  BY <1>1, <1>2, <1>3, <1>4, ConnMoves

(* A token admits only to the channel object it was issued for, but for    *)
(* the tokens whose channel was closed in a gap between two locks (hub.rs  *)
(* issue_token, close and redeem).                                         *)
THEOREM IssueCorrect == Spec => []AdmittedToIssued
<1>1. Init => IssueInv
  BY HubAssumption
     DEF Init, HubInit, IssueInv, Filed, Redeemed, Found, AdmittedToIssued,
         IdleConn, IdleCaller
<1>2. TypeOK /\ AdmittedAsNamed /\ RegistryConsistent /\ TokenSingleUse
        /\ IssueInv /\ [Next]_vars => IssueInv'
  <2> SUFFICES ASSUME TypeOK, AdmittedAsNamed, RegistryConsistent,
                      TokenSingleUse, IssueInv, [Next]_vars
               PROVE  IssueInv'
    OBVIOUS
  <2>1. \A t \in Tokens : Filed(t)'
    BY FiledStep
  <2>2. \A k \in Conns : Redeemed(k)'
    BY RedeemedStep
  <2>3. \A p \in Callers : Found(p)'
    BY FoundStep
  <2>4. AdmittedToIssued'
    BY AdmittedToIssuedStep
  <2>5. QED
    BY <2>1, <2>2, <2>3, <2>4 DEF IssueInv
<1>3. IssueInv => AdmittedToIssued
  BY DEF IssueInv
<1>4. QED
  BY <1>1, <1>2, <1>3, TypeCorrect, AdmissionCorrect, RegistryCorrect,
     TokensCorrect, PTL DEF Spec

-----------------------------------------------------------------------------
(* The subscriber counter.                                                 *)

(* The viewers of a channel are finitely many, and fewer than UsizeMod.    *)
LEMMA ViewersFinite ==
  ASSUME NEW h
  PROVE  /\ IsFiniteSet(Viewers(h))
         /\ Cardinality(Viewers(h)) \in Nat
         /\ Cardinality(Viewers(h)) < UsizeMod
<1>1. Viewers(h) \subseteq Conns
  BY DEF Viewers
<1>2. /\ IsFiniteSet(Viewers(h))
      /\ Cardinality(Viewers(h)) <= Cardinality(Conns)
  BY <1>1, FS_Subset, ServerAssumption
<1>3. Cardinality(Viewers(h)) \in Nat /\ Cardinality(Conns) \in Nat
  BY <1>2, FS_CardinalityType, ServerAssumption
<1>4. QED
  BY <1>2, <1>3, ServerAssumption, HubAssumption

(* The counter property, restated from the handles' side.                  *)
LEMMA CountIntro ==
  ASSUME HubTypeOK',
         \A i \in Ids, g \in Handles : channels'[i] = g =>
           subscribers'[g] = Cardinality(Viewers(g)')
  PROVE  CountIsViewers'
BY HubAssumption DEF CountIsViewers, HubTypeOK, Viewers, Watching

(* A step that touches neither the table, nor a counter, nor who watches.  *)
LEMMA CountUntouched ==
  ASSUME CountIsViewers, UNCHANGED <<channels, subscribers>>,
         \A l \in Conns, g \in Handles : Watching(l, g)' <=> Watching(l, g),
         HubTypeOK, HubTypeOK'
  PROVE  CountIsViewers'
<1>1. ASSUME NEW g \in Handles PROVE Viewers(g)' = Viewers(g)
  BY DEF Viewers
<1>2. QED
  BY <1>1, CountIntro, HubAssumption DEF CountIsViewers

(* Dropping a channel leaves the counters of the other registered ones.    *)
LEMMA HubUnregisterCounts ==
  ASSUME HubTypeOK, HubTypeOK', RegistryConsistent, CountIsViewers,
         NEW id \in Ids, HubUnregister(id),
         \A l \in Conns, g \in Handles : Watching(l, g)' <=> Watching(l, g)
  PROVE  CountIsViewers'
<1> SUFFICES ASSUME NEW i \in Ids, NEW g \in Handles, channels'[i] = g
             PROVE  subscribers'[g] = Cardinality(Viewers(g)')
  BY CountIntro
<1>1. channels[i] = g /\ i # id
  BY HubAssumption DEF HubUnregister, HubTypeOK
<1>2. g # channels[id]
  BY <1>1, HubAssumption DEF RegistryConsistent
<1>3. subscribers'[g] = subscribers[g]
  BY <1>2 DEF HubUnregister
<1>4. Viewers(g)' = Viewers(g)
  BY DEF Viewers
<1>5. QED
  BY <1>1, <1>3, <1>4, HubAssumption DEF CountIsViewers

(* A new channel has no viewer yet; one that is found again keeps its own. *)
LEMMA HubOpenCounts ==
  ASSUME TypeOK, HubTypeOK', AdmittedAsNamed, CountIsViewers,
         NEW id \in Ids, NEW h \in Handles, HubOpen(id, h), UNCHANGED conn
  PROVE  CountIsViewers'
<1> SUFFICES ASSUME NEW i \in Ids, NEW g \in Handles, channels'[i] = g
             PROVE  subscribers'[g] = Cardinality(Viewers(g)')
  BY CountIntro
<1>1. Viewers(g)' = Viewers(g)
  BY DEF Viewers, Watching
<1>2. CASE channels[i] = g /\ subscribers'[g] = subscribers[g]
  BY <1>1, <1>2, HubAssumption DEF CountIsViewers
<1>3. CASE chanId[g] = NoId /\ subscribers'[g] = 0
  <2>1. Viewers(g) = {}
    BY <1>3, HubAssumption
       DEF Viewers, Watching, AdmittedAsNamed, TypeOK, IdleConn, RedeemedConn,
           AttachedConn
  <2>2. QED
    BY <1>1, <1>3, <2>1, FS_EmptySet
<1>4. channels[i] = g /\ chanId[h] = NoId /\ channels[id] = NoChannel
        => h = g \/ subscribers'[g] = subscribers[g]
  BY DEF HubOpen, TypeOK, HubTypeOK
<1>5. QED
  BY <1>2, <1>3, <1>4 DEF HubOpen, TypeOK, HubTypeOK

(* A connection that starts watching is counted.                           *)
LEMMA SubscribeCounts ==
  ASSUME TypeOK, HubTypeOK', CountIsViewers, NEW k \in Conns, Subscribe(k)
  PROVE  CountIsViewers'
<1> SUFFICES ASSUME NEW i \in Ids, NEW g \in Handles, channels'[i] = g
             PROVE  subscribers'[g] = Cardinality(Viewers(g)')
  BY CountIntro
<1> DEFINE h == conn[k].chan
<1>1. /\ channels[i] = g
      /\ subscribers[g] = Cardinality(Viewers(g))
  BY HubAssumption DEF Subscribe, ChanSubscribe, CountIsViewers
<1>2. /\ conn[k].pc = "admitted"
      /\ \A l \in Conns : conn'[l].chan = conn[l].chan
      /\ \A l \in Conns :
           conn'[l].pc = IF l = k THEN "greeting" ELSE conn[l].pc
  BY DEF Subscribe, TypeOK, IdleConn, RedeemedConn, AttachedConn
<1>3. CASE g # h
  <2>1. subscribers'[g] = subscribers[g]
    BY <1>3 DEF Subscribe, ChanSubscribe, TypeOK, HubTypeOK
  <2>2. Viewers(g)' = Viewers(g)
    BY <1>2, <1>3 DEF Viewers, Watching
  <2>3. QED
    BY <1>1, <2>1, <2>2
<1>4. CASE g = h
  <2>1. subscribers'[g] = (subscribers[g] + 1) % UsizeMod
    BY <1>4 DEF Subscribe, ChanSubscribe, TypeOK, HubTypeOK
  <2>2. k \notin Viewers(g)
    BY <1>2 DEF Viewers, Watching
  <2>3. Viewers(g)' = Viewers(g) \cup {k}
    BY <1>2, <1>4 DEF Viewers, Watching
  <2>4. Cardinality(Viewers(g)') = Cardinality(Viewers(g)) + 1
    BY <2>2, <2>3, ViewersFinite, FS_AddElement
  <2>5. Cardinality(Viewers(g)) + 1 < UsizeMod
    <3>1. Viewers(g) \cup {k} \subseteq Conns
      BY DEF Viewers
    <3>2. Cardinality(Viewers(g) \cup {k}) <= Cardinality(Conns)
      BY <3>1, FS_Subset, ServerAssumption
    <3>3. QED
      BY <2>3, <2>4, <3>2, ViewersFinite, FS_CardinalityType,
         ServerAssumption, HubAssumption
  <2>6. QED
    BY <1>1, <2>1, <2>4, <2>5, ViewersFinite, HubAssumption
<1>5. QED
  BY <1>3, <1>4

(* One that stops watching is counted off: the counter of a registered     *)
(* channel does not wrap.                                                  *)
LEMMA UnsubscribeCounts ==
  ASSUME TypeOK, HubTypeOK', CountIsViewers, NEW k \in Conns,
         conn[k].pc \in {"greeting", "streaming"},
         ChanUnsubscribe(conn[k].chan),
         \A l \in Conns : l # k => conn'[l] = conn[l],
         conn'[k].pc \notin {"greeting", "streaming"}
  PROVE  CountIsViewers'
<1> SUFFICES ASSUME NEW i \in Ids, NEW g \in Handles, channels'[i] = g
             PROVE  subscribers'[g] = Cardinality(Viewers(g)')
  BY CountIntro
<1> DEFINE h == conn[k].chan
<1>1. /\ channels[i] = g
      /\ subscribers[g] = Cardinality(Viewers(g))
  BY HubAssumption DEF ChanUnsubscribe, CountIsViewers
<1>2. Viewers(g)' = Viewers(g) \ {k}
  BY DEF Viewers, Watching
<1>3. CASE g # h
  <2>1. subscribers'[g] = subscribers[g]
    BY <1>3 DEF ChanUnsubscribe, TypeOK, HubTypeOK
  <2>2. k \notin Viewers(g)
    BY <1>3 DEF Viewers, Watching
  <2>3. Viewers(g)' = Viewers(g)
    BY <1>2, <2>2
  <2>4. QED
    BY <1>1, <2>1, <2>3
<1>4. CASE g = h
  <2>1. subscribers'[g] = (subscribers[g] + UsizeMod - 1) % UsizeMod
    BY <1>4 DEF ChanUnsubscribe, TypeOK, HubTypeOK
  <2>2. k \in Viewers(g)
    BY <1>4 DEF Viewers, Watching
  <2>3. /\ Cardinality(Viewers(g)') = Cardinality(Viewers(g)) - 1
        /\ Cardinality(Viewers(g)') \in Nat
    BY <1>2, <2>2, ViewersFinite, FS_RemoveElement, FS_CardinalityType
  <2>4. \A n \in Nat : 0 < n /\ n < UsizeMod
                         => (n + UsizeMod - 1) % UsizeMod = n - 1
    BY HubAssumption
  <2>5. QED
    BY <1>1, <2>1, <2>3, <2>4, ViewersFinite, HubAssumption
<1>5. QED
  BY <1>3, <1>4

(* The counter of a registered channel is the number of connections that   *)
(* are subscribed to it (hub.rs subscribe, unsubscribe and close).         *)
THEOREM CountCorrect == Spec => []CountIsViewers
<1>1. Init => CountIsViewers
  BY HubAssumption DEF Init, HubInit, CountIsViewers
<1>2. TypeOK /\ TypeOK' /\ RegistryConsistent /\ AdmittedAsNamed
        /\ CountIsViewers /\ [Next]_vars => CountIsViewers'
  <2> SUFFICES ASSUME TypeOK, TypeOK', RegistryConsistent, AdmittedAsNamed,
                      CountIsViewers, [Next]_vars
               PROVE  CountIsViewers'
    OBVIOUS
  <2>a. HubTypeOK /\ HubTypeOK'
    BY DEF TypeOK
  <2>b. ASSUME UNCHANGED <<channels, subscribers>>,
               NEW k \in Conns,
               conn[k].pc \notin {"greeting", "streaming"},
               conn'[k].pc \notin {"greeting", "streaming"},
               \A l \in Conns : l # k => conn'[l] = conn[l]
        PROVE  CountIsViewers'
    BY <2>a, <2>b, CountUntouched DEF Watching
  <2>1. ASSUME NEW p \in Callers, NEW id \in Ids, NEW h \in Handles,
               LiveOpen(p, id), HubOpen(id, h)
        PROVE  CountIsViewers'
    BY <2>1, <2>a, HubOpenCounts DEF LiveOpen
  <2>2. CASE UNCHANGED <<channels, subscribers, conn>>
    BY <2>2, <2>a, CountUntouched DEF Watching
  <2>3. ASSUME NEW p \in Callers, NEW id \in Ids, LiveClose(p, id)
        PROVE  CountIsViewers'
    BY <2>3, <2>a, HubUnregisterCounts DEF LiveClose, Watching
  <2>4. ASSUME NEW k \in Conns, NEW path \in Ids, NEW t \in Tokens,
               Present(k, path, t)
        PROVE  CountIsViewers'
    BY <2>4, <2>b DEF Present, HubTakeToken, TypeOK
  <2>5. ASSUME NEW k \in Conns, Admit(k)
        PROVE  CountIsViewers'
    <3>1. conn[k] \in RedeemedConn
      BY <2>5 DEF Admit, TypeOK, IdleConn, AttachedConn
    <3>2. conn'[k].pc \in {"admitted", "idle"}
      <4> DEFINE h == channels[conn[k].target]
      <4>1. [conn[k] EXCEPT !.pc = "admitted", !.chan = h].pc = "admitted"
        BY <3>1 DEF RedeemedConn
      <4>2. CASE conn' = [conn EXCEPT ![k] = [@ EXCEPT !.pc = "admitted",
                                                       !.chan = h]]
        BY <4>1, <4>2 DEF TypeOK
      <4>3. CASE conn' = [conn EXCEPT ![k] = IdleConn]
        BY <4>3 DEF TypeOK, IdleConn
      <4>4. QED
        BY <2>5, <4>2, <4>3 DEF Admit, ConnEnd
    <3>3. \A l \in Conns : l # k => conn'[l] = conn[l]
      BY <2>5 DEF Admit, ConnEnd, TypeOK
    <3>4. QED
      BY <2>5, <2>b, <3>2, <3>3 DEF Admit, hubVars
  <2>6. ASSUME NEW k \in Conns, Subscribe(k)
        PROVE  CountIsViewers'
    BY <2>6, <2>a, SubscribeCounts
  <2>7. ASSUME NEW k \in Conns, Greet(k)
        PROVE  CountIsViewers'
    <3>1. \A l \in Conns, g \in Handles : Watching(l, g)' <=> Watching(l, g)
      BY <2>7 DEF Greet, Watching, TypeOK, IdleConn, RedeemedConn, AttachedConn
    <3>2. QED
      BY <2>7, <2>a, <3>1, CountUntouched DEF Greet, hubVars
  <2>8. ASSUME NEW k \in Conns, GreetFails(k)
        PROVE  CountIsViewers'
    <3>1. conn'[k].pc = "idle" /\ \A l \in Conns : l # k => conn'[l] = conn[l]
      BY <2>8 DEF GreetFails, ConnEnd, TypeOK, IdleConn
    <3>2. QED
      BY <2>8, <2>a, <3>1, UnsubscribeCounts DEF GreetFails
  <2>9. ASSUME NEW k \in Conns, Leave(k)
        PROVE  CountIsViewers'
    <3>1. /\ conn'[k].pc \in {"closing", "idle"}
          /\ \A l \in Conns : l # k => conn'[l] = conn[l]
      BY <2>9 DEF Leave, ConnEnd, TypeOK, IdleConn, RedeemedConn, AttachedConn
    <3>2. QED
      BY <2>9, <2>a, <3>1, UnsubscribeCounts DEF Leave
  <2>10. ASSUME NEW k \in Conns, CloseChannel(k)
         PROVE  CountIsViewers'
    <3>1. chanId[conn[k].chan] \in Ids
      BY <2>10, HubAssumption DEF CloseChannel, TypeOK, IdleConn, RedeemedConn,
         AttachedConn, AdmittedAsNamed
    <3>2. \A l \in Conns, g \in Handles : Watching(l, g)' <=> Watching(l, g)
      BY <2>10 DEF CloseChannel, Watching, TypeOK, IdleConn, RedeemedConn,
         AttachedConn
    <3>3. QED
      BY <2>10, <2>a, <3>1, <3>2, HubUnregisterCounts DEF CloseChannel
  <2>11. ASSUME NEW k \in Conns, CloseTokens(k)
         PROVE  CountIsViewers'
    BY <2>11, <2>b DEF CloseTokens, HubDropTokens, ConnEnd, TypeOK, IdleConn
  <2>12. QED
    BY <2>1, <2>2, <2>3, <2>4, <2>5, <2>6, <2>7, <2>8, <2>9, <2>10, <2>11,
       NextCases
       DEF vars, hubVars, LiveToken, IssueCheck, IssueInsert, LiveCloseTokens,
           HubDropTokens, HubAddToken
<1>3. QED
  BY <1>1, <1>2, TypeCorrect, RegistryCorrect, AdmissionCorrect, PTL DEF Spec

(* A connection that leaves its loop closes its registered channel exactly *)
(* when nobody else is subscribed (ws.rs serve_connection, its last lines).*)
THEOREM LoopExitCorrect == Spec => LoopExitDecides
<1>1. TypeOK /\ CountIsViewers /\ [Next]_vars
        => [\A k \in Conns : LeaveDecides(k)]_vars
  <2> SUFFICES ASSUME TypeOK, CountIsViewers, Next, NEW k \in Conns,
                      conn[k].pc = "streaming", conn'[k].pc # "streaming",
                      Registered(conn[k].chan)
               PROVE  conn'[k].pc = "closing"
                        <=> Viewers(conn[k].chan) = {k}
    BY DEF LeaveDecides
  <2> DEFINE h == conn[k].chan
  <2>1. Leave(k)
    <3>1. ASSUME NEW l \in Conns, NEW c, conn' = [conn EXCEPT ![l] = c]
          PROVE  l = k
      BY <3>1 DEF TypeOK
    <3>2. ASSUME NEW l \in Conns, \/ Subscribe(l) \/ Greet(l) \/ GreetFails(l)
                                  \/ CloseChannel(l) \/ CloseTokens(l)
          PROVE  FALSE
      <4>1. l = k
        BY <3>1, <3>2 DEF Subscribe, Greet, GreetFails, CloseChannel,
           CloseTokens, ConnEnd
      <4>2. QED
        BY <3>2, <4>1 DEF Subscribe, Greet, GreetFails, CloseChannel,
           CloseTokens
    <3>3. ASSUME NEW l \in Conns, Leave(l)
          PROVE  Leave(k)
      BY <3>1, <3>3 DEF Leave, ConnEnd
    <3>4. ASSUME NEW l \in Conns, Admit(l)
          PROVE  FALSE
      BY <3>1, <3>4 DEF Admit, ConnEnd
    <3>5. ASSUME NEW l \in Conns, NEW path \in Ids, NEW t \in Tokens,
                 Present(l, path, t)
          PROVE  FALSE
      BY <3>1, <3>5 DEF Present
    <3>6. QED
      BY <3>2, <3>3, <3>4, <3>5, NextCases
         DEF LiveOpen, LiveToken, LiveClose, IssueCheck, IssueInsert,
             LiveCloseTokens
  <2>2. /\ subscribers[h] = Cardinality(Viewers(h))
        /\ k \in Viewers(h)
    <3>1. h \in Handles
      BY DEF TypeOK, IdleConn, RedeemedConn, AttachedConn
    <3>2. PICK id \in Ids : channels[id] = h
      BY DEF Registered
    <3>3. QED
      BY <3>1, <3>2, HubAssumption DEF CountIsViewers, Viewers, Watching
  <2>3. conn'[k].pc = "closing" <=> UnsubscribeReports(h) = 0
    BY <2>1 DEF Leave, ConnEnd, TypeOK, IdleConn, RedeemedConn, AttachedConn
  <2>4. /\ Cardinality(Viewers(h) \ {k}) = Cardinality(Viewers(h)) - 1
        /\ IsFiniteSet(Viewers(h) \ {k})
        /\ Cardinality(Viewers(h) \ {k}) \in Nat
    BY <2>2, ViewersFinite, FS_RemoveElement, FS_CardinalityType
  <2>5. UnsubscribeReports(h) = Cardinality(Viewers(h) \ {k})
    BY <2>2, <2>4, ViewersFinite DEF UnsubscribeReports
  <2>6. Cardinality(Viewers(h) \ {k}) = 0 <=> Viewers(h) \ {k} = {}
    BY <2>4, FS_EmptySet
  <2>7. QED
    BY <2>2, <2>3, <2>5, <2>6
<1>2. QED
  BY <1>1, TypeCorrect, CountCorrect, PTL DEF Spec, LoopExitDecides

-----------------------------------------------------------------------------
(* The takeover.                                                           *)

(* What an input queue holds, and that it holds nothing twice.             *)
Elements(s) == {s[i] : i \in DOMAIN s}
Distinct(s) == \A i, j \in DOMAIN s : s[i] = s[j] => i = j

(* Queueing a new gesture, and taking the oldest one off (the mpsc queue). *)
LEMMA QueueAppend ==
  ASSUME NEW S, NEW s \in Seq(S), NEW e \in S
  PROVE  /\ Append(s, e) \in Seq(S)
         /\ Elements(Append(s, e)) = Elements(s) \cup {e}
         /\ Distinct(s) /\ e \notin Elements(s) => Distinct(Append(s, e))
  BY DEF Elements, Distinct

LEMMA QueueTake ==
  ASSUME NEW S, NEW s \in Seq(S), s # <<>>
  PROVE  /\ Head(s) \in S /\ Tail(s) \in Seq(S)
         /\ Elements(s) = Elements(Tail(s)) \cup {Head(s)}
         /\ Distinct(s) => Distinct(Tail(s)) /\ Head(s) \notin Elements(Tail(s))
<1>1. /\ Len(s) \in Nat \ {0} /\ Head(s) = s[1]
      /\ Len(Tail(s)) = Len(s) - 1
      /\ \A i \in 1 .. Len(s) - 1 : Tail(s)[i] = s[i + 1]
  OBVIOUS
<1>2. Head(s) \in S /\ Tail(s) \in Seq(S)
  BY <1>1
<1>3. DOMAIN s = 1 .. Len(s) /\ DOMAIN Tail(s) = 1 .. Len(s) - 1
  BY <1>1, <1>2
<1>4. Elements(s) = Elements(Tail(s)) \cup {Head(s)}
  <2>1. ASSUME NEW i \in 1 .. Len(s) PROVE s[i] \in Elements(Tail(s)) \cup {Head(s)}
    <3>1. CASE i = 1
      BY <1>1, <3>1
    <3>2. CASE i # 1
      <4>1. i - 1 \in 1 .. Len(s) - 1 /\ Tail(s)[i - 1] = s[i]
        BY <1>1, <3>2
      <4>2. QED
        BY <1>3, <4>1 DEF Elements
    <3>3. QED
      BY <3>1, <3>2
  <2>2. \A i \in 1 .. Len(s) - 1 : Tail(s)[i] = s[i + 1] /\ i + 1 \in 1 .. Len(s)
    BY <1>1
  <2>3. QED
    BY <1>1, <1>3, <2>1, <2>2 DEF Elements
<1>5. ASSUME Distinct(s)
      PROVE  Distinct(Tail(s)) /\ Head(s) \notin Elements(Tail(s))
  BY <1>1, <1>3, <1>5 DEF Elements, Distinct
<1>6. QED
  BY <1>2, <1>4, <1>5

(* The panels' handles and the accepted gestures' are of channels that     *)
(* were opened, as is every pump's; a pump that ended leaves its channel   *)
(* closed for good.                                                        *)
Opened(h) == h \in Handles /\ chanId[h] # NoId
HoldersOpened ==
  /\ \A p \in Panels : panel[p].chan # NoChannel => Opened(panel[p].chan)
  /\ \A p \in Panels : panel[p].passed => panel[p].chan # NoChannel
  /\ \A g \in Gestures : sent[g] # NoChannel => Opened(sent[g])
  /\ \A h \in Handles : loop[h] # "none" => Opened(h)
  /\ \A h \in Handles : loop[h] = "done" => closed[h]

(* A gesture waits or runs where it was accepted, at one place at a time,  *)
(* and not once it was performed; it is somewhere until the channel goes.  *)
GesturePlaces ==
  /\ \A h \in Handles : Distinct(queue[h])
  /\ \A h \in Handles : \A g \in Elements(queue[h]) :
       sent[g] = h /\ running[h] # g /\ g \notin executed
  /\ \A h \in Handles : running[h] # NoGesture =>
       sent[running[h]] = h /\ running[h] \notin executed
  /\ \A g \in executed : sent[g] # NoChannel
  /\ \A g \in Gestures : sent[g] # NoChannel =>
       \/ g \in Elements(queue[sent[g]])
       \/ running[sent[g]] = g
       \/ g \in executed
       \/ closed[sent[g]]

TakeoverInv ==
  /\ TakeoverTypeOK
  /\ RegistryConsistent
  /\ HoldersOpened
  /\ GesturePlaces

(* Every variable of the takeover keeps its type.                          *)
THEOREM TakeoverTypeCorrect == TakeoverSpec => []TakeoverTypeOK
<1>1. TakeoverInit => TakeoverTypeOK
  BY HubAssumption, TakeoverAssumption
     DEF TakeoverInit, HubInit, TakeoverTypeOK, HubTypeOK, Detached, IdleCall,
         LoopPcs
<1>2. TakeoverTypeOK /\ [TakeoverNext]_takeoverVars => TakeoverTypeOK'
  <2> SUFFICES ASSUME TakeoverTypeOK, [TakeoverNext]_takeoverVars
               PROVE  TakeoverTypeOK'
    OBVIOUS
  <2> USE DEF TakeoverTypeOK, LoopPcs
  <2>1. ASSUME NEW id \in Ids, OpenDevice(id) PROVE TakeoverTypeOK'
    <3>1. PICK h \in Handles :
            /\ HubOpen(id, h)
            /\ loop' = [loop EXCEPT ![h] = IF @ = "none" THEN "top" ELSE @]
      BY <2>1 DEF OpenDevice
    <3>2. HubTypeOK'
      BY <3>1, HubOpenTyped
    <3>3. loop' \in [Handles -> LoopPcs]
          /\ \A x \in Handles : loop'[x] = "performing" <=> loop[x] = "performing"
      BY <3>1
    <3>4. UNCHANGED <<takeover, panel, queue, running, sent, executed, call>>
      BY <2>1 DEF OpenDevice
    <3>5. QED
      BY <3>2, <3>3, <3>4
  <2>2. ASSUME NEW id \in Ids, CloseDevice(id) PROVE TakeoverTypeOK'
    <3>1. HubTypeOK' /\ UNCHANGED actorVars
      BY <2>2, HubUnregisterTyped DEF CloseDevice
    <3>2. QED
      BY <3>1 DEF actorVars
  <2>3. ASSUME NEW id \in Ids, NEW active \in BOOLEAN, BridgeTakeover(id, active)
        PROVE  TakeoverTypeOK'
    BY <2>3 DEF BridgeTakeover, hubVars, HubTypeOK
  <2>4. ASSUME NEW p \in Panels, NEW id \in Ids, Attach(p, id)
        PROVE  TakeoverTypeOK'
    <3>1. channels[id] \in Handles
      BY <2>4 DEF Attach, HubTypeOK
    <3>2. panel' \in [Panels -> [chan : Handles \cup {NoChannel}, passed : BOOLEAN]]
      BY <2>4, <3>1 DEF Attach
    <3>3. QED
      BY <2>4, <3>2 DEF Attach, hubVars, HubTypeOK
  <2>5. ASSUME NEW p \in Panels, Detach(p) PROVE TakeoverTypeOK'
    BY <2>5 DEF Detach, Detached, hubVars, HubTypeOK
  <2>6. ASSUME NEW p \in Panels, NEW active \in BOOLEAN, PanelTakeover(p, active)
        PROVE  TakeoverTypeOK'
    BY <2>6 DEF PanelTakeover, hubVars, HubTypeOK
  <2>7. ASSUME NEW p \in Panels, InputCheck(p) \/ InputRefused(p)
        PROVE  TakeoverTypeOK'
    <3>1. PICK b \in BOOLEAN :
            /\ panel' = [panel EXCEPT ![p].passed = b]
            /\ UNCHANGED <<hubVars, takeover, queue, loop, running, sent, executed, call>>
      BY <2>7 DEF InputCheck, InputRefused
    <3>2. panel' \in [Panels -> [chan : Handles \cup {NoChannel}, passed : BOOLEAN]]
      BY <3>1
    <3>3. QED
      BY <3>1, <3>2 DEF hubVars, HubTypeOK
  <2>8. ASSUME NEW p \in Panels, NEW g \in Gestures, InputSend(p, g)
        PROVE  TakeoverTypeOK'
    <3> DEFINE h == panel[p].chan
    <3>1. h \in Handles \cup {NoChannel}
          /\ UNCHANGED <<hubVars, takeover, loop, running, executed, call>>
      BY <2>8 DEF InputSend
    <3>2. CASE loop[h] = "done"
      <4>1. panel' = [panel EXCEPT ![p] = Detached] /\ UNCHANGED <<queue, sent>>
        BY <2>8, <3>2 DEF InputSend
      <4>2. QED
        BY <3>1, <4>1 DEF Detached, hubVars, HubTypeOK
    <3>3. CASE loop[h] # "done"
      <4>1. /\ sent' = [sent EXCEPT ![g] = h]
            /\ queue' = [queue EXCEPT ![h] = Append(@, g)]
            /\ panel' = [panel EXCEPT ![p].passed = FALSE]
        BY <2>8, <3>3 DEF InputSend
      <4> HIDE DEF h
      <4>2. \A x \in Handles : Append(queue[x], g) \in Seq(Gestures)
        OBVIOUS
      <4>3. queue' \in [Handles -> Seq(Gestures)]
        BY <4>1, <4>2
      <4>4. panel' \in [Panels -> [chan : Handles \cup {NoChannel}, passed : BOOLEAN]]
        BY <4>1
      <4>5. sent' \in [Gestures -> Handles \cup {NoChannel}]
        BY <3>1, <4>1
      <4>6. QED
        BY <3>1, <4>3, <4>4, <4>5 DEF hubVars, HubTypeOK
    <3>4. QED
      BY <3>2, <3>3
  <2>9. ASSUME NEW h \in Handles, LoopTop(h) PROVE TakeoverTypeOK'
    <3>1. /\ loop[h] = "top" /\ running' = running
          /\ UNCHANGED <<hubVars, takeover, panel, sent, executed, call>>
      BY <2>9 DEF LoopTop
    <3>2. queue' \in [Handles -> Seq(Gestures)]
      <4>1. queue' = [queue EXCEPT ![h] = <<>>] \/ queue' = queue
        BY <2>9 DEF LoopTop
      <4>2. <<>> \in Seq(Gestures)
        OBVIOUS
      <4>3. QED
        BY <4>1, <4>2
    <3>3. loop' \in [Handles -> LoopPcs]
          /\ \A x \in Handles : loop'[x] = "performing" <=> loop[x] = "performing"
      BY <2>9, <3>1 DEF LoopTop
    <3>4. QED
      BY <3>1, <3>2, <3>3 DEF hubVars, HubTypeOK
  <2>10. ASSUME NEW h \in Handles, PumpTake(h) PROVE TakeoverTypeOK'
    <3>1. loop[h] = "draining" /\ running[h] = NoGesture
          /\ UNCHANGED <<hubVars, takeover, panel, sent, executed, call>>
      BY <2>10 DEF PumpTake
    <3>2. CASE queue[h] = <<>>
      <4>1. loop' = [loop EXCEPT ![h] = "sleeping"] /\ UNCHANGED <<queue, running>>
        BY <2>10, <3>2 DEF PumpTake
      <4>2. QED
        BY <3>1, <4>1 DEF hubVars, HubTypeOK
    <3>3. CASE queue[h] # <<>>
      <4>1. /\ loop' = [loop EXCEPT ![h] = "performing"]
            /\ running' = [running EXCEPT ![h] = Head(queue[h])]
            /\ queue' = [queue EXCEPT ![h] = Tail(@)]
        BY <2>10, <3>3 DEF PumpTake
      <4>2. Head(queue[h]) \in Gestures /\ Tail(queue[h]) \in Seq(Gestures)
        BY <3>3, QueueTake
      <4>3. QED
        BY <3>1, <4>1, <4>2, TakeoverAssumption DEF hubVars, HubTypeOK
    <3>4. QED
      BY <3>2, <3>3
  <2>11. ASSUME NEW h \in Handles, PumpPerformed(h) PROVE TakeoverTypeOK'
    BY <2>11 DEF PumpPerformed, hubVars, HubTypeOK
  <2>12. ASSUME NEW h \in Handles, PumpSleep(h) PROVE TakeoverTypeOK'
    BY <2>12 DEF PumpSleep, hubVars, HubTypeOK
  <2>13. ASSUME NEW c \in Calls, CallStep(c) PROVE TakeoverTypeOK'
    <3>1. UNCHANGED <<hubVars, takeover, panel, queue, loop, running, sent, executed>>
      BY <2>13 DEF CallStep, CallWrite, CallReturn
    <3>2. call' \in [Calls -> {IdleCall} \cup [pc : {"recording", "writing"}, id : Ids]]
      <4>1. CASE CallWrite(c)
        <5>1. call[c] \in [pc : {"recording", "writing"}, id : Ids]
          BY <4>1 DEF CallWrite, IdleCall
        <5>2. [call[c] EXCEPT !.pc = "writing"] \in [pc : {"recording", "writing"}, id : Ids]
          BY <5>1
        <5>3. call' = [call EXCEPT ![c] = [call[c] EXCEPT !.pc = "writing"]]
          BY <4>1 DEF CallWrite
        <5>4. QED
          BY <5>2, <5>3
      <4>2. CASE CallReturn(c)
        BY <4>2 DEF CallReturn
      <4>3. QED
        BY <2>13, <4>1, <4>2 DEF CallStep
    <3>3. QED
      BY <3>1, <3>2 DEF hubVars, HubTypeOK
  <2>14. ASSUME NEW c \in Calls, NEW id \in Ids, CallGuard(c, id)
         PROVE  TakeoverTypeOK'
    BY <2>14 DEF CallGuard, IdleCall, hubVars, HubTypeOK
  <2>15. CASE UNCHANGED takeoverVars
    BY <2>15 DEF takeoverVars, actorVars, hubVars, HubTypeOK
  <2>16. QED
    BY <2>1, <2>2, <2>3, <2>4, <2>5, <2>6, <2>7, <2>8, <2>9, <2>10, <2>11,
       <2>12, <2>13, <2>14, <2>15 DEF TakeoverNext, LoopStep
<1>3. QED
  BY <1>1, <1>2, PTL DEF TakeoverSpec

(* A channel that was opened stays so, and once closed it stays closed:    *)
(* its id is only ever served by a new one (hub.rs open).                  *)
LEMMA ClosedForGood ==
  ASSUME HubTypeOK, RegistryConsistent, NEW h \in Handles, Opened(h),
         NEW id \in Ids,
         (\E x \in Handles : HubOpen(id, x)) \/ HubUnregister(id)
  PROVE  Opened(h)' /\ (closed[h] => closed'[h])
<1>1. CASE HubUnregister(id)
  BY <1>1 DEF HubUnregister, HubTypeOK, Opened
<1>2. ASSUME NEW x \in Handles, HubOpen(id, x)
      PROVE  Opened(h)' /\ (closed[h] => closed'[h])
  <2>1. CASE channels[id] = x
    <3>1. chanId[x] = id /\ ~closed[x]
      BY <2>1, HubAssumption DEF RegistryConsistent, HubTypeOK
    <3>2. chanId' = chanId /\ closed' = [closed EXCEPT ![x] = FALSE]
      BY <1>2, <2>1, HubAssumption DEF HubOpen
    <3>3. QED
      BY <3>1, <3>2 DEF Opened, HubTypeOK
  <2>2. CASE channels[id] # x
    <3>1. /\ chanId[x] = NoId
          /\ chanId' = [chanId EXCEPT ![x] = id]
          /\ closed' = [closed EXCEPT ![x] = FALSE]
      BY <1>2, <2>2 DEF HubOpen
    <3>2. QED
      BY <3>1 DEF Opened, HubTypeOK
  <2>3. QED
    BY <2>1, <2>2
<1>3. QED
  BY <1>1, <1>2

(* The inductive invariant behind NoGestureLost.                           *)
LEMMA TakeoverInvariant == TakeoverSpec => []TakeoverInv
<1>1. TakeoverInit => RegistryConsistent /\ HoldersOpened /\ GesturePlaces
  BY TakeoverAssumption DEF TakeoverInit, HubInit, RegistryConsistent,
     HoldersOpened, GesturePlaces, Detached, Elements, Distinct
<1>2. TakeoverInv /\ [TakeoverNext]_takeoverVars
        => (RegistryConsistent /\ HoldersOpened /\ GesturePlaces)'
  <2> SUFFICES ASSUME TakeoverInv, [TakeoverNext]_takeoverVars
               PROVE  RegistryConsistent' /\ HoldersOpened' /\ GesturePlaces'
    OBVIOUS
  <2> DEFINE Goal == RegistryConsistent' /\ HoldersOpened' /\ GesturePlaces'
  <2>0. TakeoverTypeOK /\ HubTypeOK /\ RegistryConsistent /\ HoldersOpened /\ GesturePlaces
    BY DEF TakeoverInv, TakeoverTypeOK
  <2>1. ASSUME NEW id \in Ids, OpenDevice(id) PROVE Goal
    <3>1. PICK h \in Handles :
            /\ HubOpen(id, h)
            /\ loop' = [loop EXCEPT ![h] = IF @ = "none" THEN "top" ELSE @]
      BY <2>1 DEF OpenDevice
    <3>2. UNCHANGED <<takeover, panel, queue, running, sent, executed, call>>
      BY <2>1 DEF OpenDevice
    <3>3. \A x \in Handles : Opened(x) => Opened(x)' /\ (closed[x] => closed'[x])
      BY <2>0, <3>1, ClosedForGood
    <3>4. RegistryConsistent'
      BY <2>0, <3>1, HubOpenConsistent
    <3>5. Opened(h)'
      BY <2>0, <3>1, HubAssumption DEF HubOpen, RegistryConsistent, Opened, HubTypeOK
    <3>6. /\ \A x \in Handles : loop'[x] # "none" => loop[x] # "none" \/ x = h
          /\ \A x \in Handles : loop'[x] = "done" => loop[x] = "done"
      BY <2>0, <3>1 DEF TakeoverTypeOK
    <3>7. HoldersOpened'
      <4>1. \A x \in Handles : loop'[x] # "none" => Opened(x)'
        BY <2>0, <3>3, <3>5, <3>6 DEF HoldersOpened
      <4>2. \A x \in Handles : loop'[x] = "done" => closed'[x]
        BY <2>0, <3>3, <3>6 DEF HoldersOpened
      <4>3. /\ \A p \in Panels : panel[p].chan # NoChannel => Opened(panel[p].chan)'
            /\ \A g \in Gestures : sent[g] # NoChannel => Opened(sent[g])'
        BY <2>0, <3>2, <3>3 DEF HoldersOpened, Opened
      <4>4. QED
        BY <2>0, <3>2, <4>1, <4>2, <4>3 DEF HoldersOpened, Opened
    <3>8. GesturePlaces'
      <4>1. \A g \in Gestures : sent[g] # NoChannel => (closed[sent[g]] => closed'[sent[g]])
        BY <2>0, <3>3 DEF HoldersOpened, Opened
      <4>2. QED
        BY <2>0, <3>2, <4>1 DEF GesturePlaces
    <3>9. QED
      BY <3>4, <3>7, <3>8
  <2>2. ASSUME NEW id \in Ids, CloseDevice(id) PROVE Goal
    <3>1. HubUnregister(id)
          /\ UNCHANGED <<takeover, panel, queue, loop, running, sent, executed, call>>
      BY <2>2 DEF CloseDevice, actorVars
    <3>2. \A x \in Handles : Opened(x) => Opened(x)' /\ (closed[x] => closed'[x])
      BY <2>0, <3>1, ClosedForGood
    <3>3. RegistryConsistent'
      BY <2>0, <3>1, HubUnregisterConsistent
    <3>4. HoldersOpened'
      BY <2>0, <3>1, <3>2 DEF HoldersOpened, Opened
    <3>5. GesturePlaces'
      <4>1. \A g \in Gestures : sent[g] # NoChannel => (closed[sent[g]] => closed'[sent[g]])
        BY <2>0, <3>2 DEF HoldersOpened, Opened
      <4>2. QED
        BY <2>0, <3>1, <4>1 DEF GesturePlaces
    <3>6. QED
      BY <3>3, <3>4, <3>5
  <2>3. ASSUME UNCHANGED hubVars,
               UNCHANGED <<panel, queue, loop, running, sent, executed>>
        PROVE  Goal
    BY <2>0, <2>3 DEF hubVars, RegistryConsistent, HoldersOpened, Opened, GesturePlaces
  <2>4. ASSUME UNCHANGED hubVars,
               UNCHANGED <<queue, loop, running, sent, executed>>,
               NEW p \in Panels,
               \A q \in Panels : q = p \/ panel'[q] = panel[q],
               panel'[p].chan # NoChannel => Opened(panel'[p].chan),
               panel'[p].passed => panel'[p].chan # NoChannel
        PROVE  Goal
    <3>1. RegistryConsistent' /\ GesturePlaces'
      BY <2>0, <2>4 DEF hubVars, RegistryConsistent, GesturePlaces
    <3>2. HoldersOpened'
      BY <2>0, <2>4 DEF hubVars, HoldersOpened, Opened
    <3>3. QED
      BY <3>1, <3>2
  <2>5. ASSUME NEW p \in Panels, NEW id \in Ids, Attach(p, id) PROVE Goal
    <3>1. /\ channels[id] \in Handles /\ chanId[channels[id]] = id
          /\ panel[p] = Detached
      BY <2>0, <2>5 DEF Attach, HubTypeOK, RegistryConsistent
    <3>2. /\ \A q \in Panels : q = p \/ panel'[q] = panel[q]
          /\ panel'[p].chan = channels[id] /\ panel'[p].passed = FALSE
      BY <2>0, <2>5, <3>1 DEF Attach, TakeoverTypeOK, Detached
    <3>3. UNCHANGED hubVars /\ UNCHANGED <<queue, loop, running, sent, executed>>
      BY <2>5 DEF Attach
    <3>4. QED
      BY <2>4, <3>1, <3>2, <3>3, HubAssumption DEF Opened
  <2>6. ASSUME NEW p \in Panels, Detach(p) PROVE Goal
    BY <2>0, <2>4, <2>6 DEF Detach, Detached, TakeoverTypeOK
  <2>7. ASSUME NEW p \in Panels, InputCheck(p) \/ InputRefused(p) PROVE Goal
    <3>1. PICK b \in BOOLEAN : panel' = [panel EXCEPT ![p].passed = b]
      BY <2>7 DEF InputCheck, InputRefused
    <3>2. panel[p].chan # NoChannel
      BY <2>0, <2>7 DEF InputCheck, InputRefused, HoldersOpened
    <3>3. /\ \A q \in Panels : q = p \/ panel'[q] = panel[q]
          /\ panel'[p].chan = panel[p].chan
      BY <2>0, <3>1 DEF TakeoverTypeOK
    <3>4. UNCHANGED hubVars /\ UNCHANGED <<queue, loop, running, sent, executed>>
      BY <2>7 DEF InputCheck, InputRefused
    <3>5. QED
      BY <2>0, <2>4, <3>2, <3>3, <3>4 DEF HoldersOpened
  <2>8. ASSUME NEW p \in Panels, NEW g \in Gestures, InputSend(p, g) PROVE Goal
    <3> DEFINE h == panel[p].chan
    <3>1. /\ h \in Handles /\ h # NoChannel /\ Opened(h)
          /\ UNCHANGED hubVars /\ UNCHANGED <<loop, running, executed>>
      BY <2>0, <2>8 DEF InputSend, HoldersOpened, Opened
    <3>2. CASE loop[h] = "done"
      <4>1. panel' = [panel EXCEPT ![p] = Detached] /\ UNCHANGED <<queue, sent>>
        BY <2>8, <3>2 DEF InputSend
      <4>2. QED
        BY <2>0, <2>4, <3>1, <4>1 DEF Detached, TakeoverTypeOK
    <3>3. CASE loop[h] # "done"
      <4>1. /\ sent[g] = NoChannel
            /\ sent' = [sent EXCEPT ![g] = h]
            /\ queue' = [queue EXCEPT ![h] = Append(@, g)]
            /\ panel' = [panel EXCEPT ![p].passed = FALSE]
        BY <2>8, <3>3 DEF InputSend
      <4>2. /\ \A q \in Panels : q = p \/ panel'[q] = panel[q]
            /\ panel'[p].chan = h /\ panel'[p].passed = FALSE
        BY <2>0, <4>1 DEF TakeoverTypeOK
      <4> HIDE DEF h
      <4>3. /\ sent'[g] = h
            /\ \A f \in Gestures : f = g \/ sent'[f] = sent[f]
        BY <2>0, <4>1 DEF TakeoverTypeOK
      <4>4. \A x \in Handles : Elements(queue[x]) \subseteq Gestures
        BY <2>0 DEF TakeoverTypeOK, Elements
      <4>5. g \notin executed /\ \A x \in Handles : running[x] # g /\ g \notin Elements(queue[x])
        <5>1. \A x \in Handles : sent[g] # x
          BY <4>1, HubAssumption
        <5>2. \A x \in Handles : running[x] # g
          BY <2>0, <5>1, TakeoverAssumption DEF GesturePlaces
        <5>3. QED
          BY <2>0, <4>1, <5>1, <5>2 DEF GesturePlaces
      <4>6. /\ Elements(queue'[h]) = Elements(queue[h]) \cup {g}
            /\ Distinct(queue'[h])
            /\ \A x \in Handles : x = h \/ queue'[x] = queue[x]
        BY <2>0, <3>1, <4>1, <4>5, QueueAppend DEF TakeoverTypeOK, GesturePlaces
      <4>7. RegistryConsistent' /\ HoldersOpened'
        BY <2>0, <3>1, <4>2, <4>3 DEF hubVars, RegistryConsistent, HoldersOpened, Opened
      <4>8. GesturePlaces'
        <5>1. \A x \in Handles : running[x] # NoGesture => running[x] \in Gestures
          BY <2>0 DEF TakeoverTypeOK
        <5>2. executed \subseteq Gestures
          BY <2>0 DEF TakeoverTypeOK
        <5>3. \A x \in Handles : Distinct(queue'[x])
          BY <2>0, <4>6 DEF GesturePlaces
        <5>4. \A x \in Handles : \A f \in Elements(queue'[x]) :
                sent'[f] = x /\ running[x] # f /\ f \notin executed
          BY <2>0, <4>3, <4>4, <4>5, <4>6 DEF GesturePlaces
        <5>5. \A x \in Handles : running[x] # NoGesture =>
                sent'[running[x]] = x /\ running[x] \notin executed
          BY <2>0, <4>3, <4>5, <5>1 DEF GesturePlaces
        <5>6. \A f \in executed : sent'[f] # NoChannel
          BY <2>0, <4>3, <4>5, <5>2 DEF GesturePlaces
        <5>7. ASSUME NEW f \in Gestures, sent'[f] # NoChannel
              PROVE  \/ f \in Elements(queue'[sent'[f]])
                     \/ running[sent'[f]] = f
                     \/ f \in executed
                     \/ closed[sent'[f]]
          <6>1. CASE f = g
            BY <4>3, <4>6, <6>1
          <6>2. CASE f # g
            <7>1. sent'[f] = sent[f] /\ sent[f] \in Handles
              BY <2>0, <4>3, <5>7, <6>2 DEF TakeoverTypeOK
            <7>2. Elements(queue[sent[f]]) \subseteq Elements(queue'[sent[f]])
              BY <4>6, <7>1
            <7>3. QED
              BY <2>0, <5>7, <7>1, <7>2 DEF GesturePlaces
          <6>3. QED
            BY <6>1, <6>2
        <5>8. QED
          BY <3>1, <5>3, <5>4, <5>5, <5>6, <5>7 DEF hubVars, GesturePlaces
      <4>9. QED
        BY <4>7, <4>8
    <3>4. QED
      BY <3>2, <3>3
  <2>9. ASSUME NEW h \in Handles, LoopTop(h) PROVE Goal
    <3>1. UNCHANGED hubVars /\ UNCHANGED <<panel, running, sent, executed>> /\ loop[h] = "top"
      BY <2>9 DEF LoopTop
    <3>2. CASE channels[chanId[h]] = NoChannel
      <4>1. loop' = [loop EXCEPT ![h] = "done"] /\ queue' = [queue EXCEPT ![h] = <<>>]
        BY <2>9, <3>2 DEF LoopTop
      <4>2. Opened(h) /\ closed[h]
        BY <2>0, <3>1, <3>2, HubAssumption DEF HoldersOpened, RegistryConsistent, Opened
      <4>3. RegistryConsistent' /\ HoldersOpened'
        BY <2>0, <3>1, <4>1, <4>2
           DEF hubVars, RegistryConsistent, HoldersOpened, Opened, TakeoverTypeOK
      <4>4. /\ \A x \in Handles : x = h \/ queue'[x] = queue[x]
            /\ Elements(queue'[h]) = {} /\ Distinct(queue'[h])
        BY <2>0, <4>1 DEF TakeoverTypeOK, Elements, Distinct
      <4>5. GesturePlaces'
        <5>1. \A x \in Handles : Distinct(queue'[x])
          BY <2>0, <4>4 DEF GesturePlaces
        <5>2. \A x \in Handles : \A f \in Elements(queue'[x]) :
                sent[f] = x /\ running[x] # f /\ f \notin executed
          BY <2>0, <4>4 DEF GesturePlaces
        <5>3. \A f \in Gestures : sent[f] # NoChannel =>
                \/ f \in Elements(queue'[sent[f]])
                \/ running[sent[f]] = f
                \/ f \in executed
                \/ closed[sent[f]]
          BY <2>0, <4>2, <4>4 DEF GesturePlaces, TakeoverTypeOK
        <5>4. QED
          BY <2>0, <3>1, <5>1, <5>2, <5>3 DEF GesturePlaces, hubVars
      <4>6. QED
        BY <4>3, <4>5
    <3>3. CASE channels[chanId[h]] # NoChannel
      <4>1. loop' = [loop EXCEPT ![h] = "draining"] /\ queue' = queue
        BY <2>9, <3>3 DEF LoopTop
      <4>2. RegistryConsistent' /\ GesturePlaces'
        BY <2>0, <3>1, <4>1 DEF hubVars, RegistryConsistent, GesturePlaces
      <4>3. HoldersOpened'
        BY <2>0, <3>1, <4>1 DEF hubVars, HoldersOpened, Opened, TakeoverTypeOK
      <4>4. QED
        BY <4>2, <4>3
    <3>4. QED
      BY <3>2, <3>3
  <2>10. ASSUME NEW h \in Handles, PumpTake(h) PROVE Goal
    <3>1. UNCHANGED hubVars /\ UNCHANGED <<panel, sent, executed>> /\ loop[h] = "draining"
      BY <2>10 DEF PumpTake
    <3>2. CASE queue[h] = <<>>
      <4>1. loop' = [loop EXCEPT ![h] = "sleeping"] /\ UNCHANGED <<queue, running>>
        BY <2>10, <3>2 DEF PumpTake
      <4>2. RegistryConsistent' /\ GesturePlaces'
        BY <2>0, <3>1, <4>1 DEF hubVars, RegistryConsistent, GesturePlaces
      <4>3. HoldersOpened'
        BY <2>0, <3>1, <4>1 DEF hubVars, HoldersOpened, Opened, TakeoverTypeOK
      <4>4. QED
        BY <4>2, <4>3
    <3>3. CASE queue[h] # <<>>
      <4> DEFINE g == Head(queue[h])
      <4>1. /\ loop' = [loop EXCEPT ![h] = "performing"]
            /\ running' = [running EXCEPT ![h] = g]
            /\ queue' = [queue EXCEPT ![h] = Tail(@)]
        BY <2>10, <3>3 DEF PumpTake
      <4>2. /\ g \in Gestures /\ Elements(queue[h]) = Elements(Tail(queue[h])) \cup {g}
            /\ Distinct(Tail(queue[h])) /\ g \notin Elements(Tail(queue[h]))
        BY <2>0, <3>3, QueueTake DEF TakeoverTypeOK, GesturePlaces
      <4>3. running[h] = NoGesture
        BY <2>0, <3>1 DEF TakeoverTypeOK
      <4> HIDE DEF g
      <4>4. /\ \A x \in Handles : x = h \/ (queue'[x] = queue[x] /\ running'[x] = running[x])
            /\ Elements(queue[h]) = Elements(queue'[h]) \cup {g}
            /\ Distinct(queue'[h]) /\ g \notin Elements(queue'[h]) /\ running'[h] = g
        BY <2>0, <4>1, <4>2 DEF TakeoverTypeOK
      <4>5. RegistryConsistent' /\ HoldersOpened'
        BY <2>0, <3>1, <4>1 DEF hubVars, RegistryConsistent, HoldersOpened, Opened, TakeoverTypeOK
      <4>6. GesturePlaces'
        <5>1. \A x \in Handles : Distinct(queue'[x])
          BY <2>0, <4>4 DEF GesturePlaces
        <5>2. \A x \in Handles : \A f \in Elements(queue'[x]) :
                sent[f] = x /\ running'[x] # f /\ f \notin executed
          BY <2>0, <4>4 DEF GesturePlaces
        <5>3. \A x \in Handles : running'[x] # NoGesture =>
                sent[running'[x]] = x /\ running'[x] \notin executed
          BY <2>0, <4>4 DEF GesturePlaces
        <5>4. \A f \in Gestures : sent[f] # NoChannel =>
                \/ f \in Elements(queue'[sent[f]])
                \/ running'[sent[f]] = f
                \/ f \in executed
                \/ closed[sent[f]]
          BY <2>0, <4>3, <4>4, TakeoverAssumption DEF GesturePlaces, TakeoverTypeOK
        <5>5. QED
          BY <2>0, <3>1, <5>1, <5>2, <5>3, <5>4 DEF hubVars, GesturePlaces
      <4>7. QED
        BY <4>5, <4>6
    <3>4. QED
      BY <3>2, <3>3
  <2>11. ASSUME NEW h \in Handles, PumpPerformed(h) PROVE Goal
    <3>1. /\ UNCHANGED hubVars /\ UNCHANGED <<panel, queue, sent>>
          /\ executed' = executed \cup {running[h]}
          /\ running' = [running EXCEPT ![h] = NoGesture]
          /\ loop' = [loop EXCEPT ![h] = "draining"]
          /\ loop[h] = "performing" /\ running[h] # NoGesture
      BY <2>0, <2>11 DEF PumpPerformed, TakeoverTypeOK
    <3>2. RegistryConsistent' /\ HoldersOpened'
      BY <2>0, <3>1 DEF hubVars, RegistryConsistent, HoldersOpened, Opened, TakeoverTypeOK
    <3>3. sent[running[h]] = h /\ running[h] \notin executed /\ h # NoChannel
      BY <2>0, <3>1, HubAssumption DEF GesturePlaces
    <3>4. /\ running'[h] = NoGesture
          /\ \A x \in Handles : x = h \/ running'[x] = running[x]
      BY <2>0, <3>1 DEF TakeoverTypeOK
    <3>5. \A x \in Handles : Elements(queue[x]) \subseteq Gestures
      BY <2>0 DEF TakeoverTypeOK, Elements
    <3>6. GesturePlaces'
      <4>1. \A x \in Handles : \A f \in Elements(queue[x]) :
              sent[f] = x /\ running'[x] # f /\ f \notin executed'
        BY <2>0, <3>1, <3>3, <3>4, <3>5, TakeoverAssumption DEF GesturePlaces
      <4>2. \A x \in Handles : running'[x] # NoGesture =>
              sent[running'[x]] = x /\ running'[x] \notin executed'
        BY <2>0, <3>1, <3>3, <3>4 DEF GesturePlaces
      <4>3. \A f \in executed' : sent[f] # NoChannel
        BY <2>0, <3>1, <3>3 DEF GesturePlaces
      <4>4. \A f \in Gestures : sent[f] # NoChannel =>
              \/ f \in Elements(queue[sent[f]])
              \/ running'[sent[f]] = f
              \/ f \in executed'
              \/ closed[sent[f]]
        BY <2>0, <3>1, <3>4 DEF GesturePlaces, TakeoverTypeOK
      <4>5. QED
        BY <2>0, <3>1, <4>1, <4>2, <4>3, <4>4 DEF hubVars, GesturePlaces
    <3>7. QED
      BY <3>2, <3>6
  <2>12. ASSUME NEW h \in Handles, PumpSleep(h) PROVE Goal
    <3>1. /\ UNCHANGED hubVars /\ UNCHANGED <<panel, queue, running, sent, executed>>
          /\ loop[h] = "sleeping" /\ loop' = [loop EXCEPT ![h] = "top"]
      BY <2>12 DEF PumpSleep
    <3>2. RegistryConsistent' /\ GesturePlaces'
      BY <2>0, <3>1 DEF hubVars, RegistryConsistent, GesturePlaces
    <3>3. HoldersOpened'
      BY <2>0, <3>1 DEF hubVars, HoldersOpened, Opened, TakeoverTypeOK
    <3>4. QED
      BY <3>2, <3>3
  <2>13. QED
    BY <2>1, <2>2, <2>3, <2>5, <2>6, <2>7, <2>8, <2>9, <2>10, <2>11, <2>12
       DEF TakeoverNext, LoopStep, BridgeTakeover, PanelTakeover, CallStep,
           CallWrite, CallReturn, CallGuard, takeoverVars, actorVars
<1>3. QED
  BY <1>1, <1>2, TakeoverTypeCorrect, PTL DEF TakeoverSpec, TakeoverInv

(* A gesture the panel got an acknowledgement for is in one place, is      *)
(* performed once at most, and is lost only with the channel that accepted *)
(* it (ws.rs input, android.rs live_pump).                                 *)
THEOREM GesturesCorrect == TakeoverSpec => []NoGestureLost
<1>1. TakeoverInv => NoGestureLost
  <2> SUFFICES ASSUME TakeoverInv, NEW g \in Gestures
               PROVE  /\ sent[g] # NoChannel =>
                           Queued(g) \/ Running(g) \/ g \in executed \/ closed[sent[g]]
                      /\ Queued(g) => ~Running(g)
                      /\ Queued(g) \/ Running(g) => g \notin executed
    BY DEF NoGestureLost
  <2>1. Queued(g) <=> \E h \in Handles : g \in Elements(queue[h])
    BY DEF Queued, Elements
  <2>2. sent[g] # NoChannel => sent[g] \in Handles
    BY DEF TakeoverInv, TakeoverTypeOK
  <2>3. QED
    BY <2>1, <2>2, TakeoverAssumption DEF TakeoverInv, GesturePlaces, Running
<1>2. QED
  BY <1>1, TakeoverInvariant, PTL
=============================================================================
