--------------------------- MODULE SshConnectProofs ---------------------------
(* Proofs about connecting and disconnecting, for any set of ids, connects  *)
(* and disconnects.                                                         *)
(*                                                                          *)
(* The invariants come in layers: the types; the generations, which are     *)
(* distinct and in the past or present; who may be in which table; and on   *)
(* these the properties the runs check.                                     *)
EXTENDS SshConnect, TLAPS

(* The next-state relation, one named action at a time: what                *)
(* connect_session, ssh_disconnect, the prompts' answers and a shell's      *)
(* reader do.                                                               *)
LEMMA NextCases ==
  ASSUME Next
  PROVE  \/ \E c \in Connects, id \in Ids : ConnectAsked(c, id)
         \/ \E c \in Connects : ConnectBegin(c)
         \/ \E c \in Connects, kind \in Kinds : Ask(c, kind)
         \/ \E id \in Ids, kind \in Kinds, yes \in BOOLEAN :
              Answer(id, kind, yes)
         \/ \E c \in Connects : AskDropped(c)
         \/ \E c \in Connects : AskExpires(c)
         \/ \E c \in Connects : AskWithdrawn(c)
         \/ \E c \in Connects : CutOff(c)
         \/ \E c \in Connects : CutWithdrawn(c)
         \/ \E c \in Connects : ConnectFails(c)
         \/ \E c \in Connects : ConnectSucceeds(c)
         \/ \E c \in Connects : ShellRefused(c)
         \/ \E c \in Connects : ShellOpens(c)
         \/ \E c \in Connects : Store(c)
         \/ \E c \in Connects : Retract(c)
         \/ \E c \in Connects : ShellEnds(c)
         \/ \E d \in Disconnects, id \in Ids : DisconnectAsked(d, id)
         \/ \E d \in Disconnects : ReadGuard(d)
         \/ \E d \in Disconnects : RemoveSession(d)
         \/ \E d \in Disconnects : HangUp(d)
         \/ \E d \in Disconnects : InvalidateIfCurrent(d)
         \/ \E d \in Disconnects : ClearChannel(d)
         \/ \E d \in Disconnects : Forget(d)
         \/ UNCHANGED vars
<1>1. UserPrompts \subseteq Kinds
  BY ConnectAssumption DEF Kinds
<1>2. CASE Environment
  BY <1>1, <1>2, ConnectAssumption DEF Environment
<1>3. CASE \E c \in Connects : ConnectStep(c)
  BY <1>3 DEF ConnectStep, LimitedStep
<1>4. CASE \E d \in Disconnects : DisconnectStep(d)
  BY <1>4 DEF DisconnectStep
<1>5. CASE AtRest
  BY <1>5 DEF AtRest
<1>6. QED
  BY <1>2, <1>3, <1>4, <1>5 DEF Next

-----------------------------------------------------------------------------
(* Types.                                                                   *)

ConnTypeOK ==
  /\ conn \in [Connects -> [pc : ConnPcs, id : Ids \cup {Nobody}, gen : Nat,
                            tty : BOOLEAN, kind : Kinds \cup {Nobody}]]
  /\ \A c \in Connects :
       /\ conn[c].pc # "unasked" => conn[c].id \in Ids
       /\ conn[c].pc \in {"asking", "expired", "cut"} => conn[c].kind \in Kinds

DiscTypeOK ==
  /\ disc \in [Disconnects ->
                 [pc : DiscPcs, id : Ids \cup {Nobody}, guard : Nat,
                  target : Connects \cup {Nobody}, before : SUBSET Connects]]
  /\ \A d \in Disconnects :
       /\ disc[d].pc # "unasked" => disc[d].id \in Ids
       /\ disc[d].pc = "hanging" => disc[d].target \in Connects

ShellTypeOK == shell \in [Connects -> {"none", "open", "ended"}]

(* The type invariant, taken apart by the code that owns the variables:     *)
(* SshManager's tables, the connects, their shells, the disconnects.        *)
LEMMA TypeParts ==
  TypeOK <=> TablesTypeOK /\ ConnTypeOK /\ ShellTypeOK /\ DiscTypeOK
BY DEF TypeOK, ConnTypeOK, DiscTypeOK, ShellTypeOK

(* begin_attempt keeps the generations natural numbers.                     *)
LEMMA BeginTyped ==
  ASSUME TablesTypeOK, NEW id \in Ids, BeginAttempt(id)
  PROVE  attempts' \in [Ids -> Nat]
BY DEF TablesTypeOK, BeginAttempt

(* open_shell's insertion and remove_channel_for_attempt keep the type of   *)
(* the channel table.                                                       *)
LEMMA ChannelsTyped ==
  ASSUME TablesTypeOK, NEW id \in Ids, NEW g \in Nat, NEW c \in Connects,
         RemoveChannelForAttempt(id, g) \/ InsertChannel(id, g, c)
  PROVE  channels' \in [Ids -> Entries \cup {NoEntry}]
BY DEF TablesTypeOK, RemoveChannelForAttempt, InsertChannel, Entries

(* Registering, answering and forgetting prompts keeps the type of the      *)
(* three prompt tables.                                                     *)
LEMMA PendingTyped ==
  ASSUME TablesTypeOK, NEW id \in Ids, NEW kind \in Kinds,
         NEW p \in Connects \cup {Nobody},
         \/ RegisterPrompt(kind, id, p)
         \/ RemovePrompt(kind, id)
         \/ ForgetPrompts(id)
  PROVE  pending' \in [Kinds -> [Ids -> Connects \cup Calls \cup {Nobody}]]
BY DEF TablesTypeOK, RegisterPrompt, RemovePrompt, ForgetPrompts

(* SshSession::disconnect keeps the type of the connections.                *)
LEMMA HangTyped ==
  ASSUME TablesTypeOK, NEW c \in Connects, Hang(c)
  PROVE  link' \in [Connects -> {"none", "up", "lost", "dead"}]
BY DEF TablesTypeOK, Hang

(* A connect_session that only moves on keeps its type.                     *)
LEMMA GoToTyped ==
  ASSUME ConnTypeOK, NEW c \in Connects, NEW pc \in ConnPcs, GoTo(c, pc),
         conn[c].id \in Ids,
         pc \in {"asking", "expired", "cut"} => conn[c].kind \in Kinds
  PROVE  ConnTypeOK'
BY DEF ConnTypeOK, GoTo

(* So does an ssh_disconnect, unless it goes on to hang up.                 *)
LEMMA DiscGoToTyped ==
  ASSUME DiscTypeOK, NEW d \in Disconnects, NEW pc \in DiscPcs,
         DiscGoTo(d, pc), disc[d].id \in Ids, pc # "hanging"
  PROVE  DiscTypeOK'
BY DEF DiscTypeOK, DiscGoTo

(* Every step of connect_session, ssh_disconnect, the prompts and the       *)
(* readers keeps the types.                                                 *)
LEMMA TypeStep == TypeOK /\ [Next]_vars => TypeOK'
<1> SUFFICES ASSUME TypeOK, [Next]_vars PROVE TypeOK'
  OBVIOUS
<1>a. TablesTypeOK /\ ConnTypeOK /\ ShellTypeOK /\ DiscTypeOK
  BY TypeParts
<1>b. ASSUME TablesTypeOK', ConnTypeOK', ShellTypeOK', DiscTypeOK'
      PROVE  TypeOK'
  BY <1>b DEF TypeOK, ConnTypeOK, DiscTypeOK, ShellTypeOK
<1>c. UNCHANGED tableVars => TablesTypeOK'
  BY <1>a DEF TablesTypeOK, tableVars
<1>d. UNCHANGED conn => ConnTypeOK'
  BY <1>a DEF ConnTypeOK
<1>e. UNCHANGED shell => ShellTypeOK'
  BY <1>a DEF ShellTypeOK
<1>f. UNCHANGED disc => DiscTypeOK'
  BY <1>a DEF DiscTypeOK
<1>g. ASSUME NEW c \in Connects, conn[c].pc # "unasked"
      PROVE  conn[c].id \in Ids /\ conn[c].gen \in Nat
  BY <1>a, <1>g DEF ConnTypeOK
<1>h. ASSUME NEW d \in Disconnects, disc[d].pc # "unasked"
      PROVE  disc[d].id \in Ids /\ disc[d].guard \in Nat
  BY <1>a, <1>h DEF DiscTypeOK
<1> USE DEF At
<1>1. ASSUME NEW c \in Connects, NEW id \in Ids, ConnectAsked(c, id)
      PROVE  TypeOK'
  <2>1. ConnTypeOK'
    BY <1>1, <1>a DEF ConnectAsked, ConnTypeOK, ConnPcs
  <2>2. QED
    BY <1>1, <2>1, <1>b, <1>c, <1>e, <1>f DEF ConnectAsked
<1>2. ASSUME NEW c \in Connects, ConnectBegin(c)
      PROVE  TypeOK'
  <2>1. conn[c].id \in Ids
    BY <1>2, <1>g DEF ConnectBegin
  <2>2. TablesTypeOK'
    BY <1>2, <1>a, <2>1, BeginTyped DEF ConnectBegin, TablesTypeOK
  <2>3. attempts[conn[c].id] + 1 \in Nat
    BY <1>a, <2>1 DEF TablesTypeOK
  <2>c. conn[c] \in [pc : ConnPcs, id : Ids \cup {Nobody}, gen : Nat,
                    tty : BOOLEAN, kind : Kinds \cup {Nobody}]
    BY <1>a DEF ConnTypeOK
  <2> DEFINE r == [conn[c] EXCEPT !.pc = "connecting", !.id = conn[c].id,
                     !.gen = attempts[conn[c].id] + 1, !.tty = conn[c].tty]
  <2>a. conn' = [conn EXCEPT ![c] = r]
    BY <1>2 DEF ConnectBegin, Begun
  <2>b. r \in [pc : ConnPcs, id : Ids, gen : Nat, tty : BOOLEAN,
              kind : Kinds \cup {Nobody}] /\ r.pc = "connecting"
    BY <2>1, <2>3, <2>c DEF ConnPcs
  <2>4. ConnTypeOK'
    BY <1>a, <2>a, <2>b DEF ConnTypeOK
  <2>5. QED
    BY <1>2, <2>2, <2>4, <1>b, <1>e, <1>f DEF ConnectBegin
<1>3. ASSUME NEW c \in Connects, NEW kind \in Kinds, Ask(c, kind)
      PROVE  TypeOK'
  <2>1. conn[c].id \in Ids
    BY <1>3, <1>g DEF Ask
  <2>2. TablesTypeOK'
    BY <1>3, <1>a, <2>1, PendingTyped DEF Ask, TablesTypeOK
  <2>3. ConnTypeOK'
    BY <1>3, <1>a, <2>1 DEF Ask, ConnTypeOK, ConnPcs
  <2>4. QED
    BY <1>3, <2>2, <2>3, <1>b, <1>e, <1>f DEF Ask
<1>4. ASSUME NEW id \in Ids, NEW kind \in Kinds, NEW yes \in BOOLEAN,
             Answer(id, kind, yes)
      PROVE  TypeOK'
  <2> DEFINE c == pending[kind][id]
  <2>1. TablesTypeOK'
    BY <1>4, <1>a, PendingTyped DEF Answer, TablesTypeOK
  <2>2. ConnTypeOK'
    BY <1>4, <1>a DEF Answer, Asking, ConnTypeOK, ConnPcs
  <2>3. QED
    BY <1>4, <2>1, <2>2, <1>b, <1>e, <1>f DEF Answer
<1>5. ASSUME NEW c \in Connects, AskDropped(c)
      PROVE  TypeOK'
  <2>1. ConnTypeOK'
    BY <1>5, <1>a, <1>g, GoToTyped DEF AskDropped, ConnPcs
  <2>2. QED
    BY <1>5, <2>1, <1>b, <1>c, <1>e, <1>f DEF AskDropped
<1>6. ASSUME NEW c \in Connects, AskExpires(c)
      PROVE  TypeOK'
  <2>1. conn[c].kind \in Kinds
    BY <1>6, <1>a DEF AskExpires, ConnTypeOK
  <2>2. ConnTypeOK'
    BY <1>6, <1>a, <1>g, <2>1, GoToTyped DEF AskExpires, ConnPcs
  <2>3. QED
    BY <1>6, <2>2, <1>b, <1>c, <1>e, <1>f DEF AskExpires
<1>7. ASSUME NEW c \in Connects, AskWithdrawn(c)
      PROVE  TypeOK'
  <2>1. conn[c].kind \in Kinds /\ conn[c].id \in Ids
    BY <1>7, <1>a DEF AskWithdrawn, ConnTypeOK
  <2>2. ConnTypeOK'
    BY <1>7, <1>a, <2>1, GoToTyped DEF AskWithdrawn, ConnPcs
  <2>3. TablesTypeOK'
    BY <1>7, <1>a, <2>1, PendingTyped DEF AskWithdrawn, TablesTypeOK
  <2>4. QED
    BY <1>7, <2>2, <2>3, <1>b, <1>e, <1>f DEF AskWithdrawn
<1>7a. ASSUME NEW c \in Connects, CutOff(c)
       PROVE  TypeOK'
  <2>1. conn[c].kind \in Kinds /\ conn[c].id \in Ids
    BY <1>7a, <1>a DEF CutOff, ConnTypeOK
  <2>2. ConnTypeOK'
    BY <1>7a, <1>a, <2>1, GoToTyped DEF CutOff, ConnPcs
  <2>3. QED
    BY <1>7a, <2>2, <1>b, <1>c, <1>e, <1>f DEF CutOff
<1>7b. ASSUME NEW c \in Connects, CutWithdrawn(c)
       PROVE  TypeOK'
  <2>1. conn[c].kind \in Kinds /\ conn[c].id \in Ids
    BY <1>7b, <1>a DEF CutWithdrawn, ConnTypeOK
  <2>2. ConnTypeOK'
    BY <1>7b, <1>a, <2>1, GoToTyped DEF CutWithdrawn, ConnPcs
  <2>3. TablesTypeOK'
    BY <1>7b, <1>a, <2>1, PendingTyped DEF CutWithdrawn, TablesTypeOK
  <2>4. QED
    BY <1>7b, <2>2, <2>3, <1>b, <1>e, <1>f DEF CutWithdrawn
<1>8. ASSUME NEW c \in Connects, ConnectFails(c)
      PROVE  TypeOK'
  <2>1. ConnTypeOK'
    BY <1>8, <1>a, <1>g, GoToTyped DEF ConnectFails, ConnPcs
  <2>2. QED
    BY <1>8, <2>1, <1>b, <1>c, <1>e, <1>f DEF ConnectFails
<1>9. ASSUME NEW c \in Connects, ConnectSucceeds(c)
      PROVE  TypeOK'
  <2>1. ConnTypeOK'
    BY <1>9, <1>a, <1>g, GoToTyped DEF ConnectSucceeds, ConnPcs
  <2>2. TablesTypeOK'
    BY <1>9, <1>a DEF ConnectSucceeds, Hang, TablesTypeOK
  <2>3. QED
    BY <1>9, <2>1, <2>2, <1>b, <1>e, <1>f DEF ConnectSucceeds
<1>10. ASSUME NEW c \in Connects, ShellRefused(c)
       PROVE  TypeOK'
  <2>1. ConnTypeOK'
    BY <1>10, <1>a, <1>g, GoToTyped DEF ShellRefused, ConnPcs
  <2>2. TablesTypeOK'
    BY <1>10, <1>a, HangTyped DEF ShellRefused, TablesTypeOK
  <2>3. QED
    BY <1>10, <2>1, <2>2, <1>b, <1>e, <1>f DEF ShellRefused
<1>11. ASSUME NEW c \in Connects, ShellOpens(c)
       PROVE  TypeOK'
  <2>1. ConnTypeOK'
    BY <1>11, <1>a, <1>g, GoToTyped DEF ShellOpens, ConnPcs
  <2>2. conn[c].id \in Ids /\ conn[c].gen \in Nat
    BY <1>11, <1>g DEF ShellOpens
  <2>3. TablesTypeOK'
    BY <1>11, <1>a, <2>2, ChannelsTyped DEF ShellOpens, TablesTypeOK
  <2>4. ShellTypeOK'
    BY <1>11, <1>a DEF ShellOpens, ShellTypeOK
  <2>5. QED
    BY <1>11, <2>1, <2>3, <2>4, <1>b, <1>f DEF ShellOpens
<1>12. ASSUME NEW c \in Connects, Store(c)
       PROVE  TypeOK'
  <2>1. ConnTypeOK'
    BY <1>12, <1>a, <1>g, GoToTyped DEF Store, ConnPcs
  <2>2. TablesTypeOK'
    BY <1>12, <1>a DEF Store, TablesTypeOK
  <2>3. QED
    BY <1>12, <2>1, <2>2, <1>b, <1>e, <1>f DEF Store
<1>13. ASSUME NEW c \in Connects, Retract(c)
       PROVE  TypeOK'
  <2>1. ConnTypeOK'
    BY <1>13, <1>a, <1>g, GoToTyped DEF Retract, ConnPcs
  <2>2. conn[c].id \in Ids /\ conn[c].gen \in Nat
    BY <1>13, <1>g DEF Retract
  <2>3. TablesTypeOK'
    BY <1>13, <1>a, <2>2, ChannelsTyped, HangTyped DEF Retract, TablesTypeOK
  <2>4. QED
    BY <1>13, <2>1, <2>3, <1>b, <1>e, <1>f DEF Retract
<1>14. ASSUME NEW c \in Connects, ShellEnds(c)
       PROVE  TypeOK'
  <2>1. TablesTypeOK'
    BY <1>14, <1>a DEF ShellEnds, RemoveChannelForAttempt, TablesTypeOK
  <2>2. ShellTypeOK'
    BY <1>14, <1>a DEF ShellEnds, ShellTypeOK
  <2>3. QED
    BY <1>14, <2>1, <2>2, <1>b, <1>d, <1>f DEF ShellEnds
<1>15. ASSUME NEW d \in Disconnects, NEW id \in Ids, DisconnectAsked(d, id)
       PROVE  TypeOK'
  <2>1. DiscTypeOK'
    BY <1>15, <1>a DEF DisconnectAsked, DiscTypeOK, DiscPcs
  <2>2. QED
    BY <1>15, <2>1, <1>b, <1>c, <1>d, <1>e DEF DisconnectAsked
<1> USE DEF DiscAt
<1>16. ASSUME NEW d \in Disconnects, ReadGuard(d)
       PROVE  TypeOK'
  <2>1. disc[d].id \in Ids /\ attempts[disc[d].id] \in Nat
    BY <1>16, <1>a, <1>h DEF ReadGuard, TablesTypeOK
  <2>2. DiscTypeOK'
    BY <1>16, <1>a, <2>1 DEF ReadGuard, DiscTypeOK, DiscPcs
  <2>3. QED
    BY <1>16, <2>2, <1>b, <1>c, <1>d, <1>e DEF ReadGuard
<1>17. ASSUME NEW d \in Disconnects, RemoveSession(d)
       PROVE  TypeOK'
  <2>1. disc[d].id \in Ids
    BY <1>17, <1>h DEF RemoveSession
  <2>2. sessions[disc[d].id] \in Connects \cup {Nobody}
    BY <1>a, <2>1 DEF TablesTypeOK
  <2> DEFINE s == sessions[disc[d].id]
             pc == IF s = Nobody THEN "invalidating" ELSE "hanging"
             r == [disc[d] EXCEPT !.pc = pc, !.target = s]
  <2>a. disc' = [disc EXCEPT ![d] = r]
    BY <1>17, <1>a DEF RemoveSession, DiscTypeOK
  <2>b. /\ r \in [pc : DiscPcs, id : Ids, guard : Nat,
                 target : Connects \cup {Nobody}, before : SUBSET Connects]
        /\ r.pc = "hanging" => r.target \in Connects
    BY <1>a, <2>1, <2>2 DEF DiscTypeOK, DiscPcs
  <2>3. DiscTypeOK'
    BY <1>a, <2>a, <2>b DEF DiscTypeOK
  <2>4. TablesTypeOK'
    BY <1>17, <1>a DEF RemoveSession, TablesTypeOK
  <2>5. QED
    BY <1>17, <2>3, <2>4, <1>b, <1>d, <1>e DEF RemoveSession
<1>18. ASSUME NEW d \in Disconnects, HangUp(d)
       PROVE  TypeOK'
  <2>1. disc[d].target \in Connects
    BY <1>18, <1>a DEF HangUp, DiscTypeOK
  <2>2. TablesTypeOK'
    BY <1>18, <1>a, <2>1, HangTyped DEF HangUp, TablesTypeOK
  <2>3. DiscTypeOK'
    BY <1>18, <1>a, <1>h, DiscGoToTyped DEF HangUp, DiscPcs
  <2>4. QED
    BY <1>18, <2>2, <2>3, <1>b, <1>d, <1>e DEF HangUp
<1>19. ASSUME NEW d \in Disconnects, InvalidateIfCurrent(d)
       PROVE  TypeOK'
  <2>1. TablesTypeOK'
    BY <1>19, <1>a, <1>h, BeginTyped DEF InvalidateIfCurrent, TablesTypeOK
  <2>2. DiscTypeOK'
    BY <1>19, <1>a, <1>h, DiscGoToTyped DEF InvalidateIfCurrent, DiscPcs
  <2>3. QED
    BY <1>19, <2>1, <2>2, <1>b, <1>d, <1>e DEF InvalidateIfCurrent
<1>20. ASSUME NEW d \in Disconnects, ClearChannel(d)
       PROVE  TypeOK'
  <2>1. TablesTypeOK'
    BY <1>20, <1>a DEF ClearChannel, RemoveChannelForAttempt, TablesTypeOK
  <2>2. DiscTypeOK'
    BY <1>20, <1>a, <1>h, DiscGoToTyped DEF ClearChannel, DiscPcs
  <2>3. QED
    BY <1>20, <2>1, <2>2, <1>b, <1>d, <1>e DEF ClearChannel
<1>21. ASSUME NEW d \in Disconnects, Forget(d)
       PROVE  TypeOK'
  <2>1. TablesTypeOK'
    BY <1>21, <1>a DEF Forget, ForgetPrompts, TablesTypeOK
  <2>2. DiscTypeOK'
    BY <1>21, <1>a, <1>h, DiscGoToTyped DEF Forget, DiscPcs
  <2>3. QED
    BY <1>21, <2>1, <2>2, <1>b, <1>d, <1>e DEF Forget
<1>22. CASE UNCHANGED vars
  BY <1>22, <1>b, <1>c, <1>d, <1>e, <1>f DEF vars, connectVars
<1>23. QED
  BY <1>1, <1>2, <1>3, <1>4, <1>5, <1>6, <1>7, <1>7a, <1>7b, <1>8, <1>9, <1>10,
     <1>11, <1>12, <1>13, <1>14, <1>15, <1>16, <1>17, <1>18, <1>19, <1>20,
     <1>21, <1>22, NextCases

(* All tables of SshManager and all calls of connect_session and            *)
(* ssh_disconnect keep their types; a disconnect that hangs up has a        *)
(* session to hang up.                                                      *)
THEOREM TypeCorrect == Spec => []TypeOK
<1>1. Init => TypeOK
  BY TablesAssumption DEF Init, TypeOK, TablesInit, TablesTypeOK, NewConn,
     NewDisc, ConnPcs, DiscPcs
<1>2. TypeOK /\ [Next]_vars => TypeOK'
  BY TypeStep
<1>3. QED
  BY <1>1, <1>2, PTL DEF Spec

-----------------------------------------------------------------------------
(* Generations.                                                             *)

(* What most steps leave alone: the generations, the ids once given, who    *)
(* has begun; and a disconnect that has used its guard keeps it.            *)
HasBegun(c) == conn[c].pc \notin {"unasked", "asked"}
Guarded(d) == disc[d].pc \in {"clearing", "forgetting", "done"}
Quiet ==
  /\ attempts' = attempts
  /\ \A c \in Connects :
       /\ conn'[c].gen = conn[c].gen
       /\ conn[c].pc # "unasked" => conn'[c].id = conn[c].id
       /\ HasBegun(c)' <=> HasBegun(c)
       /\ conn'[c].pc = "retracting" =>
            \/ conn[c].pc = "retracting"
            \/ HasBegun(c) /\ ~IsCurrent(conn[c].id, conn[c].gen)
  /\ \A d \in Disconnects :
       /\ Guarded(d) => /\ Guarded(d)'
                        /\ disc'[d].id = disc[d].id
                        /\ disc'[d].guard = disc[d].guard
       /\ disc'[d].pc \in {"clearing", "forgetting"} =>
            Guarded(d) /\ disc[d].pc # "done"

(* Only begin_attempt and a hit of invalidate_attempt_if_current touch the  *)
(* generations; every other step of connect_session and ssh_disconnect is   *)
(* quiet.                                                                   *)
LEMMA QuietSteps ==
  ASSUME TypeOK, [Next]_vars
  PROVE  \/ \E c \in Connects : ConnectBegin(c)
         \/ \E d \in Disconnects : InvalidateIfCurrent(d)
         \/ Quiet
<1>a. ConnTypeOK /\ DiscTypeOK
  BY TypeParts
<1> USE DEF At, DiscAt, ConnTypeOK, DiscTypeOK, HasBegun, Guarded
<1>b. ASSUME UNCHANGED <<attempts, disc>>, NEW c \in Connects,
             NEW pc \in ConnPcs, GoTo(c, pc), HasBegun(c),
             pc \notin {"unasked", "asked"},
             pc = "retracting" => ~IsCurrent(conn[c].id, conn[c].gen)
      PROVE  Quiet
  BY <1>a, <1>b DEF Quiet, GoTo
<1>c. ASSUME UNCHANGED <<attempts, conn>>, NEW d \in Disconnects,
             NEW pc \in DiscPcs, DiscGoTo(d, pc),
             Guarded(d) => pc \in {"clearing", "forgetting", "done"},
             pc \in {"clearing", "forgetting"} =>
               Guarded(d) /\ disc[d].pc # "done"
      PROVE  Quiet
  BY <1>a, <1>c DEF Quiet, DiscGoTo
<1>1. ASSUME NEW c \in Connects, NEW id \in Ids, ConnectAsked(c, id)
      PROVE  Quiet
  BY <1>1, <1>a DEF ConnectAsked, tableVars, Quiet
<1>2. ASSUME NEW c \in Connects, NEW kind \in Kinds, Ask(c, kind)
      PROVE  Quiet
  BY <1>2, <1>a DEF Ask, Quiet
<1>3. ASSUME NEW id \in Ids, NEW kind \in Kinds, NEW yes \in BOOLEAN,
            Answer(id, kind, yes)
      PROVE  Quiet
  BY <1>3, <1>a DEF Answer, Asking, Quiet
<1>4. ASSUME NEW c \in Connects, AskDropped(c)
      PROVE  Quiet
  BY <1>4, <1>b DEF AskDropped, tableVars, ConnPcs
<1>5. ASSUME NEW c \in Connects, AskExpires(c)
      PROVE  Quiet
  BY <1>5, <1>b DEF AskExpires, tableVars, ConnPcs
<1>6. ASSUME NEW c \in Connects, AskWithdrawn(c)
      PROVE  Quiet
  BY <1>6, <1>b DEF AskWithdrawn, ConnPcs
<1>6a. ASSUME NEW c \in Connects, CutOff(c)
       PROVE  Quiet
  BY <1>6a, <1>b DEF CutOff, tableVars, ConnPcs
<1>6b. ASSUME NEW c \in Connects, CutWithdrawn(c)
       PROVE  Quiet
  BY <1>6b, <1>b DEF CutWithdrawn, ConnPcs
<1>7. ASSUME NEW c \in Connects, ConnectFails(c)
      PROVE  Quiet
  BY <1>7, <1>b DEF ConnectFails, tableVars, ConnPcs
<1>8. ASSUME NEW c \in Connects, ConnectSucceeds(c)
      PROVE  Quiet
  BY <1>8, <1>b DEF ConnectSucceeds, ConnPcs
<1>9. ASSUME NEW c \in Connects, ShellRefused(c)
      PROVE  Quiet
  BY <1>9, <1>b DEF ShellRefused, ConnPcs
<1>10. ASSUME NEW c \in Connects, ShellOpens(c)
      PROVE  Quiet
  BY <1>10, <1>b DEF ShellOpens, ConnPcs
<1>11. ASSUME NEW c \in Connects, Store(c)
      PROVE  Quiet
  BY <1>11, <1>b DEF Store, ConnPcs
<1>12. ASSUME NEW c \in Connects, Retract(c)
      PROVE  Quiet
  BY <1>12, <1>b DEF Retract, ConnPcs
<1>13. ASSUME NEW c \in Connects, ShellEnds(c)
      PROVE  Quiet
  BY <1>13, <1>a DEF ShellEnds, Quiet
<1>14. ASSUME NEW d \in Disconnects, NEW id \in Ids, DisconnectAsked(d, id)
      PROVE  Quiet
  BY <1>14, <1>a DEF DisconnectAsked, tableVars, Quiet
<1>15. ASSUME NEW d \in Disconnects, ReadGuard(d)
      PROVE  Quiet
  BY <1>15, <1>a DEF ReadGuard, tableVars, Quiet
<1>16. ASSUME NEW d \in Disconnects, RemoveSession(d)
      PROVE  Quiet
  BY <1>16, <1>a DEF RemoveSession, Quiet
<1>17. ASSUME NEW d \in Disconnects, HangUp(d)
      PROVE  Quiet
  BY <1>17, <1>c DEF HangUp, DiscPcs
<1>18. ASSUME NEW d \in Disconnects, ClearChannel(d)
      PROVE  Quiet
  BY <1>18, <1>c DEF ClearChannel, DiscPcs
<1>19. ASSUME NEW d \in Disconnects, Forget(d)
      PROVE  Quiet
  BY <1>19, <1>c DEF Forget, DiscPcs
<1>20. CASE UNCHANGED vars
  BY <1>20 DEF vars, tableVars, connectVars, Quiet
<1>21. QED
  BY <1>1, <1>2, <1>3, <1>4, <1>5, <1>6, <1>6a, <1>6b, <1>7, <1>8, <1>9,
     <1>10, <1>11, <1>12, <1>13, <1>14, <1>15, <1>16, <1>17, <1>18, <1>19,
     <1>20, NextCases

(* The generations of one id are distinct and none is newer than the        *)
(* current one; an attempt that takes back its channel has been overtaken,  *)
(* and a disconnect that goes on after its guard has ended its generation.  *)
GensInOrder ==
  /\ \A c \in Connects :
       /\ HasBegun(c) <=> conn[c].gen # 0
       /\ HasBegun(c) => conn[c].gen <= attempts[conn[c].id]
       /\ conn[c].pc = "retracting" => conn[c].gen < attempts[conn[c].id]
       /\ \A b \in Connects \ {c} :
            HasBegun(c) /\ HasBegun(b) /\ conn[b].id = conn[c].id
              => conn[b].gen # conn[c].gen
  /\ \A d \in Disconnects : disc[d].pc \in {"clearing", "forgetting"} =>
       disc[d].guard < attempts[disc[d].id]

(* connect_session takes a generation that nobody has (begin_attempt).      *)
LEMMA BeginInOrder ==
  ASSUME TypeOK, GensInOrder, NEW c \in Connects, ConnectBegin(c)
  PROVE  GensInOrder'
<1> DEFINE i == conn[c].id
<1>1. i \in Ids /\ attempts \in [Ids -> Nat] /\ ~HasBegun(c)
  BY TypeParts DEF ConnectBegin, At, ConnTypeOK, TablesTypeOK, HasBegun
<1>2. /\ attempts' = [attempts EXCEPT ![i] = @ + 1]
      /\ attempts'[i] = attempts[i] + 1
      /\ \A j \in Ids : attempts'[j] >= attempts[j]
  BY <1>1 DEF ConnectBegin, BeginAttempt
<1>3. /\ conn'[c].gen = attempts[i] + 1 /\ conn'[c].id = i
      /\ conn'[c].pc = "connecting"
      /\ \A b \in Connects \ {c} : conn'[b] = conn[b]
  BY TypeParts DEF ConnectBegin, Begun, ConnTypeOK
<1>4. \A b \in Connects : /\ conn[b].gen \in Nat
                          /\ HasBegun(b) => conn[b].id \in Ids
  BY TypeParts DEF ConnTypeOK, HasBegun
<1>5. ASSUME NEW b \in Connects
      PROVE  /\ HasBegun(b)' <=> conn'[b].gen # 0
             /\ HasBegun(b)' => conn'[b].gen <= attempts'[conn'[b].id]
             /\ conn'[b].pc = "retracting" =>
                  conn'[b].gen < attempts'[conn'[b].id]
  <2>1. CASE b = c
    BY <1>1, <1>2, <1>3, <2>1 DEF HasBegun
  <2>2. CASE b # c
    <3>1. conn'[b] = conn[b] /\ (HasBegun(b)' <=> HasBegun(b))
      BY <1>3, <2>2 DEF HasBegun
    <3>2. HasBegun(b) => attempts[conn[b].id] \in Nat
                        /\ attempts'[conn[b].id] \in Nat
                        /\ attempts'[conn[b].id] >= attempts[conn[b].id]
      BY <1>1, <1>2, <1>4
    <3>3. QED
      BY <1>4, <3>1, <3>2 DEF GensInOrder, HasBegun
  <2>3. QED
    BY <2>1, <2>2
<1>6. ASSUME NEW a \in Connects, NEW b \in Connects \ {a},
             HasBegun(a)', HasBegun(b)', conn'[b].id = conn'[a].id
      PROVE  conn'[b].gen # conn'[a].gen
  <2>1. CASE a # c /\ b # c
    BY <1>3, <1>6, <2>1 DEF GensInOrder, HasBegun
  <2>2. ASSUME NEW e \in Connects \ {c}, HasBegun(e)', conn'[e].id = i
        PROVE  conn'[e].gen # conn'[c].gen
    <3>1. HasBegun(e) /\ conn'[e] = conn[e]
      BY <1>3, <2>2 DEF HasBegun
    <3>2. conn[e].gen <= attempts[i]
      BY <2>2, <3>1 DEF GensInOrder
    <3>3. QED
      BY <1>1, <1>3, <1>4, <3>1, <3>2
  <2>3. QED
    BY <1>3, <1>6, <2>1, <2>2
<1>7. ASSUME NEW d \in Disconnects,
             disc'[d].pc \in {"clearing", "forgetting"}
      PROVE  disc'[d].guard < attempts'[disc'[d].id]
  <2>1. disc' = disc
    BY DEF ConnectBegin
  <2>2. disc[d].guard \in Nat /\ disc[d].id \in Ids
    BY <1>7, <2>1, TypeParts DEF DiscTypeOK
  <2>3. disc[d].guard < attempts[disc[d].id]
    BY <1>7, <2>1 DEF GensInOrder
  <2>4. attempts[disc[d].id] \in Nat /\ attempts'[disc[d].id] \in Nat
    BY <1>1, <1>2, <2>2
  <2>5. QED
    BY <1>2, <2>1, <2>2, <2>3, <2>4
<1>8. QED
  BY <1>5, <1>6, <1>7 DEF GensInOrder

(* invalidate_attempt_if_current ends the generation of its guard, and no   *)
(* other.                                                                   *)
LEMMA InvalidateInOrder ==
  ASSUME TypeOK, GensInOrder, NEW d \in Disconnects, InvalidateIfCurrent(d)
  PROVE  GensInOrder'
<1>1. /\ attempts \in [Ids -> Nat] /\ disc[d].id \in Ids
      /\ disc[d].guard \in Nat /\ conn' = conn
  BY TypeParts DEF InvalidateIfCurrent, DiscAt, DiscTypeOK, TablesTypeOK
<1>2. \A j \in Ids : attempts'[j] \in Nat /\ attempts'[j] >= attempts[j]
  BY <1>1 DEF InvalidateIfCurrent, BeginAttempt
<1>3. \A b \in Connects : /\ conn[b].gen \in Nat
                          /\ HasBegun(b) => conn[b].id \in Ids
  BY TypeParts DEF ConnTypeOK, HasBegun
<1>4. \A b \in Connects : HasBegun(b)' <=> HasBegun(b)
  BY <1>1 DEF HasBegun
<1>5. ASSUME NEW b \in Connects
      PROVE  /\ HasBegun(b) => conn[b].gen <= attempts'[conn[b].id]
             /\ conn[b].pc = "retracting" => conn[b].gen < attempts'[conn[b].id]
  <2>1. CASE HasBegun(b)
    <3>1. conn[b].id \in Ids /\ conn[b].gen \in Nat
      BY <1>3, <2>1
    <3>2. attempts[conn[b].id] \in Nat
      BY <1>1, <3>1
    <3>3. QED
      BY <1>2, <2>1, <3>1, <3>2 DEF GensInOrder
  <2>2. QED
    BY <2>1 DEF HasBegun
<1>6. ASSUME NEW e \in Disconnects,
             disc'[e].pc \in {"clearing", "forgetting"}
      PROVE  disc'[e].guard < attempts'[disc'[e].id]
  <2>1. CASE e # d
    <3>1. disc'[e] = disc[e]
      BY <2>1, TypeParts DEF InvalidateIfCurrent, DiscGoTo, DiscTypeOK
    <3>2. disc[e].guard \in Nat /\ disc[e].id \in Ids
      BY <1>6, <3>1, TypeParts DEF DiscTypeOK
    <3>3. disc[e].guard < attempts[disc[e].id]
      BY <1>6, <3>1 DEF GensInOrder
    <3>4. attempts[disc[e].id] \in Nat
      BY <1>1, <3>2
    <3>5. QED
      BY <1>2, <3>1, <3>2, <3>3, <3>4
  <2>2. CASE e = d
    <3>1. disc'[d].guard = disc[d].guard /\ disc'[d].id = disc[d].id
      BY TypeParts DEF InvalidateIfCurrent, DiscGoTo, DiscTypeOK
    <3>2. BeginAttempt(disc[d].id) /\ attempts[disc[d].id] = disc[d].guard
      BY <1>6, <2>2, TypeParts
         DEF InvalidateIfCurrent, DiscGoTo, DiscTypeOK, GuardHits, IsCurrent
    <3>3. attempts'[disc[d].id] = disc[d].guard + 1
      BY <1>1, <3>2 DEF BeginAttempt
    <3>4. QED
      BY <1>1, <2>2, <3>1, <3>3
  <2>3. QED
    BY <2>1, <2>2
<1>7. QED
  BY <1>1, <1>4, <1>5, <1>6 DEF GensInOrder

(* The other steps of connect_session and ssh_disconnect keep the order of  *)
(* the generations.                                                         *)
LEMMA QuietInOrder ==
  ASSUME TypeOK, GensInOrder, Quiet
  PROVE  GensInOrder'
<1>1. ASSUME NEW c \in Connects
      PROVE  /\ HasBegun(c)' <=> conn'[c].gen # 0
             /\ HasBegun(c)' => /\ HasBegun(c)
                                /\ conn'[c].id = conn[c].id
                                /\ conn'[c].gen = conn[c].gen
                                /\ conn'[c].gen <= attempts'[conn'[c].id]
  BY DEF Quiet, GensInOrder, HasBegun
<1>2. ASSUME NEW c \in Connects, conn'[c].pc = "retracting"
      PROVE  conn'[c].gen < attempts'[conn'[c].id]
  <2>1. HasBegun(c) /\ HasBegun(c)'
    BY <1>2 DEF Quiet, HasBegun
  <2>2. conn[c].gen \in Nat /\ attempts[conn[c].id] \in Nat
    BY <2>1, TypeParts DEF ConnTypeOK, TablesTypeOK, HasBegun
  <2>3. CASE conn[c].pc = "retracting"
    BY <1>1, <2>1, <2>3 DEF Quiet, GensInOrder
  <2>4. CASE ~IsCurrent(conn[c].id, conn[c].gen)
    BY <1>1, <2>1, <2>2, <2>4 DEF Quiet, GensInOrder, IsCurrent
  <2>5. QED
    BY <1>2, <2>3, <2>4 DEF Quiet
<1>3. ASSUME NEW d \in Disconnects,
             disc'[d].pc \in {"clearing", "forgetting"}
      PROVE  disc'[d].guard < attempts'[disc'[d].id]
  <2>1. disc[d].pc \in {"clearing", "forgetting"}
    BY <1>3 DEF Quiet, Guarded
  <2>2. QED
    BY <2>1 DEF Quiet, Guarded, GensInOrder
<1>4. QED
  BY <1>1, <1>2, <1>3 DEF GensInOrder

(* The generations of one id are distinct and never ahead of the current    *)
(* one (begin_attempt); connect_session takes its channel back, and         *)
(* ssh_disconnect clears it, only when its generation is over.              *)
THEOREM GensCorrect == Spec => []GensInOrder
<1>1. Init => GensInOrder
  BY DEF Init, GensInOrder, NewConn, NewDisc, HasBegun
<1>2. TypeOK /\ GensInOrder /\ [Next]_vars => GensInOrder'
  BY QuietSteps, QuietInOrder, BeginInOrder, InvalidateInOrder
<1>3. QED
  BY <1>1, <1>2, TypeCorrect, PTL DEF Spec

(* An attempt loses its generation only to a newer connect of its id, or to *)
(* a disconnect that had read this generation as its guard                  *)
(* (invalidate_attempt_if_current).                                         *)
THEOREM SupersededCorrect == Spec => []SupersededByName
<1>1. Init => SupersededByName
  BY DEF Init, SupersededByName, Superseded, NewConn
<1>2. TypeOK /\ GensInOrder /\ SupersededByName /\ [Next]_vars
        => SupersededByName'
  <2> SUFFICES ASSUME TypeOK, GensInOrder, SupersededByName, [Next]_vars,
                      NEW c \in Connects, Superseded(c)'
               PROVE  SupersededByName!(c)!2'
    BY DEF SupersededByName
  <2>a. \A b \in Connects : /\ conn[b].gen \in Nat
                            /\ HasBegun(b) => conn[b].id \in Ids
    BY TypeParts DEF ConnTypeOK, HasBegun
  <2>b. attempts \in [Ids -> Nat]
    BY DEF TypeOK, TablesTypeOK
  <2>1. CASE Quiet
    <3>1. Superseded(c) /\ HasBegun(c)
      BY <2>1 DEF Quiet, GensInOrder, Superseded, IsCurrent, HasBegun
    <3>2. /\ conn'[c].gen = conn[c].gen /\ conn'[c].id = conn[c].id
          /\ conn[c].gen \in Nat \ {0}
      BY <2>1, <2>a, <3>1 DEF Quiet, GensInOrder, HasBegun
    <3>3. ASSUME NEW b \in Connects, conn[b].id = conn[c].id,
                 conn[b].gen > conn[c].gen
          PROVE  conn'[b].id = conn'[c].id /\ conn'[b].gen > conn'[c].gen
      <4>1. HasBegun(b)
        BY <2>a, <3>2, <3>3 DEF GensInOrder
      <4>2. QED
        BY <2>1, <3>2, <3>3, <4>1 DEF Quiet, HasBegun
    <3>4. ASSUME NEW d \in Disconnects, disc[d].id = conn[c].id,
                 disc[d].guard = conn[c].gen, Guarded(d)
          PROVE  /\ disc'[d].id = conn'[c].id
                 /\ disc'[d].guard = conn'[c].gen /\ Guarded(d)'
      BY <2>1, <3>2, <3>4 DEF Quiet
    <3>5. QED
      BY <3>1, <3>3, <3>4 DEF SupersededByName, Guarded
  <2>2. ASSUME NEW e \in Connects, ConnectBegin(e)
        PROVE  SupersededByName!(c)!2'
    <3> DEFINE i == conn[e].id
    <3>1. i \in Ids /\ ~HasBegun(e)
      BY <2>2, TypeParts DEF ConnectBegin, At, ConnTypeOK, HasBegun
    <3>2. /\ conn'[e].gen = attempts[i] + 1 /\ conn'[e].id = i
          /\ \A b \in Connects \ {e} : conn'[b] = conn[b]
          /\ disc' = disc
      BY <2>2, TypeParts DEF ConnectBegin, Begun, ConnTypeOK
    <3>3. attempts' = [attempts EXCEPT ![i] = @ + 1]
      BY <2>2 DEF ConnectBegin, BeginAttempt
    <3>4. c # e
      BY <2>b, <3>1, <3>2, <3>3 DEF Superseded, IsCurrent
    <3>5. HasBegun(c) /\ conn'[c] = conn[c]
      BY <3>2, <3>4 DEF Superseded, GensInOrder
    <3>6. CASE conn[c].id = i
      <4>1. conn[c].gen <= attempts[i]
        BY <3>5, <3>6 DEF GensInOrder
      <4>2. conn'[e].gen > conn'[c].gen
        BY <2>a, <2>b, <3>1, <3>2, <3>5, <4>1
      <4>3. QED
        BY <3>2, <3>5, <3>6, <4>2
    <3>7. CASE conn[c].id # i
      <4>1. attempts'[conn[c].id] = attempts[conn[c].id]
        BY <2>a, <2>b, <3>3, <3>5, <3>7
      <4>2. Superseded(c)
        BY <3>5, <4>1 DEF Superseded, IsCurrent
      <4>3. \A b \in Connects : conn[b].id = conn[c].id => b # e
        BY <3>7
      <4>4. QED
        BY <3>2, <3>5, <4>2, <4>3 DEF SupersededByName
    <3>8. QED
      BY <3>6, <3>7
  <2>3. ASSUME NEW e \in Disconnects, InvalidateIfCurrent(e)
        PROVE  SupersededByName!(c)!2'
    <3>1. /\ conn' = conn
          /\ disc'[e].id = disc[e].id /\ disc'[e].guard = disc[e].guard
          /\ \A d \in Disconnects \ {e} : disc'[d] = disc[d]
      BY <2>3, TypeParts DEF InvalidateIfCurrent, DiscGoTo, DiscTypeOK
    <3>2. CASE Superseded(c)
      <4>1. \A d \in Disconnects : Guarded(d) => d # e
        BY <2>3 DEF InvalidateIfCurrent, DiscAt, Guarded
      <4>2. QED
        BY <3>1, <3>2, <4>1 DEF SupersededByName, Guarded
    <3>3. CASE ~Superseded(c)
      <4>1. conn[c].gen # 0 /\ attempts[conn[c].id] = conn[c].gen
        BY <3>1, <3>3 DEF Superseded, IsCurrent
      <4>2. attempts' # attempts
        BY <3>1, <3>3 DEF Superseded, IsCurrent
      <4>3. /\ GuardHits(disc[e].id, disc[e].guard)
            /\ BeginAttempt(disc[e].id) /\ DiscGoTo(e, "clearing")
        BY <2>3, <4>2 DEF InvalidateIfCurrent
      <4>4. conn[c].id = disc[e].id
        BY <2>a, <2>b, <3>1, <4>1, <4>3
           DEF BeginAttempt, Superseded, IsCurrent, GensInOrder
      <4>5. disc[e].guard = conn[c].gen
        BY <4>1, <4>3, <4>4 DEF GuardHits, IsCurrent
      <4>6. disc'[e].pc = "clearing"
        BY <4>3, TypeParts DEF DiscGoTo, DiscTypeOK
      <4>7. QED
        BY <3>1, <4>4, <4>5, <4>6
    <3>4. QED
      BY <3>2, <3>3
  <2>4. QED
    BY <2>1, <2>2, <2>3, QuietSteps
<1>3. QED
  BY <1>1, <1>2, TypeCorrect, GensCorrect, PTL DEF Spec

-----------------------------------------------------------------------------
(* Who may be in which table.                                               *)

(* A registered session is of a connect that has succeeded, under its id.   *)
SessionsDone ==
  \A id \in Ids, c \in Connects : sessions[id] = c =>
    conn[c].pc = "done" /\ conn[c].id = id

(* A write channel is entered by an open shell, with its generation and id. *)
ChannelsOwned ==
  \A id \in Ids, c \in Connects :
    channels[id] # NoEntry /\ channels[id].tx = c =>
      /\ channels[id].gen = conn[c].gen /\ conn[c].id = id
      /\ shell[c] = "open"
      /\ conn[c].pc \in {"storing", "retracting", "done"}

(* Only a connect that has authenticated has a connection.                  *)
LinksIdle ==
  \A c \in Connects :
    \/ conn[c].pc \in {"opening", "storing", "retracting", "done"}
    \/ link[c] \in {"none", "dead"}

TablesOwned == SessionsDone /\ PromptIsAwaited /\ ChannelsOwned /\ LinksIdle

(* Every step of theirs keeps the tables in order.                          *)
LEMMA OwnersStep == TypeOK /\ TablesOwned /\ [Next]_vars => TablesOwned'
<1> SUFFICES ASSUME TypeOK, TablesOwned, [Next]_vars PROVE TablesOwned'
  OBVIOUS
<1>a. TablesTypeOK /\ ConnTypeOK /\ ShellTypeOK /\ DiscTypeOK
  BY TypeParts
<1> USE TablesAssumption
<1> USE DEF At, DiscAt, TablesTypeOK, ConnTypeOK, ShellTypeOK, TablesOwned,
            SessionsDone, PromptIsAwaited, ChannelsOwned, LinksIdle
<1>1. ASSUME NEW c \in Connects, NEW id \in Ids, ConnectAsked(c, id)
      PROVE  TablesOwned'
  BY <1>1, <1>a DEF ConnectAsked, tableVars
<1>2. ASSUME NEW c \in Connects, ConnectBegin(c)
      PROVE  TablesOwned'
  BY <1>2, <1>a DEF ConnectBegin, Begun
<1>3. ASSUME NEW c \in Connects, NEW kind \in Kinds, Ask(c, kind)
      PROVE  TablesOwned'
  BY <1>3, <1>a DEF Ask, RegisterPrompt
<1>4. ASSUME NEW id \in Ids, NEW kind \in Kinds, NEW yes \in BOOLEAN,
             Answer(id, kind, yes)
      PROVE  TablesOwned'
  <2> DEFINE c == pending[kind][id]
  <2>1. /\ c \in Connects /\ conn[c].pc \in {"asking", "expired", "cut"}
        /\ conn[c].kind = kind /\ conn[c].id = id
    BY <1>4 DEF Answer
  <2>2. /\ \A b \in Connects \ {c} : conn'[b] = conn[b]
        /\ conn'[c].id = conn[c].id /\ conn'[c].gen = conn[c].gen
        /\ UNCHANGED <<sessions, channels, shell, link>>
    BY <1>4, <1>a, <2>1 DEF Answer
  <2>3. conn'[c].pc \in {"asking", "expired", "cut", "connecting", "failed"}
    BY <1>4, <1>a, <2>1 DEF Answer
  <2>4. \A k \in Kinds, i \in Ids :
          pending'[k][i] = IF k = kind /\ i = id THEN Nobody
                           ELSE pending[k][i]
    BY <1>4, <1>a DEF Answer, RemovePrompt
  <2>5. PromptIsAwaited'
    BY <2>1, <2>2, <2>4
  <2>6. SessionsDone'
    BY <2>1, <2>2
  <2>7. ChannelsOwned'
    BY <2>1, <2>2
  <2>8. LinksIdle'
    BY <2>1, <2>2, <2>3
  <2>9. QED
    BY <2>5, <2>6, <2>7, <2>8
<1>5. ASSUME NEW c \in Connects, AskDropped(c)
      PROVE  TablesOwned'
  BY <1>5, <1>a DEF AskDropped, Sender, GoTo, tableVars
<1>6. ASSUME NEW c \in Connects, AskExpires(c)
      PROVE  TablesOwned'
  BY <1>6, <1>a DEF AskExpires, GoTo, tableVars
<1>7. ASSUME NEW c \in Connects, AskWithdrawn(c)
      PROVE  TablesOwned'
  BY <1>7, <1>a DEF AskWithdrawn, RemovePrompt, GoTo
<1>7a. ASSUME NEW c \in Connects, CutOff(c)
       PROVE  TablesOwned'
  BY <1>7a, <1>a DEF CutOff, GoTo, tableVars
<1>7b. ASSUME NEW c \in Connects, CutWithdrawn(c)
       PROVE  TablesOwned'
  BY <1>7b, <1>a DEF CutWithdrawn, RemovePrompt, Sender, GoTo
<1>8. ASSUME NEW c \in Connects, ConnectFails(c)
      PROVE  TablesOwned'
  BY <1>8, <1>a DEF ConnectFails, GoTo, tableVars
<1>9. ASSUME NEW c \in Connects, ConnectSucceeds(c)
      PROVE  TablesOwned'
  <2>1. /\ conn[c].pc = "connecting"
        /\ \A b \in Connects \ {c} : conn'[b] = conn[b] /\ link'[b] = link[b]
        /\ conn'[c].id = conn[c].id /\ conn'[c].gen = conn[c].gen
        /\ UNCHANGED <<sessions, channels, shell, pending>>
    BY <1>9, <1>a DEF ConnectSucceeds, GoTo, Hang
  <2>2. \/ conn'[c].pc \in {"opening", "storing"}
        \/ link'[c] = "dead"
    BY <1>9, <1>a DEF ConnectSucceeds, GoTo, Hang
  <2>3. SessionsDone' /\ ChannelsOwned' /\ PromptIsAwaited'
    BY <2>1
  <2>4. LinksIdle'
    BY <2>1, <2>2
  <2>5. QED
    BY <2>3, <2>4
<1>10. ASSUME NEW c \in Connects, ShellRefused(c)
      PROVE  TablesOwned'
  BY <1>10, <1>a DEF ShellRefused, GoTo, Hang
<1>11. ASSUME NEW c \in Connects, ShellOpens(c)
      PROVE  TablesOwned'
  BY <1>11, <1>a DEF ShellOpens, GoTo, InsertChannel
<1>12. ASSUME NEW c \in Connects, Store(c)
      PROVE  TablesOwned'
  <2>1. /\ conn[c].pc = "storing"
        /\ \A b \in Connects \ {c} : conn'[b] = conn[b]
        /\ conn'[c].id = conn[c].id /\ conn'[c].gen = conn[c].gen
        /\ conn'[c].pc \in {"done", "retracting"}
        /\ UNCHANGED <<channels, shell, pending, link>>
    BY <1>12, <1>a DEF Store, GoTo
  <2>2. \/ sessions' = sessions
        \/ /\ sessions' = [sessions EXCEPT ![conn[c].id] = c]
           /\ conn'[c].pc = "done"
    BY <1>12, <1>a DEF Store, GoTo
  <2>3. \A i \in Ids : \/ sessions'[i] = sessions[i]
                      \/ /\ i = conn[c].id /\ sessions'[i] = c
                         /\ conn'[c].pc = "done"
    BY <1>a, <2>2
  <2>4. SessionsDone'
    BY <2>1, <2>3
  <2>5. ChannelsOwned' /\ PromptIsAwaited' /\ LinksIdle'
    BY <2>1
  <2>6. QED
    BY <2>4, <2>5
<1>13. ASSUME NEW c \in Connects, Retract(c)
      PROVE  TablesOwned'
  BY <1>13, <1>a DEF Retract, GoTo, Hang, RemoveChannelForAttempt
<1>14. ASSUME NEW c \in Connects, ShellEnds(c)
      PROVE  TablesOwned'
  BY <1>14, <1>a DEF ShellEnds, RemoveChannelForAttempt
<1>15. ASSUME NEW d \in Disconnects, NEW id \in Ids, DisconnectAsked(d, id)
      PROVE  TablesOwned'
  BY <1>15, <1>a DEF DisconnectAsked, tableVars
<1>16. ASSUME NEW d \in Disconnects, ReadGuard(d)
      PROVE  TablesOwned'
  BY <1>16, <1>a DEF ReadGuard, tableVars
<1>17. ASSUME NEW d \in Disconnects, RemoveSession(d)
      PROVE  TablesOwned'
  BY <1>17, <1>a DEF RemoveSession
<1>18. ASSUME NEW d \in Disconnects, HangUp(d)
      PROVE  TablesOwned'
  BY <1>18, <1>a DEF HangUp, Hang
<1>19. ASSUME NEW d \in Disconnects, InvalidateIfCurrent(d)
      PROVE  TablesOwned'
  BY <1>19, <1>a DEF InvalidateIfCurrent
<1>20. ASSUME NEW d \in Disconnects, ClearChannel(d)
      PROVE  TablesOwned'
  BY <1>20, <1>a DEF ClearChannel, RemoveChannelForAttempt
<1>21. ASSUME NEW d \in Disconnects, Forget(d)
      PROVE  TablesOwned'
  BY <1>21, <1>a DEF Forget, ForgetPrompts
<1>22. CASE UNCHANGED vars
  BY <1>22 DEF vars, tableVars, connectVars
<1>23. QED
  BY <1>1, <1>2, <1>3, <1>4, <1>5, <1>6, <1>7, <1>7a, <1>7b, <1>8, <1>9, <1>10,
     <1>11, <1>12, <1>13, <1>14, <1>15, <1>16, <1>17, <1>18, <1>19, <1>20,
     <1>21, <1>22, NextCases

(* What is in SshManager's tables belongs there: sessions of connects that  *)
(* are done, prompts that somebody awaits or that the connect's time limit  *)
(* cut off, write channels of open shells; and a connection belongs to a    *)
(* connect that has authenticated.                                          *)
THEOREM OwnersCorrect == Spec => []TablesOwned
<1>1. Init => TablesOwned
  BY TablesAssumption DEF Init, TablesInit, TablesOwned, SessionsDone,
     PromptIsAwaited, ChannelsOwned, LinksIdle, NewConn
<1>2. TypeOK /\ TablesOwned /\ [Next]_vars => TablesOwned'
  BY OwnersStep
<1>3. QED
  BY <1>1, <1>2, TypeCorrect, PTL DEF Spec

(* Whoever is in a prompt table waits for the answer, is about to withdraw, *)
(* or has been failed in the midst of it by the 370 s of connect_and_auth:  *)
(* ssh_kb_response never answers an attempt that has moved on.              *)
THEOREM PromptsCorrect == Spec => []PromptIsAwaited
BY OwnersCorrect, PTL DEF TablesOwned

(* Every write channel in the table has a reader that will take it out      *)
(* (open_shell): no input disappears into a shell that has ended.           *)
THEOREM ReadersCorrect == Spec => []ChannelHasReader
<1>1. TypeOK /\ TablesOwned => ChannelHasReader
  <2> SUFFICES ASSUME TypeOK, TablesOwned, NEW id \in Ids, NEW c \in Connects,
                      channels[id] = Entry(c)
               PROVE  shell[c] = "open"
    BY DEF ChannelHasReader
  <2>1. Entry(c) # NoEntry
    BY TablesAssumption DEF TypeOK, Entry
  <2>2. QED
    BY <2>1 DEF Entry, TablesOwned, ChannelsOwned
<1>2. QED
  BY <1>1, TypeCorrect, OwnersCorrect, PTL

(* A connect_session that failed, wherever it was overtaken, leaves no      *)
(* session, no write channel and no open connection; and no prompt, unless  *)
(* its time limit cut it off in the midst of that one.                      *)
THEOREM FailureCorrect == Spec => []FailureLeavesNothing
<1>1. TypeOK /\ TablesOwned => FailureLeavesNothing
  <2> SUFFICES ASSUME TypeOK, TablesOwned, NEW c \in Connects,
                      conn[c].pc \in {"failed", "cut"}
               PROVE  FailureLeavesNothing!(c)!2
    BY DEF FailureLeavesNothing, At
  <2>1. ASSUME NEW id \in Ids
        PROVE  sessions[id] # c /\ channels[id] # Entry(c)
    <3>1. Entry(c) # NoEntry
      BY TablesAssumption DEF TypeOK, Entry
    <3>2. QED
      BY <3>1 DEF Entry, TablesOwned, SessionsDone, ChannelsOwned
  <2>2. ASSUME NEW kind \in Kinds, NEW id \in Ids, pending[kind][id] = c
        PROVE  At(c, "cut") /\ kind = conn[c].kind /\ id = conn[c].id
    BY <2>2 DEF TablesOwned, PromptIsAwaited, At
  <2>3. link[c] \in {"none", "dead"}
    BY DEF TablesOwned, LinksIdle
  <2>4. QED
    BY <2>1, <2>2, <2>3
<1>2. QED
  BY <1>1, TypeCorrect, OwnersCorrect, PTL

-----------------------------------------------------------------------------
(* Steps.                                                                   *)

(* What connect_session registers is newer than all that was registered     *)
(* under its id before: its second look at the generation is enough.        *)
THEOREM OrderCorrect == Spec => RegisteredInOrder
<1>1. TypeOK /\ GensInOrder /\ [Next]_vars =>
        [\A id \in Ids, c \in Connects :
          sessions'[id] = c /\ sessions[id] # c =>
            \A b \in Connects \ {c} :
              conn[b].id = id /\ At(b, "done")
                => conn[b].gen < conn[c].gen]_vars
  <2> SUFFICES ASSUME TypeOK, GensInOrder, [Next]_vars,
                      NEW id \in Ids, NEW c \in Connects,
                      sessions'[id] = c, sessions[id] # c,
                      NEW b \in Connects \ {c},
                      conn[b].id = id, conn[b].pc = "done"
               PROVE  conn[b].gen < conn[c].gen
    BY DEF At
  <2>a. sessions \in [Ids -> Connects \cup {Nobody}]
    BY DEF TypeOK, TablesTypeOK
  <2>1. ~\E d \in Disconnects : RemoveSession(d)
    BY <2>a, TablesAssumption DEF RemoveSession
  <2>2. \E e \in Connects : Store(e)
    BY <2>1, NextCases DEF ConnectAsked, ConnectBegin, Ask, Answer, AskDropped,
       AskExpires, AskWithdrawn, CutOff, CutWithdrawn, ConnectFails,
       ConnectSucceeds, ShellRefused,
       ShellOpens, Retract, ShellEnds, DisconnectAsked, ReadGuard, HangUp,
       InvalidateIfCurrent, ClearChannel, Forget, vars, tableVars
  <2>3. /\ Store(c) /\ conn[c].id = id
        /\ IsCurrent(id, conn[c].gen)
    BY <2>2, <2>a DEF Store
  <2>4. HasBegun(b) /\ HasBegun(c)
    BY <2>3 DEF HasBegun, Store, At
  <2>5. conn[b].gen <= conn[c].gen /\ conn[b].gen # conn[c].gen
    BY <2>3, <2>4 DEF GensInOrder, IsCurrent
  <2>6. conn[b].gen \in Nat /\ conn[c].gen \in Nat
    BY TypeParts DEF ConnTypeOK
  <2>7. QED
    BY <2>5, <2>6
<1>2. QED
  BY <1>1, TypeCorrect, GensCorrect, PTL DEF Spec, RegisteredInOrder

(* The write channel of the current attempt leaves the table only with its  *)
(* own shell, or under the channel of another shell: no end of an older     *)
(* attempt and no older disconnect mutes it (remove_channel_for_attempt).   *)
THEOREM ChannelKeptCorrect == Spec => CurrentKeepsChannel
<1>1. TypeOK /\ GensInOrder /\ TablesOwned /\ [Next]_vars =>
        [\A id \in Ids, c \in Connects :
          /\ channels[id] = Entry(c)
          /\ channels'[id] = NoEntry
          /\ ~Superseded(c)
          => shell'[c] = "ended"]_vars
  <2> SUFFICES ASSUME TypeOK, GensInOrder, TablesOwned, [Next]_vars,
                      NEW id \in Ids, NEW c \in Connects,
                      channels[id] = Entry(c), channels'[id] = NoEntry,
                      ~Superseded(c)
               PROVE  shell'[c] = "ended"
    OBVIOUS
  <2>a. /\ channels \in [Ids -> Entries \cup {NoEntry}]
        /\ shell \in [Connects -> {"none", "open", "ended"}]
    BY DEF TypeOK, TablesTypeOK
  <2>b. channels[id] # NoEntry /\ channels[id].gen = conn[c].gen
    BY TablesAssumption DEF TypeOK, Entry
  <2>c. conn[c].id = id /\ HasBegun(c)
    BY <2>b DEF Entry, TablesOwned, ChannelsOwned, HasBegun
  <2>d. attempts[id] = conn[c].gen
    BY <2>c DEF Superseded, IsCurrent, GensInOrder
  <2>e. \A b \in Connects :
          conn[b].gen = conn[c].gen /\ conn[b].id = id /\ HasBegun(b) => b = c
    BY <2>c DEF GensInOrder
  <2>1. ASSUME NEW e \in Connects, ShellOpens(e)
        PROVE  FALSE
    <3>1. [gen |-> conn[e].gen, tx |-> e] # NoEntry
      BY TablesAssumption DEF TypeOK
    <3>2. QED
      BY <2>1, <2>a, <2>b, <3>1 DEF ShellOpens, InsertChannel
  <2>2. ASSUME NEW e \in Connects, Retract(e)
        PROVE  FALSE
    <3>1. conn[e].id = id /\ conn[e].gen = conn[c].gen
      BY <2>2, <2>a, <2>b DEF Retract, RemoveChannelForAttempt
    <3>2. conn[e].gen < attempts[id] /\ conn[e].gen \in Nat
      BY <2>2, <3>1, TypeParts DEF Retract, At, GensInOrder, ConnTypeOK
    <3>3. QED
      BY <2>d, <3>1, <3>2
  <2>3. ASSUME NEW e \in Connects, ShellEnds(e)
        PROVE  shell'[c] = "ended"
    <3>1. conn[e].id = id /\ conn[e].gen = conn[c].gen
      BY <2>3, <2>a, <2>b DEF ShellEnds, RemoveChannelForAttempt
    <3>2. HasBegun(e)
      BY <2>c, <3>1 DEF GensInOrder
    <3>3. e = c
      BY <2>e, <3>1, <3>2
    <3>4. QED
      BY <2>3, <2>a, <3>3 DEF ShellEnds
  <2>4. ASSUME NEW d \in Disconnects, ClearChannel(d)
        PROVE  FALSE
    <3>1. disc[d].id = id /\ disc[d].guard = conn[c].gen
      BY <2>4, <2>a, <2>b DEF ClearChannel, RemoveChannelForAttempt
    <3>2. disc[d].guard < attempts[id] /\ disc[d].guard \in Nat
      BY <2>4, <3>1, TypeParts
         DEF ClearChannel, DiscAt, GensInOrder, DiscTypeOK
    <3>3. QED
      BY <2>d, <3>1, <3>2
  <2>5. \/ \E e \in Connects : ShellOpens(e) \/ Retract(e) \/ ShellEnds(e)
        \/ \E d \in Disconnects : ClearChannel(d)
    BY <2>b, NextCases DEF ConnectAsked, ConnectBegin, Ask, Answer, AskDropped,
       AskExpires, AskWithdrawn, CutOff, CutWithdrawn, ConnectFails,
       ConnectSucceeds, ShellRefused,
       Store, DisconnectAsked, ReadGuard, RemoveSession, HangUp,
       InvalidateIfCurrent, Forget, vars, tableVars
  <2>6. QED
    BY <2>1, <2>2, <2>3, <2>4, <2>5
<1>2. QED
  BY <1>1, TypeCorrect, GensCorrect, OwnersCorrect, PTL
     DEF Spec, CurrentKeepsChannel
=============================================================================
