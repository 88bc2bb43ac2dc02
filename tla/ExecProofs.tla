------------------------------ MODULE ExecProofs -------------------------------
(* Proofs about the assistant's commands over the shared ssh sessions, for   *)
(* any set of ids, connects, disconnects, commands and listings: commands,   *)
(* connects and disconnects all interleave.                                  *)
(*                                                                           *)
(* The layers: the types; who may be in which table (SshConnectProofs, here  *)
(* beside the commands' own steps); what a command has in hand; who holds a  *)
(* session's lock; where the second try of a command goes; and what a        *)
(* bastion's pty has left in the tables.                                     *)
EXTENDS SshConnectProofs, SshExec

(* The next-state relation: the steps of connects and disconnects, the steps *)
(* of a command that touch no table of SshManager, and those that do, one by *)
(* one.                                                                      *)
LEMMA ExecCases ==
  ASSUME ExecNext
  PROVE  \/ Next /\ UNCHANGED execVars
         \/ \E t \in Calls : \/ Look(t) \/ CheckAlive(t) \/ NoConfig(t)
                             \/ Connected(t) \/ Find(t) \/ OpenFails(t)
                             \/ Refused(t) \/ Start(t) \/ KeptWasStale(t)
                             \/ Abort(t)
         \/ \E t \in Calls, outcome \in Outcomes : Collected(t, outcome)
         \/ \E t \in Calls, id \in Ids : CallAsked(t, id)
         \/ \E t \in Calls, c \in Connects : Connect(t, c)
         \/ \E t \in Calls : \/ TakeOut(t) \/ HangDropped(t) \/ Invalidate(t)
                             \/ ForgetDropped(t) \/ Acquire(t) \/ OpenPty(t)
                             \/ Selected(t) \/ SelectEnds(t) \/ CleanPty(t)
                             \/ Finish(t)
         \/ \E id \in Ids, run \in BOOLEAN : Select(id, run)
         \/ \E l \in Listers : \/ ListStart(l) \/ ListHold(l) \/ ListVisit(l)
                               \/ ListEnd(l)
         \/ \E c \in Connects : NetworkLoss(c) \/ Heartbeat(c)
<1>1. CASE \E t \in Calls : ExecStep(t)
  BY <1>1 DEF ExecStep
<1>2. CASE \E l \in Listers : ListStep(l)
  BY <1>2 DEF ListStep
<1>3. CASE ConnectingStep
  BY <1>3 DEF ConnectingStep, Next
<1>4. CASE ExecEnvironment
  BY <1>4, ConnectAssumption DEF ExecEnvironment
<1>5. QED
  BY <1>1, <1>2, <1>3, <1>4 DEF ExecNext

-----------------------------------------------------------------------------
(* What a command has in hand.                                              *)

CallType == [pc : CallPcs, id : Ids \cup {Nobody},
             session : Connects \cup {Nobody},
             connect : Connects \cup {Nobody},
             failed : Connects \cup {Nobody}, starts : Nat, pty : BOOLEAN,
             run : BOOLEAN, lost : BOOLEAN]

(* A command that has found a session has one whose connect succeeded; it    *)
(* knows its id and the connect it waits for.                                *)
InSession == {"checking", "hanging", "queued"} \cup Locked
Sound(r) ==
  /\ r.pc # "unasked" => r.id \in Ids
  /\ r.pc = "connecting" => r.connect \in Connects
  /\ r.pc \in InSession => /\ r.session \in Connects
                           /\ conn[r.session].pc = "done"
CallsOK == call \in [Calls -> CallType] /\ \A t \in Calls : Sound(call[t])

(* A session's lock is held by the command that uses it, and by no other.    *)
LockOK ==
  \A c \in Connects, t \in Calls :
    lock[c] = t <=> call[t].pc \in Locked /\ call[t].session = c

Tables == TypeOK /\ TablesOwned

(* A connect that is done stays so: its object is never connected again.     *)
DoneStays == \A c \in Connects : conn[c].pc = "done" => conn'[c].pc = "done"

LEMMA DoneStaysHere == ASSUME TypeOK, [Next]_vars PROVE DoneStays
<1>a. ConnTypeOK
  BY TypeParts
<1> USE DEF At, ConnTypeOK, DoneStays
<1>1. ASSUME NEW c \in Connects, ConnectStep(c) PROVE DoneStays
  BY <1>1, <1>a DEF ConnectStep, LimitedStep, ConnectBegin, Begun, ConnectFails,
     ConnectSucceeds, AskDropped, AskExpires, AskWithdrawn, CutOff,
     CutWithdrawn, ShellRefused, ShellOpens, Store, Retract, GoTo
<1>2. ASSUME NEW d \in Disconnects, DisconnectStep(d) PROVE DoneStays
  BY <1>2 DEF DisconnectStep, ReadGuard, RemoveSession, HangUp,
     InvalidateIfCurrent, ClearChannel, Forget
<1>3. CASE Environment
  BY <1>3, <1>a DEF Environment, ConnectAsked, Ask, Answer, Asking, ShellEnds,
     DisconnectAsked
<1>4. CASE UNCHANGED vars
  BY <1>4 DEF vars, connectVars
<1>5. QED
  BY <1>1, <1>2, <1>3, <1>4 DEF Next, AtRest

(* The steps of commands, listings and the network that touch a table or a   *)
(* connect, taken for what they do to them.                                  *)
LEMMA TablesStep ==
  ASSUME Tables, CallsOK, ExecNext
  PROVE  Tables'
<1>a. /\ TablesTypeOK /\ ConnTypeOK /\ ShellTypeOK /\ DiscTypeOK
      /\ SessionsDone /\ PromptIsAwaited /\ ChannelsOwned /\ LinksIdle
  BY TypeParts DEF Tables, TablesOwned
<1>b. ASSUME NEW t \in Calls
      PROVE  /\ call[t] \in CallType
             /\ call[t].pc # "unasked" => call[t].id \in Ids
             /\ call[t].pc \in InSession => call[t].session \in Connects
  BY DEF Tables, CallsOK, Sound
<1>c. ASSUME TablesTypeOK', ConnTypeOK', ShellTypeOK', DiscTypeOK',
             SessionsDone', PromptIsAwaited', ChannelsOwned', LinksIdle'
      PROVE  Tables'
  BY <1>c, <1>a DEF Tables, TypeOK, TablesOwned, ConnTypeOK, DiscTypeOK,
     ShellTypeOK
<1>d. ASSUME UNCHANGED connectVars, TablesTypeOK',
             SessionsDone', PromptIsAwaited', ChannelsOwned', LinksIdle'
      PROVE  Tables'
  BY <1>a, <1>c, <1>d DEF connectVars, ConnTypeOK, ShellTypeOK, DiscTypeOK
<1>e. CASE UNCHANGED <<tableVars, connectVars>>
  BY <1>a, <1>d, <1>e DEF tableVars, connectVars, TablesTypeOK, SessionsDone,
     PromptIsAwaited, ChannelsOwned, LinksIdle
<1>1. CASE Next /\ UNCHANGED execVars
  BY <1>1, TypeStep, OwnersStep DEF Tables
<1>2. ASSUME NEW t \in Calls,
             \/ Look(t) \/ CheckAlive(t) \/ NoConfig(t) \/ Connected(t)
             \/ Find(t) \/ OpenFails(t) \/ Refused(t) \/ Start(t)
             \/ KeptWasStale(t) \/ Abort(t)
      PROVE  Tables'
  BY <1>2, <1>e DEF Look, CheckAlive, NoConfig, Connected, Find, OpenFails,
     Refused, Start, KeptWasStale, Abort
<1>3. ASSUME NEW t \in Calls, NEW outcome \in Outcomes, Collected(t, outcome)
      PROVE  Tables'
  BY <1>3, <1>e DEF Collected
<1>4. ASSUME NEW t \in Calls, NEW id \in Ids, CallAsked(t, id)
      PROVE  Tables'
  BY <1>4, <1>e DEF CallAsked
<1>5. ASSUME NEW l \in Listers, ListStart(l) \/ ListVisit(l)
      PROVE  Tables'
  BY <1>5, <1>e DEF ListStart, ListVisit
<1> USE TablesAssumption
<1> USE DEF TablesTypeOK, SessionsDone, PromptIsAwaited, ChannelsOwned,
            LinksIdle, CallAt, InSession
<1>6. ASSUME NEW t \in Calls, TakeOut(t)
      PROVE  Tables'
  BY <1>6, <1>a, <1>b, <1>d DEF TakeOut, Held, connectVars
<1>7. ASSUME NEW t \in Calls, HangDropped(t)
      PROVE  Tables'
  BY <1>7, <1>a, <1>b, <1>d DEF HangDropped, Hang, connectVars
<1>8. ASSUME NEW t \in Calls, Invalidate(t)
      PROVE  Tables'
  BY <1>8, <1>a, <1>b, <1>d DEF Invalidate, BeginAttempt, connectVars
<1>9. ASSUME NEW t \in Calls, ForgetDropped(t)
      PROVE  Tables'
  BY <1>9, <1>a, <1>b, <1>d DEF ForgetDropped, ForgetPrompts, connectVars
<1>10. ASSUME NEW t \in Calls, Acquire(t) \/ Finish(t)
       PROVE  Tables'
  <2>1. /\ \/ lock' = [lock EXCEPT ![call[t].session] = t]
           \/ lock' = [lock EXCEPT ![call[t].session] = Nobody]
        /\ UNCHANGED <<attempts, sessions, channels, pending, link, tableHeld,
                       channelsHeld, connectVars>>
    BY <1>10 DEF Acquire, Finish, Released
  <2>2. lock' \in [Connects -> Calls \cup {Nobody}]
    BY <2>1, <1>a
  <2>3. QED
    BY <2>1, <2>2, <1>a, <1>d DEF connectVars
<1>11. ASSUME NEW t \in Calls, OpenPty(t)
       PROVE  Tables'
  <2>1. /\ call[t].id \in Ids /\ t \notin Connects /\ "bastion" \in Kinds
        /\ channels' = [channels EXCEPT ![call[t].id] = [gen |-> 0, tx |-> t]]
        /\ pending' = [pending EXCEPT !["bastion"][call[t].id] = t]
        /\ UNCHANGED <<attempts, sessions, link, lock, tableHeld, channelsHeld,
                       connectVars>>
    BY <1>11, <1>b DEF OpenPty, InsertChannel, RegisterPrompt, Kinds
  <2>2. /\ channels' \in [Ids -> Entries \cup {NoEntry}]
        /\ pending' \in [Kinds -> [Ids -> Connects \cup Calls \cup {Nobody}]]
    BY <2>1, <1>a DEF Entries
  <2>3. TablesTypeOK' /\ SessionsDone' /\ LinksIdle'
    BY <2>1, <2>2, <1>a DEF connectVars
  <2>4. PromptIsAwaited' /\ ChannelsOwned'
    BY <2>1, <1>a DEF connectVars
  <2>5. QED
    BY <2>1, <2>3, <2>4, <1>d
<1>12. ASSUME NEW t \in Calls, Selected(t) \/ SelectEnds(t)
       PROVE  Tables'
  <2>1. /\ call[t].id \in Ids
        /\ pending' = [pending EXCEPT !["bastion"][call[t].id] = Nobody]
        /\ UNCHANGED <<attempts, sessions, channels, link, lock, tableHeld,
                       channelsHeld, connectVars>>
    BY <1>12, <1>b DEF Selected, SelectEnds, RemovePrompt
  <2>2. QED
    BY <2>1, <1>a, <1>d DEF Kinds, connectVars
<1>13. ASSUME NEW t \in Calls, CleanPty(t)
       PROVE  Tables'
  BY <1>13, <1>a, <1>b, <1>d DEF CleanPty, connectVars
<1>14. ASSUME NEW id \in Ids, NEW run \in BOOLEAN, Select(id, run)
       PROVE  Tables'
  BY <1>14, <1>a, <1>d DEF Select, RemovePrompt, Kinds, connectVars
<1>15. ASSUME NEW l \in Listers, ListHold(l) \/ ListEnd(l)
       PROVE  Tables'
  <2>1. /\ channelsHeld' \in Listers \cup {Nobody}
        /\ UNCHANGED <<attempts, sessions, channels, pending, link, lock,
                       tableHeld, connectVars>>
    BY <1>15 DEF ListHold, ListEnd
  <2>2. TablesTypeOK'
    BY <2>1, <1>a
  <2>3. SessionsDone' /\ PromptIsAwaited' /\ ChannelsOwned' /\ LinksIdle'
    BY <2>1, <1>a DEF connectVars
  <2>4. QED
    BY <2>1, <2>2, <2>3, <1>d
<1>16. ASSUME NEW c \in Connects, NetworkLoss(c) \/ Heartbeat(c)
       PROVE  Tables'
  <2>1. /\ link[c] \in {"up", "lost"}
        /\ \/ link' = [link EXCEPT ![c] = "lost"]
           \/ link' = [link EXCEPT ![c] = "dead"]
        /\ UNCHANGED <<attempts, sessions, channels, pending, lock, tableHeld,
                       channelsHeld, connectVars>>
    BY <1>16 DEF NetworkLoss, Heartbeat, Hang
  <2>2. /\ link' \in [Connects -> {"none", "up", "lost", "dead"}]
        /\ \A b \in Connects \ {c} : link'[b] = link[b]
    BY <2>1, <1>a
  <2>3. conn[c].pc \in {"opening", "storing", "retracting", "done"}
    BY <2>1, <1>a
  <2>4. LinksIdle'
    BY <2>1, <2>2, <2>3, <1>a DEF connectVars
  <2>5. QED
    BY <2>1, <2>2, <2>4, <1>a, <1>d DEF connectVars
<1>17. ASSUME NEW t \in Calls, NEW c \in Connects, Connect(t, c)
       PROVE  Tables'
  <2>1. call[t].id \in Ids /\ conn[c].pc = "unasked"
    BY <1>17, <1>b DEF Connect, At
  <2>2. /\ attempts' \in [Ids -> Nat] /\ attempts[call[t].id] + 1 \in Nat
        /\ conn' = [conn EXCEPT ![c] = [@ EXCEPT !.pc = "connecting",
             !.id = call[t].id, !.gen = attempts[call[t].id] + 1, !.tty = FALSE]]
        /\ UNCHANGED <<sessions, channels, pending, link, lock, tableHeld,
                       channelsHeld, shell, disc>>
    BY <1>17, <1>a, <2>1 DEF Connect, BeginAttempt, Begun
  <2>3. TablesTypeOK' /\ ShellTypeOK' /\ DiscTypeOK'
    BY <1>a, <2>2 DEF ShellTypeOK, DiscTypeOK
  <2>a. conn[c] \in [pc : ConnPcs, id : Ids \cup {Nobody}, gen : Nat,
                     tty : BOOLEAN, kind : Kinds \cup {Nobody}]
    BY <1>a DEF ConnTypeOK
  <2> DEFINE r == [conn[c] EXCEPT !.pc = "connecting", !.id = call[t].id,
                     !.gen = attempts[call[t].id] + 1, !.tty = FALSE]
  <2>b. /\ r \in [pc : ConnPcs, id : Ids, gen : Nat, tty : BOOLEAN,
                  kind : Kinds \cup {Nobody}]
        /\ r.pc = "connecting"
    BY <2>a, <2>1, <2>2 DEF ConnPcs
  <2>c. conn' = [conn EXCEPT ![c] = r]
    BY <2>2
  <2> HIDE DEF r
  <2>4. ConnTypeOK'
    BY <1>a, <2>b, <2>c DEF ConnTypeOK
  <2>5. /\ \A b \in Connects \ {c} : conn'[b] = conn[b]
        /\ conn'[c].pc = "connecting" /\ link'[c] = link[c]
    BY <1>a, <2>2 DEF ConnTypeOK
  <2>6. SessionsDone' /\ PromptIsAwaited' /\ LinksIdle' /\ ChannelsOwned'
    BY <1>a, <2>1, <2>2, <2>5
  <2>7. QED
    BY <1>c, <2>3, <2>4, <2>6
<1>18. QED
  BY <1>1, <1>2, <1>3, <1>4, <1>5, <1>6, <1>7, <1>8, <1>9, <1>10, <1>11,
     <1>12, <1>13, <1>14, <1>15, <1>16, <1>17, ExecCases
-----------------------------------------------------------------------------
(* What a step of command t does to it: its new record is sound, the lock    *)
(* follows its way through ssh_exec_core, and a session that is up is hung   *)
(* up only when nobody has its lock.                                         *)
LockFollows(t) ==
  \/ /\ lock' = lock
     /\ call'[t].pc \in Locked <=> call[t].pc \in Locked
     /\ call[t].pc \in Locked => call'[t].session = call[t].session
  \/ /\ lock[call[t].session] = Nobody
     /\ lock' = [lock EXCEPT ![call[t].session] = t]
     /\ call[t].pc = "queued" /\ call'[t].pc \in Locked
     /\ call'[t].session = call[t].session
  \/ /\ call[t].pc \in Locked /\ call'[t].pc \notin Locked
     /\ lock' = [lock EXCEPT ![call[t].session] = Nobody]
HangsFree ==
  \A c \in Connects : link[c] = "up" /\ link'[c] = "dead" => lock[c] = Nobody
Moved(t) ==
  /\ call' \in [Calls -> CallType]
  /\ \A u \in Calls \ {t} : call'[u] = call[u]
  /\ Sound(call[t])'
  /\ DoneStays /\ HangsFree
  /\ LockFollows(t)

(* Every step of ensure_ssh_session, ssh_exec_core and exec_with_reconnect   *)
(* is such a move, and so is being asked.                                    *)
LEMMA Moves ==
  ASSUME Tables, CallsOK, NEW t \in Calls,
         \/ ExecStep(t)
         \/ \E id \in Ids : CallAsked(t, id)
  PROVE  Moved(t)
<1>a. /\ call \in [Calls -> CallType] /\ call[t] \in CallType
      /\ Sound(call[t])
  BY DEF CallsOK
<1>b. /\ sessions \in [Ids -> Connects \cup {Nobody}]
      /\ conn \in [Connects -> [pc : ConnPcs, id : Ids \cup {Nobody}, gen : Nat,
                            tty : BOOLEAN, kind : Kinds \cup {Nobody}]]
      /\ link \in [Connects -> {"none", "up", "lost", "dead"}]
      /\ \A id \in Ids, c \in Connects :
           sessions[id] = c => conn[c].pc = "done"
  BY DEF Tables, TypeOK, TablesTypeOK, TablesOwned, SessionsDone
<1>c. call[t].id \in Ids =>
        /\ Held(t) \in Connects \cup {Nobody}
        /\ Held(t) # Nobody => conn[Held(t)].pc = "done"
  BY <1>b DEF Held
<1> USE TablesAssumption
<1> USE DEF CallAt, CallType, Sound, InSession, Locked, CallPcs, Moved,
            DoneStays, HangsFree, LockFollows, tableVars, connectVars
<1>1. CASE Look(t)
  <2>1. /\ call[t].pc = "looking" /\ call[t].id \in Ids
        /\ call' = [call EXCEPT
             ![t].pc = IF Held(t) = Nobody THEN "needing" ELSE "checking",
             ![t].session = Held(t)]
        /\ UNCHANGED <<lock, link, conn>>
    BY <1>1, <1>a DEF Look
  <2>2. QED
    BY <2>1, <1>a, <1>c
<1>2. CASE CheckAlive(t)
  <2>1. call[t].pc = "checking" /\ UNCHANGED <<lock, link, conn>>
    BY <1>2 DEF CheckAlive
  <2>2. CASE call' = [call EXCEPT ![t].pc = "dropping"]
    BY <2>1, <2>2, <1>a
  <2>3. CASE call' = [call EXCEPT ![t].pc = "finding"]
    BY <2>1, <2>3, <1>a
  <2>4. QED
    BY <2>2, <2>3, <1>2 DEF CheckAlive, CallTo
<1>3. CASE TakeOut(t)
  <2>1. /\ call[t].pc = "dropping" /\ call[t].id \in Ids
        /\ call' = [call EXCEPT
             ![t].pc = IF Held(t) = Nobody THEN "invalidating" ELSE "hanging",
             ![t].session = Held(t)]
        /\ UNCHANGED <<lock, link, conn>>
    BY <1>3, <1>a DEF TakeOut
  <2>2. QED
    BY <2>1, <1>a, <1>c
<1>4. CASE HangDropped(t)
  <2>1. /\ call[t].pc = "hanging" /\ call[t].session \in Connects
        /\ lock[call[t].session] = Nobody
        /\ link' = [link EXCEPT ![call[t].session] = "dead"]
        /\ call' = [call EXCEPT ![t].pc = "invalidating"]
        /\ UNCHANGED <<lock, conn>>
    BY <1>4, <1>a DEF HangDropped, SessionFree, Hang, CallTo
  <2>2. HangsFree
    BY <2>1, <1>b
  <2>3. QED
    BY <2>1, <2>2, <1>a
<1>5. CASE Invalidate(t)
  <2>1. /\ call[t].pc = "invalidating"
        /\ call' = [call EXCEPT ![t].pc = "forgetting"]
        /\ UNCHANGED <<lock, link, conn>>
    BY <1>5 DEF Invalidate, CallTo
  <2>2. QED
    BY <2>1, <1>a
<1>6. CASE ForgetDropped(t)
  <2>1. /\ call[t].pc = "forgetting"
        /\ call' = [call EXCEPT
             ![t].pc = IF call[t].lost THEN "looking" ELSE "needing",
             ![t].lost = FALSE]
        /\ UNCHANGED <<lock, link, conn>>
    BY <1>6 DEF ForgetDropped
  <2>2. QED
    BY <2>1, <1>a
<1>7. CASE NoConfig(t)
  <2>1. /\ call[t].pc = "needing" /\ call' = Through(t)
        /\ UNCHANGED <<lock, link, conn>>
    BY <1>7 DEF NoConfig
  <2>2. QED
    BY <2>1, <1>a DEF Through, NewCall
<1>8. CASE Connected(t)
  <2>1. call[t].pc = "connecting" /\ UNCHANGED <<lock, link, conn>>
    BY <1>8 DEF Connected
  <2>2. CASE call' = Through(t)
    BY <2>1, <2>2, <1>a DEF Through, NewCall
  <2>3. CASE call' = [call EXCEPT ![t].pc = "finding", ![t].connect = Nobody]
    BY <2>1, <2>3, <1>a
  <2>4. QED
    BY <2>2, <2>3, <1>8 DEF Connected
<1>9. CASE Find(t)
  <2>1. /\ call[t].pc = "finding" /\ call[t].id \in Ids
        /\ UNCHANGED <<lock, link, conn>>
    BY <1>9, <1>a DEF Find
  <2>2. CASE Held(t) = Nobody
    <3>1. call' = Through(t)
      BY <2>2, <1>9 DEF Find
    <3>2. QED
      BY <2>1, <3>1, <1>a DEF Through, NewCall
  <2>3. CASE Held(t) # Nobody
    BY <2>1, <2>3, <1>9, <1>a, <1>c DEF Find
  <2>4. QED
    BY <2>2, <2>3
<1>10. CASE Acquire(t)
  <2>1. /\ call[t].pc = "queued"
        /\ lock[call[t].session] = Nobody
        /\ lock' = [lock EXCEPT ![call[t].session] = t]
        /\ call' = [call EXCEPT ![t].pc = "ready"]
        /\ UNCHANGED <<link, conn>>
    BY <1>10 DEF Acquire, SessionFree, CallTo
  <2>2. QED
    BY <2>1, <1>a
<1>11. CASE OpenFails(t)
  <2>1. /\ call[t].pc = "ready"
        /\ call' = [call EXCEPT ![t].pc = "finishing", ![t].lost = TRUE]
        /\ UNCHANGED <<lock, link, conn>>
    BY <1>11 DEF OpenFails
  <2>2. QED
    BY <2>1, <1>a
<1>12. CASE Refused(t)
  <2>1. /\ call[t].pc = "ready"
        /\ call' = [call EXCEPT ![t].pc = "finishing"]
        /\ UNCHANGED <<lock, link, conn>>
    BY <1>12 DEF Refused, CallTo
  <2>2. QED
    BY <2>1, <1>a
<1>13. CASE Start(t)
  <2>1. call[t].pc = "ready" /\ UNCHANGED <<lock, link, conn>>
    BY <1>13 DEF Start
  <2>2. CASE call' = [call EXCEPT ![t].pc = "opening"]
    BY <2>1, <2>2, <1>a
  <2>3. CASE call' = [call EXCEPT ![t].pc = "collecting", ![t].pty = FALSE,
                                  ![t].starts = @ + 1]
    <3> DEFINE r == [call[t] EXCEPT !.pc = "collecting", !.pty = FALSE,
                       !.starts = call[t].starts + 1]
    <3>1. call' = [call EXCEPT ![t] = r]
      BY <2>3, <1>a
    <3>2. call[t].starts + 1 \in Nat
      BY <1>a
    <3>3. r \in CallType /\ r.pc = "collecting"
      BY <3>2, <1>a
    <3>4. r.id = call[t].id /\ r.session = call[t].session
      BY <1>a
    <3> HIDE DEF r
    <3>5. call' \in [Calls -> CallType] /\ call'[t] = r
      BY <3>1, <3>3, <1>a
    <3>6. \A u \in Calls \ {t} : call'[u] = call[u]
      BY <3>1, <1>a
    <3>7. QED
      BY <2>1, <3>3, <3>4, <3>5, <3>6, <1>a
  <2>4. QED
    BY <2>2, <2>3, <1>13 DEF Start
<1>14. CASE OpenPty(t)
  <2>1. /\ call[t].pc = "opening"
        /\ call' = [call EXCEPT ![t].pc = "selecting"]
        /\ UNCHANGED <<lock, link, conn>>
    BY <1>14 DEF OpenPty, CallTo
  <2>2. QED
    BY <2>1, <1>a
<1>15. CASE Selected(t)
  <2>1. call[t].pc = "selected" /\ UNCHANGED <<lock, link, conn>>
    BY <1>15 DEF Selected
  <2>2. CASE call' = [call EXCEPT ![t].pc = "cleaning"]
    BY <2>1, <2>2, <1>a
  <2>3. CASE call' = [call EXCEPT ![t].pc = "collecting", ![t].pty = TRUE,
                                  ![t].run = FALSE, ![t].starts = @ + 1]
    <3> DEFINE r == [call[t] EXCEPT !.pc = "collecting", !.pty = TRUE, !.run = FALSE,
                       !.starts = call[t].starts + 1]
    <3>1. call' = [call EXCEPT ![t] = r]
      BY <2>3, <1>a
    <3>2. call[t].starts + 1 \in Nat
      BY <1>a
    <3>3. r \in CallType /\ r.pc = "collecting"
      BY <3>2, <1>a
    <3>4. r.id = call[t].id /\ r.session = call[t].session
      BY <1>a
    <3> HIDE DEF r
    <3>5. call' \in [Calls -> CallType] /\ call'[t] = r
      BY <3>1, <3>3, <1>a
    <3>6. \A u \in Calls \ {t} : call'[u] = call[u]
      BY <3>1, <1>a
    <3>7. QED
      BY <2>1, <3>3, <3>4, <3>5, <3>6, <1>a
  <2>4. QED
    BY <2>2, <2>3, <1>15 DEF Selected
<1>16. CASE SelectEnds(t)
  <2>1. /\ call[t].pc = "selecting"
        /\ call' = [call EXCEPT ![t].pc = "cleaning"]
        /\ UNCHANGED <<lock, link, conn>>
    BY <1>16 DEF SelectEnds, CallTo
  <2>2. QED
    BY <2>1, <1>a
<1>17. CASE KeptWasStale(t)
  <2>1. /\ call[t].pc = "collecting"
        /\ call' = [call EXCEPT ![t].pc = "ready"]
        /\ UNCHANGED <<lock, link, conn>>
    BY <1>17 DEF KeptWasStale
  <2>2. QED
    BY <2>1, <1>a
<1>18. CASE CleanPty(t)
  <2>1. /\ call[t].pc = "cleaning"
        /\ call' = [call EXCEPT ![t].pc = "finishing"]
        /\ UNCHANGED <<lock, link, conn>>
    BY <1>18 DEF CleanPty, CallTo
  <2>2. QED
    BY <2>1, <1>a
<1>19. CASE Finish(t)
  <2>1. /\ call[t].pc = "finishing"
        /\ lock' = [lock EXCEPT ![call[t].session] = Nobody]
        /\ UNCHANGED <<link, conn>>
    BY <1>19 DEF Finish, Released
  <2>2. CASE call' = Through(t)
    BY <2>1, <2>2, <1>a DEF Through, NewCall
  <2>3. CASE /\ call[t].lost
             /\ call' = [call EXCEPT ![t].pc = "dropping",
                                    ![t].failed = call[t].session]
    BY <2>1, <2>3, <1>a
  <2>4. QED
    BY <2>2, <2>3, <1>19 DEF Finish
<1>20. ASSUME NEW c \in Connects, Connect(t, c) PROVE Moved(t)
  <2>1. /\ call[t].pc = "needing" /\ call[t].id \in Ids
        /\ call' = [call EXCEPT ![t].pc = "connecting", ![t].connect = c]
        /\ UNCHANGED <<lock, link>>
    BY <1>20, <1>a DEF Connect
  <2>2. DoneStays
    BY <1>20, <1>b DEF Connect, Begun, At
  <2>3. QED
    BY <2>1, <2>2, <1>20, <1>a
<1>21. ASSUME NEW outcome \in Outcomes, Collected(t, outcome) PROVE Moved(t)
  <2> DEFINE quotes == outcome.quotes
             pc == IF call[t].pty THEN "cleaning" ELSE "finishing"
             r == [call[t] EXCEPT !.pc = pc, !.lost = quotes]
  <2>1. call[t].pc = "collecting" /\ UNCHANGED <<lock, link, conn>>
    BY <1>21 DEF Collected
  <2>2. quotes \in BOOLEAN
    <3>1. \/ outcome = [how |-> "ok", quotes |-> FALSE]
          \/ outcome \in [how : {"failed", "cut"}, quotes : BOOLEAN]
      BY <1>21 DEF Outcomes
    <3>2. CASE outcome = [how |-> "ok", quotes |-> FALSE]
      <4>1. outcome.quotes = FALSE
        BY <3>2
      <4>2. QED
        BY <4>1
    <3>3. CASE outcome \in [how : {"failed", "cut"}, quotes : BOOLEAN]
      BY <3>3
    <3>4. QED
      BY <3>1, <3>2, <3>3
  <2>3. call' = [call EXCEPT ![t] = r]
    BY <1>21, <1>a DEF Collected, Ran
  <2>4. pc \in {"cleaning", "finishing"}
    OBVIOUS
  <2> HIDE DEF quotes, pc
  <2>5. r \in CallType /\ r.pc = pc
    BY <2>2, <2>4, <1>a
  <2>6. r.id = call[t].id /\ r.session = call[t].session
    BY <1>a
  <2> HIDE DEF r
  <2>7. call' \in [Calls -> CallType] /\ call'[t] = r
    BY <2>3, <2>5, <1>a
  <2>8. \A u \in Calls \ {t} : call'[u] = call[u]
    BY <2>3, <1>a
  <2>9. QED
    BY <2>1, <2>4, <2>5, <2>6, <2>7, <2>8, <1>a
<1>22. ASSUME NEW id \in Ids, CallAsked(t, id) PROVE Moved(t)
  <2>1. /\ call[t].pc = "unasked"
        /\ call' = [call EXCEPT ![t].pc = "looking", ![t].id = id]
        /\ UNCHANGED <<lock, link, conn>>
    BY <1>22 DEF CallAsked
  <2>2. QED
    BY <2>1, <1>22, <1>a
<1>23. QED
  BY <1>1, <1>2, <1>3, <1>4, <1>5, <1>6, <1>7, <1>8, <1>9, <1>10, <1>11, <1>12, <1>13, <1>14, <1>15, <1>16, <1>17, <1>18, <1>19, <1>20, <1>21, <1>22 DEF ExecStep

(* A move keeps what the commands have in hand and who holds the locks.      *)
Inv == Tables /\ CallsOK /\ LockOK

LEMMA MoveKeeps ==
  ASSUME Inv, NEW t \in Calls, Moved(t)
  PROVE  CallsOK' /\ LockOK'
<1>1. ASSUME NEW u \in Calls
      PROVE  Sound(call[u])'
  <2>1. CASE u = t
    BY <2>1 DEF Moved
  <2>2. CASE u # t
    <3>1. call'[u] = call[u] /\ call[u] \in CallType /\ Sound(call[u])
      BY <2>2 DEF Inv, CallsOK, Moved
    <3>2. QED
      BY <3>1 DEF Sound, Moved, DoneStays
  <2>3. QED
    BY <2>1, <2>2
<1>2. CallsOK'
  BY <1>1 DEF CallsOK, Moved
<1>3. LockOK'
  <2>1. /\ lock \in [Connects -> Calls \cup {Nobody}] /\ Nobody \notin Calls
        /\ call[t].pc \in Locked \cup {"queued"} =>
             call[t].session \in Connects
        /\ \A u \in Calls \ {t} : call'[u] = call[u]
    BY TablesAssumption DEF Inv, Tables, TypeOK, TablesTypeOK, CallsOK, Sound,
       InSession, Moved
  <2>2. "queued" \notin Locked
    BY DEF Locked
  <2>3. QED
    BY <2>1, <2>2 DEF Inv, LockOK, Moved, LockFollows
<1>4. QED
  BY <1>2, <1>3

(* The other steps move no command, except that the user's choice of a       *)
(* machine is handed to the one that waits for it.                           *)
LEMMA OthersKeep ==
  ASSUME Inv, DoneStays, UNCHANGED <<call, lock>>
  PROVE  CallsOK' /\ LockOK'
BY DEF Inv, CallsOK, Sound, DoneStays, LockOK

LEMMA SelectMoves ==
  ASSUME Inv, NEW id \in Ids, NEW run \in BOOLEAN, Select(id, run)
  PROVE  \E t \in Calls : Moved(t)
<1> DEFINE t == pending["bastion"][id]
<1>1. t \in Calls /\ UNCHANGED <<lock, link, conn>>
  BY DEF Select, connectVars
<1>2. call[t] \in CallType /\ Sound(call[t]) /\ call \in [Calls -> CallType]
  BY <1>1 DEF Inv, CallsOK
<1>3. \/ call' = call
      \/ /\ call[t].pc = "selecting"
         /\ call' = [call EXCEPT ![t].pc = "selected", ![t].run = run]
  BY DEF Select, CallAt
<1>4. ASSUME NEW u \in Calls, u = t
      PROVE  Moved(u)
  <2>1. /\ call \in [Calls -> CallType] /\ call[u] \in CallType
        /\ Sound(call[u]) /\ UNCHANGED <<lock, link, conn>>
        /\ \/ call' = call
           \/ /\ call[u].pc = "selecting"
              /\ call' = [call EXCEPT ![u].pc = "selected", ![u].run = run]
    BY <1>1, <1>2, <1>3, <1>4
  <2>2. link' = link /\ lock' = lock /\ conn' = conn
    BY <2>1
  <2>3. DoneStays /\ HangsFree
    BY <2>2 DEF DoneStays, HangsFree
  <2>4. CASE call' = call
    BY <2>1, <2>2, <2>3, <2>4 DEF Moved, Sound, LockFollows
  <2>5. CASE /\ call[u].pc = "selecting"
             /\ call' = [call EXCEPT ![u].pc = "selected", ![u].run = run]
    BY <2>1, <2>2, <2>3, <2>5 DEF Moved, CallType, Sound, InSession, Locked,
       CallPcs, LockFollows
  <2>6. QED
    BY <2>1, <2>4, <2>5
<1>5. QED
  BY <1>1, <1>4

(* A session that is not yet registered, or no more, is nobody's to lock;    *)
(* a disconnect waits for the lock before it hangs up.                       *)
LEMMA ConnectsHangFree ==
  ASSUME Inv, Next
  PROVE  HangsFree
<1> SUFFICES ASSUME NEW c \in Connects, link[c] = "up", link'[c] = "dead"
             PROVE  lock[c] = Nobody
  BY DEF HangsFree
<1>1. /\ link \in [Connects -> {"none", "up", "lost", "dead"}]
      /\ lock \in [Connects -> Calls \cup {Nobody}]
      /\ conn[c].pc # "done" => \A t \in Calls : lock[c] # t
  BY DEF Inv, Tables, TypeOK, TablesTypeOK, CallsOK, LockOK, Sound, InSession
<1>2. ASSUME conn[c].pc \in {"connecting", "opening", "retracting"}
      PROVE  lock[c] = Nobody
  BY <1>1, <1>2
<1>3. ASSUME NEW b \in Connects, ConnectStep(b)
      PROVE  lock[c] = Nobody
  BY <1>1, <1>2, <1>3 DEF ConnectStep, LimitedStep, ConnectBegin, ConnectFails,
     ConnectSucceeds, AskDropped, AskExpires, AskWithdrawn, CutOff,
     CutWithdrawn, ShellRefused, ShellOpens, Store, Retract, Hang, At, tableVars
<1>4. ASSUME NEW d \in Disconnects, DisconnectStep(d)
      PROVE  lock[c] = Nobody
  BY <1>1, <1>4 DEF DisconnectStep, ReadGuard, RemoveSession, HangUp,
     InvalidateIfCurrent, ClearChannel, Forget, Hang, tableVars
<1>5. ~Environment /\ ~UNCHANGED vars
  BY <1>1 DEF Environment, ConnectAsked, Ask, Answer, ShellEnds,
     DisconnectAsked, tableVars, vars
<1>6. QED
  BY <1>3, <1>4, <1>5 DEF Next, AtRest

LEMMA ExecSteps ==
  ASSUME Inv, [ExecNext]_allVars
  PROVE  Inv' /\ HangsFree
<1>1. CASE UNCHANGED allVars
  <2>1. UNCHANGED vars /\ UNCHANGED <<call, lock, link, conn>>
    BY <1>1 DEF allVars, vars, tableVars, connectVars, execVars
  <2>2. Tables' /\ DoneStays /\ HangsFree
    BY <2>1, TypeStep, OwnersStep DEF Inv, Tables, DoneStays, HangsFree
  <2>3. QED
    BY <2>1, <2>2, OthersKeep DEF Inv
<1>2. CASE ExecNext
  <2>a. Tables'
    BY <1>2, TablesStep DEF Inv
  <2>b. ASSUME NEW t \in Calls, Moved(t)
        PROVE  Inv' /\ HangsFree
    BY <2>a, <2>b, MoveKeeps DEF Inv, Moved
  <2>c. ASSUME UNCHANGED <<call, lock>>, DoneStays, HangsFree
        PROVE  Inv' /\ HangsFree
    BY <2>a, <2>c, OthersKeep DEF Inv
  <2>1. CASE Next /\ UNCHANGED execVars
    <3>1. DoneStays /\ HangsFree
      BY <2>1, DoneStaysHere, ConnectsHangFree DEF Inv, Tables
    <3>2. UNCHANGED call
      BY <2>1 DEF execVars
    <3>3. UNCHANGED lock
      BY <2>1 DEF Next, ConnectStep, LimitedStep, DisconnectStep, Environment, AtRest,
         ConnectBegin, ConnectFails, ConnectSucceeds, AskDropped, AskExpires,
         AskWithdrawn, CutOff, CutWithdrawn, ShellRefused, ShellOpens, Store,
         Retract, ReadGuard,
         RemoveSession, HangUp, InvalidateIfCurrent, ClearChannel, Forget,
         ConnectAsked, Ask, Answer, ShellEnds, DisconnectAsked, tableVars, vars
    <3>4. QED
      BY <3>1, <3>2, <3>3, <2>c
  <2>2. ASSUME NEW t \in Calls, ExecStep(t)
        PROVE  Inv' /\ HangsFree
    BY <2>2, <2>b, Moves DEF Inv
  <2>3. ASSUME NEW t \in Calls, NEW id \in Ids, CallAsked(t, id)
        PROVE  Inv' /\ HangsFree
    BY <2>3, <2>b, Moves DEF Inv
  <2>4. ASSUME NEW id \in Ids, NEW run \in BOOLEAN, Select(id, run)
        PROVE  Inv' /\ HangsFree
    BY <2>4, <2>b, SelectMoves
  <2>5. ASSUME NEW t \in Calls, Abort(t)
        PROVE  Inv' /\ HangsFree
    BY <2>5, <2>c DEF Abort, tableVars, connectVars, DoneStays, HangsFree
  <2>6. ASSUME NEW l \in Listers, ListStart(l) \/ ListStep(l)
        PROVE  Inv' /\ HangsFree
    BY <2>6, <2>c DEF ListStart, ListStep, ListHold, ListVisit, ListEnd,
       tableVars, connectVars, DoneStays, HangsFree
  <2>7. ASSUME NEW c \in Connects, NetworkLoss(c) \/ Heartbeat(c)
        PROVE  Inv' /\ HangsFree
    <3>1. link \in [Connects -> {"none", "up", "lost", "dead"}]
      BY DEF Inv, Tables, TypeOK, TablesTypeOK
    <3>2. UNCHANGED <<call, lock, conn>>
      BY <2>7 DEF NetworkLoss, Heartbeat, connectVars, execVars
    <3>3. HangsFree
      BY <2>7, <3>1 DEF NetworkLoss, Heartbeat, Hang, HangsFree
    <3>4. QED
      BY <3>2, <3>3, <2>c DEF DoneStays
  <2>8. ConnectingStep => Next /\ UNCHANGED execVars
    BY DEF ConnectingStep, Next
  <2>9. QED
    BY <1>2, <2>1, <2>2, <2>3, <2>4, <2>5, <2>6, <2>7, <2>8, ConnectAssumption
       DEF ExecNext, ExecEnvironment
<1>3. QED
  BY <1>1, <1>2

LEMMA ExecStarts == ExecInit => Inv
<1> SUFFICES ASSUME ExecInit PROVE Inv
  OBVIOUS
<1>1. TypeOK /\ TablesOwned
  BY TablesAssumption DEF ExecInit, Init, TypeOK, TablesInit, TablesTypeOK,
     NewConn, NewDisc, ConnPcs, DiscPcs, TablesOwned, SessionsDone,
     PromptIsAwaited, ChannelsOwned, LinksIdle
<1>2. CallsOK
  BY DEF ExecInit, CallsOK, CallType, CallPcs, NewCall, Sound, InSession,
     Locked
<1>3. LockOK
  BY TablesAssumption DEF ExecInit, Init, TablesInit, LockOK, NewCall, Locked
<1>4. QED
  BY <1>1, <1>2, <1>3 DEF Inv, Tables

(* While commands, connects and disconnects interleave: the tables are in    *)
(* order, a command uses only sessions whose connect succeeded, and a        *)
(* session's lock is held by the one command that uses it.                   *)
THEOREM InvCorrect == ExecSpec => []Inv
<1>1. ExecInit => Inv
  BY ExecStarts
<1>2. Inv /\ [ExecNext]_allVars => Inv'
  BY ExecSteps
<1>3. QED
  BY <1>1, <1>2, PTL DEF ExecSpec

(* The sidecar never hangs up under a running command (drop_session,         *)
(* ssh_disconnect).                                                          *)
THEOREM HangCorrect == ExecSpec => HangSparesRunning
<1>1. Inv /\ [ExecNext]_allVars =>
        [\A c \in Connects :
           link[c] = "up" /\ link'[c] = "dead" => lock[c] = Nobody]_allVars
  BY ExecSteps DEF HangsFree
<1>2. QED
  BY <1>1, InvCorrect, PTL DEF ExecSpec, HangSparesRunning

-----------------------------------------------------------------------------
(* Where the second try of a command goes.                                   *)

(* Out of the session table; a session that has left it does not come back.  *)
Gone(c) == \A id \in Ids : sessions[id] # c

(* The session a command has found, and the one its first try failed on, are *)
(* of its own id; the latter is out of the table as soon as drop_session has *)
(* been there, and is none of the sessions the second try uses.              *)
Retry(t) ==
  /\ call[t].pc = "unasked" => ~Retrying(t)
  /\ call[t].pc \in InSession => conn[call[t].session].id = call[t].id
  /\ Retrying(t) =>
       /\ call[t].failed \in Connects
       /\ conn[call[t].failed].pc = "done"
       /\ conn[call[t].failed].id = call[t].id
       /\ call[t].pc # "dropping" => Gone(call[t].failed)
       /\ call[t].pc \in Locked \cup {"queued"} =>
            call[t].session # call[t].failed

(* What no step of anybody does: give a connect that is done another id, or  *)
(* register it again.                                                        *)
DoneKept ==
  \A c \in Connects : conn[c].pc = "done" =>
    /\ conn'[c].pc = "done" /\ conn'[c].id = conn[c].id
    /\ Gone(c) => Gone(c)'

LEMMA DoneKeptHere == ASSUME Tables, Next PROVE DoneKept
<1>a. /\ sessions \in [Ids -> Connects \cup {Nobody}] /\ ConnTypeOK
  BY TypeParts DEF Tables, TablesTypeOK
<1> USE TablesAssumption
<1> USE DEF At, ConnTypeOK, DoneKept, Gone
<1>1. ASSUME NEW c \in Connects, ConnectStep(c) PROVE DoneKept
  <2>1. CASE Store(c)
    BY <2>1, <1>a DEF Store, GoTo
  <2>2. CASE UNCHANGED sessions
    BY <2>2, <1>1, <1>a DEF ConnectStep, LimitedStep, ConnectBegin, Begun,
       ConnectFails, ConnectSucceeds, AskDropped, AskExpires, AskWithdrawn,
       CutOff, CutWithdrawn, ShellRefused, ShellOpens, Store, Retract, GoTo
  <2>3. QED
    BY <2>1, <2>2, <1>1 DEF ConnectStep, LimitedStep, ConnectBegin,
       ConnectFails, ConnectSucceeds, AskDropped, AskExpires, AskWithdrawn,
       CutOff, CutWithdrawn, ShellRefused, ShellOpens, Retract, tableVars
<1>2. ASSUME NEW d \in Disconnects, DisconnectStep(d) PROVE DoneKept
  <2>1. conn' = conn
    BY <1>2 DEF DisconnectStep, ReadGuard, RemoveSession, HangUp,
       InvalidateIfCurrent, ClearChannel, Forget
  <2>2. \A id \in Ids : sessions'[id] \in {sessions[id], Nobody}
    BY <1>2, <1>a DEF DisconnectStep, ReadGuard, RemoveSession, HangUp,
       InvalidateIfCurrent, ClearChannel, Forget, tableVars
  <2>3. QED
    BY <2>1, <2>2
<1>3. CASE Environment
  BY <1>3, <1>a DEF Environment, ConnectAsked, Ask, Answer, Asking, ShellEnds,
     DisconnectAsked, tableVars
<1>4. CASE UNCHANGED vars
  BY <1>4 DEF vars, connectVars, tableVars
<1>5. QED
  BY <1>1, <1>2, <1>3, <1>4 DEF Next, AtRest

(* Commands that do not move keep where their second tries go.               *)
LEMMA RetryAlone ==
  ASSUME Inv, NEW t \in Calls, Retry(t), DoneKept, call'[t] = call[t]
  PROVE  Retry(t)'
BY DEF Inv, CallsOK, Sound, Retry, Retrying, DoneKept, InSession, Gone

(* A command's own steps: drop_session takes the failed session out before   *)
(* the next look into the table, and what is found there is of the own id.   *)
LEMMA RetryMoves ==
  ASSUME Inv, NEW t \in Calls, Retry(t),
         ExecStep(t) \/ \E id \in Ids : CallAsked(t, id)
  PROVE  Retry(t)' /\ DoneKept
<1>a. /\ call \in [Calls -> CallType] /\ call[t] \in CallType /\ Sound(call[t])
      /\ sessions \in [Ids -> Connects \cup {Nobody}]
      /\ \A id \in Ids, c \in Connects :
           sessions[id] = c => conn[c].pc = "done" /\ conn[c].id = id
  BY DEF Inv, CallsOK, Tables, TypeOK, TablesTypeOK, TablesOwned, SessionsDone
<1>b. call[t].id \in Ids => /\ Held(t) \in Connects \cup {Nobody}
                            /\ Held(t) # Nobody => conn[Held(t)].id = call[t].id
  BY <1>a DEF Held
<1> USE TablesAssumption
<1> USE DEF CallAt, CallTo, CallType, Sound, InSession, Locked, CallPcs,
            Retry, Retrying, Gone, tableVars, connectVars
<1>c. UNCHANGED <<sessions, conn>> => DoneKept
  BY DEF DoneKept
<1>d. ASSUME UNCHANGED <<sessions, conn>>, call' = Through(t)
      PROVE  Retry(t)' /\ DoneKept
  <2>1. call'[t].failed = Nobody /\ call'[t].pc = "done"
    BY <1>a, <1>d DEF Through, NewCall
  <2>2. QED
    BY <2>1, <1>c, <1>d
<1>1. CASE Look(t)
  <2>1. /\ call[t].pc = "looking" /\ call[t].id \in Ids
        /\ call' = [call EXCEPT
             ![t].pc = IF Held(t) = Nobody THEN "needing" ELSE "checking",
             ![t].session = Held(t)]
        /\ UNCHANGED <<sessions, conn>>
    BY <1>1, <1>a DEF Look
  <2>2. QED
    BY <2>1, <1>a, <1>b, <1>c
<1>2. CASE CheckAlive(t)
  <2>1. /\ call[t].pc = "checking" /\ UNCHANGED <<sessions, conn>>
        /\ \/ call' = [call EXCEPT ![t].pc = "dropping"]
           \/ call' = [call EXCEPT ![t].pc = "finding"]
    BY <1>2 DEF CheckAlive
  <2>2. QED
    BY <2>1, <1>a, <1>c
<1>3. CASE TakeOut(t)
  <2>1. /\ call[t].pc = "dropping" /\ call[t].id \in Ids
        /\ call' = [call EXCEPT
             ![t].pc = IF Held(t) = Nobody THEN "invalidating" ELSE "hanging",
             ![t].session = Held(t)]
        /\ sessions' = [sessions EXCEPT ![call[t].id] = Nobody]
        /\ conn' = conn
    BY <1>3, <1>a DEF TakeOut
  <2>2. \A id \in Ids : sessions'[id] =
          IF id = call[t].id THEN Nobody ELSE sessions[id]
    BY <2>1, <1>a
  <2>3. DoneKept
    BY <2>1, <2>2, <1>a DEF DoneKept
  <2>4. Retrying(t) => Gone(call[t].failed)'
    BY <2>1, <2>2, <1>a
  <2>5. /\ call'[t].id = call[t].id /\ call'[t].failed = call[t].failed
        /\ call'[t].session = Held(t)
        /\ call'[t].pc \in {"invalidating", "hanging"}
        /\ call'[t].pc = "hanging" => Held(t) # Nobody
    BY <2>1, <1>a
  <2>6. QED
    BY <2>1, <2>3, <2>4, <2>5, <1>b
<1>4. CASE Find(t)
  <2>1. /\ call[t].pc = "finding" /\ call[t].id \in Ids
        /\ UNCHANGED <<sessions, conn>>
        /\ \/ call' = Through(t)
           \/ /\ Held(t) # Nobody
              /\ call' = [call EXCEPT ![t].pc = "queued", ![t].session = Held(t)]
    BY <1>4, <1>a DEF Find
  <2>2. Retrying(t) => Held(t) # call[t].failed
    BY <2>1, <1>a DEF Held
  <2>3. QED
    BY <2>1, <2>2, <1>a, <1>b, <1>c, <1>d
<1>5. CASE Connected(t)
  <2>1. /\ call[t].pc = "connecting" /\ UNCHANGED <<sessions, conn>>
        /\ \/ call' = Through(t)
           \/ call' = [call EXCEPT ![t].pc = "finding", ![t].connect = Nobody]
    BY <1>5 DEF Connected
  <2>2. QED
    BY <2>1, <1>a, <1>c, <1>d
<1>6. ASSUME NEW c \in Connects, Connect(t, c)
      PROVE  Retry(t)' /\ DoneKept
  <2>1. /\ call[t].pc = "needing" /\ conn[c].pc = "unasked"
        /\ call' = [call EXCEPT ![t].pc = "connecting", ![t].connect = c]
        /\ UNCHANGED sessions
        /\ \A b \in Connects \ {c} : conn'[b] = conn[b]
    BY <1>6 DEF Connect, At, Begun
  <2>2. QED
    BY <2>1, <1>a DEF DoneKept
<1>7. CASE Finish(t)
  <2>1. /\ call[t].pc = "finishing" /\ UNCHANGED <<sessions, conn>>
        /\ \/ call' = Through(t)
           \/ call' = [call EXCEPT ![t].pc = "dropping",
                                   ![t].failed = call[t].session]
    BY <1>7 DEF Finish, Released
  <2>2. QED
    BY <2>1, <1>a, <1>c, <1>d
<1>8. CASE NoConfig(t)
  BY <1>8, <1>d DEF NoConfig
<1>9. ASSUME NEW id \in Ids, CallAsked(t, id)
      PROVE  Retry(t)' /\ DoneKept
  <2>1. /\ call[t].pc = "unasked" /\ UNCHANGED <<sessions, conn>>
        /\ call' = [call EXCEPT ![t].pc = "looking", ![t].id = id]
    BY <1>9 DEF CallAsked
  <2>2. call[t].failed = Nobody
    BY <2>1
  <2>3. call'[t].failed = Nobody /\ call'[t].pc = "looking"
    BY <2>1, <2>2, <1>a
  <2>4. QED
    BY <2>1, <2>3, <1>c
<1>10. CASE \/ HangDropped(t) \/ Invalidate(t) \/ ForgetDropped(t)
            \/ Acquire(t) \/ OpenFails(t) \/ Refused(t) \/ Start(t)
            \/ OpenPty(t) \/ Selected(t) \/ SelectEnds(t) \/ KeptWasStale(t)
            \/ CleanPty(t) \/ \E outcome \in Outcomes : Collected(t, outcome)
  <2>1. /\ UNCHANGED <<sessions, conn>>
        /\ \/ HangDropped(t) \/ Invalidate(t) \/ ForgetDropped(t)
           \/ Acquire(t) \/ OpenFails(t) \/ Refused(t) \/ Start(t)
           \/ OpenPty(t) \/ Selected(t) \/ SelectEnds(t) \/ KeptWasStale(t)
           \/ CleanPty(t) \/ \E outcome \in Outcomes : Collected(t, outcome)
    BY <1>10 DEF HangDropped, Invalidate, ForgetDropped, Acquire, OpenFails,
       Refused, Start, OpenPty, Selected, SelectEnds, KeptWasStale, CleanPty,
       Collected
  <2>2. /\ call'[t].id = call[t].id /\ call'[t].session = call[t].session
        /\ call'[t].failed = call[t].failed
        /\ call[t].pc # "dropping" /\ call'[t].pc # "unasked"
        /\ call'[t].pc \in Locked \cup {"queued"} =>
             call[t].pc \in Locked \cup {"queued"}
        /\ call'[t].pc \in InSession => call[t].pc \in InSession
    BY <2>1, <1>a DEF HangDropped, Invalidate, ForgetDropped, Acquire,
       OpenFails, Refused, Start, OpenPty, Selected, SelectEnds, KeptWasStale,
       CleanPty, Collected, Ran
  <2>3. QED
    BY <2>1, <2>2, <1>c
<1>11. QED
  BY <1>1, <1>2, <1>3, <1>4, <1>5, <1>6, <1>7, <1>8, <1>9, <1>10 DEF ExecStep

Retries == \A t \in Calls : Retry(t)

LEMMA RetrySteps ==
  ASSUME Inv, Retries, [ExecNext]_allVars
  PROVE  Retries'
<1> SUFFICES ASSUME NEW u \in Calls PROVE Retry(u)'
  BY DEF Retries
<1>a. Retry(u) /\ call \in [Calls -> CallType]
  BY DEF Retries, Inv, CallsOK
<1>b. UNCHANGED <<sessions, conn>> => DoneKept
  BY DEF DoneKept, Gone
<1>1. CASE Next /\ UNCHANGED execVars
  <2>1. DoneKept /\ call' = call
    BY <1>1, DoneKeptHere DEF Inv, execVars
  <2>2. QED
    BY <2>1, <1>a, RetryAlone
<1>2. ASSUME NEW t \in Calls, ExecStep(t) \/ \E id \in Ids : CallAsked(t, id)
      PROVE  Retry(u)'
  <2>1. CASE u = t
    BY <2>1, <1>2, <1>a, RetryMoves
  <2>2. CASE u # t
    <3>1. DoneKept
      BY <1>2, RetryMoves DEF Retries
    <3>2. Moved(t)
      BY <1>2, Moves DEF Inv
    <3>3. call'[u] = call[u]
      BY <2>2, <3>2 DEF Moved
    <3>4. QED
      BY <3>1, <3>3, <1>a, RetryAlone
  <2>3. QED
    BY <2>1, <2>2
<1>3. ASSUME NEW id \in Ids, NEW run \in BOOLEAN, Select(id, run)
      PROVE  Retry(u)'
  <2>1. UNCHANGED <<sessions, conn>>
    BY <1>3 DEF Select, connectVars
  <2>2. \/ call'[u] = call[u]
        \/ /\ call[u].pc = "selecting" /\ call'[u].pc = "selected"
           /\ call'[u].id = call[u].id /\ call'[u].session = call[u].session
           /\ call'[u].failed = call[u].failed
    BY <1>3, <1>a DEF Select, CallAt, CallType
  <2>3. QED
    BY <2>1, <2>2, <1>a DEF Retry, Retrying, InSession, Locked, Gone
<1>4. CASE UNCHANGED <<call, sessions, conn>>
  BY <1>4, <1>a, <1>b, RetryAlone
<1>5. ASSUME NEW t \in Calls, Abort(t)
      PROVE  Retry(u)'
  BY <1>5, <1>4 DEF Abort, tableVars, connectVars
<1>6. ASSUME NEW l \in Listers, ListStart(l) \/ ListStep(l)
      PROVE  Retry(u)'
  BY <1>6, <1>4 DEF ListStart, ListStep, ListHold, ListVisit, ListEnd,
     tableVars, connectVars
<1>7. ASSUME NEW c \in Connects, NetworkLoss(c) \/ Heartbeat(c)
      PROVE  Retry(u)'
  BY <1>7, <1>4 DEF NetworkLoss, Heartbeat, connectVars, execVars
<1>8. CASE UNCHANGED allVars
  BY <1>8, <1>4 DEF allVars, tableVars, connectVars, execVars
<1>9. ConnectingStep => Next /\ UNCHANGED execVars
  BY DEF ConnectingStep, Next
<1>10. QED
  BY <1>1, <1>2, <1>3, <1>5, <1>6, <1>7, <1>8, <1>9, ConnectAssumption
     DEF ExecNext, ExecEnvironment

(* The second try of a command never goes to the session that failed the     *)
(* first, whatever other calls connect and drop (exec_with_reconnect).       *)
THEOREM RetryCorrect == ExecSpec => []RetryLeavesFailed
<1>1. ExecInit => Retries
  BY DEF ExecInit, NewCall, Retries, Retry, Retrying, InSession, Locked
<1>2. Inv /\ Retries /\ [ExecNext]_allVars => Retries'
  BY RetrySteps
<1>3. Retries => RetryLeavesFailed
  BY DEF Retries, Retry, RetryLeavesFailed
<1>4. QED
  BY <1>1, <1>2, <1>3, InvCorrect, PTL DEF ExecSpec

-----------------------------------------------------------------------------
(* What a bastion's pty has in the tables: its write channel until it is     *)
(* cleaned up, its prompt until the choice has been taken, both under the id *)
(* of its command.  A command that runs in a kept shell has neither.         *)
ChannelOf(t, id) == channels[id] # NoEntry /\ channels[id].tx = t
OnPty(r) ==
  \/ r.pc \in {"selecting", "selected", "cleaning"}
  \/ r.pc = "collecting" /\ r.pty
PtyHolds ==
  \A t \in Calls, id \in Ids :
    /\ ChannelOf(t, id) => call[t].id = id /\ OnPty(call[t])
    /\ pending["bastion"][id] = t =>
         call[t].id = id /\ call[t].pc \in {"selecting", "selected"}

(* Whatever a step does to the tables, a command keeps no more in them than  *)
(* it had.                                                                   *)
NoMore ==
  \A id \in Ids :
    /\ \A t \in Calls : ChannelOf(t, id)' => ChannelOf(t, id)
    /\ pending'["bastion"][id] \in {pending["bastion"][id], Nobody}

(* A connect enters its own write channel and its own prompts, and otherwise *)
(* connects, shells and disconnects only take out.                           *)
LEMMA ConnectsAddNothing ==
  ASSUME Tables, Next
  PROVE  NoMore
<1>a. /\ channels \in [Ids -> Entries \cup {NoEntry}]
      /\ pending \in [Kinds -> [Ids -> Connects \cup Calls \cup {Nobody}]]
      /\ \A c \in Connects : /\ conn[c].id \in Ids \cup {Nobody}
                             /\ conn[c].kind \in Kinds \cup {Nobody}
  BY DEF Tables, TypeOK, TablesTypeOK
<1>b. "bastion" \in Kinds /\ "hostkey" # "bastion" /\ "kb" # "bastion"
  BY DEF Kinds
<1> USE TablesAssumption
<1> USE DEF NoMore, ChannelOf
<1>c. UNCHANGED <<channels, pending>> => NoMore
  OBVIOUS
<1>d. ASSUME NEW i, NEW g, RemoveChannelForAttempt(i, g), UNCHANGED pending
      PROVE  NoMore
  BY <1>a, <1>d DEF RemoveChannelForAttempt
<1>e. ASSUME NEW i, NEW kind, RemovePrompt(kind, i), UNCHANGED channels
      PROVE  NoMore
  BY <1>a, <1>b, <1>e DEF RemovePrompt
<1>1. ASSUME NEW c \in Connects, ConnectStep(c)
      PROVE  NoMore
  <2>1. CASE ShellOpens(c)
    BY <2>1, <1>a DEF ShellOpens, InsertChannel
  <2>2. CASE Retract(c)
    BY <2>2, <1>d DEF Retract
  <2>3. CASE AskWithdrawn(c)
    BY <2>3, <1>e DEF AskWithdrawn
  <2>4. CASE CutWithdrawn(c)
    BY <2>4, <1>e DEF CutWithdrawn
  <2>5. QED
    BY <2>1, <2>2, <2>3, <2>4, <1>1, <1>c DEF ConnectStep, LimitedStep, ConnectBegin,
       ConnectFails, ConnectSucceeds, AskDropped, AskExpires, CutOff,
       ShellRefused, Store, tableVars
<1>2. ASSUME NEW d \in Disconnects, DisconnectStep(d)
      PROVE  NoMore
  <2>1. CASE ClearChannel(d)
    BY <2>1, <1>d DEF ClearChannel
  <2>2. CASE Forget(d)
    BY <2>2, <1>a, <1>b DEF Forget, ForgetPrompts
  <2>3. QED
    BY <2>1, <2>2, <1>2, <1>c DEF DisconnectStep, ReadGuard, RemoveSession,
       HangUp, InvalidateIfCurrent, tableVars
<1>3. CASE Environment
  <2>1. ASSUME NEW c \in Connects, NEW kind \in UserPrompts, Ask(c, kind)
        PROVE  NoMore
    BY <2>1, <1>a, <1>b, ConnectAssumption DEF Ask, RegisterPrompt
  <2>2. ASSUME NEW id \in Ids, NEW kind \in UserPrompts, NEW yes \in BOOLEAN,
               Answer(id, kind, yes)
        PROVE  NoMore
    BY <2>2, <1>e DEF Answer
  <2>3. ASSUME NEW c \in Connects, ShellEnds(c)
        PROVE  NoMore
    BY <2>3, <1>d DEF ShellEnds
  <2>4. QED
    BY <1>3, <2>1, <2>2, <2>3, <1>c DEF Environment, ConnectAsked,
       DisconnectAsked, tableVars
<1>4. CASE UNCHANGED vars
  BY <1>4, <1>c DEF vars, tableVars
<1>5. QED
  BY <1>1, <1>2, <1>3, <1>4 DEF Next, AtRest

(* A command that gives nothing up keeps its place; one that leaves the pty  *)
(* or the choice has taken its entry out.                                    *)
Keeps(t) ==
  /\ call'[t].id = call[t].id \/ call[t].pc = "unasked"
  /\ OnPty(call[t]) /\ ~OnPty(call'[t]) =>
       \A id \in Ids : id = call[t].id => ~ChannelOf(t, id)'
  /\ /\ call[t].pc \in {"selecting", "selected"}
     /\ call'[t].pc \notin {"selecting", "selected"}
     => \A id \in Ids : id = call[t].id => pending'["bastion"][id] # t

LEMMA PtyKept ==
  ASSUME PtyHolds, NoMore, Nobody \notin Calls, NEW t \in Calls, Keeps(t),
         \A u \in Calls \ {t} : call'[u] = call[u]
  PROVE  PtyHolds'
<1> SUFFICES ASSUME NEW u \in Calls, NEW id \in Ids
             PROVE  /\ ChannelOf(u, id)' => /\ call'[u].id = id
                                            /\ OnPty(call'[u])
                    /\ pending'["bastion"][id] = u =>
                         /\ call'[u].id = id
                         /\ call'[u].pc \in {"selecting", "selected"}
  BY DEF PtyHolds, OnPty
<1>1. CASE u # t
  BY <1>1 DEF PtyHolds, NoMore
<1>2. CASE u = t
  BY <1>2 DEF PtyHolds, NoMore, Keeps, OnPty
<1>3. QED
  BY <1>1, <1>2

LEMMA PtyAlone ==
  ASSUME PtyHolds, NoMore, Nobody \notin Calls, UNCHANGED call
  PROVE  PtyHolds'
BY DEF PtyHolds, NoMore, OnPty

(* A command's own steps: only OpenPty adds to the tables, and every way out *)
(* of the pty or of the choice takes out what was added.                     *)
LEMMA PtySteps ==
  ASSUME Inv, PtyHolds, NEW t \in Calls,
         ExecStep(t) \/ \E id \in Ids : CallAsked(t, id)
  PROVE  PtyHolds'
<1>a. /\ call \in [Calls -> CallType] /\ call[t] \in CallType
      /\ call[t].pc # "unasked" => call[t].id \in Ids
      /\ channels \in [Ids -> Entries \cup {NoEntry}]
      /\ pending \in [Kinds -> [Ids -> Connects \cup Calls \cup {Nobody}]]
  BY DEF Inv, Tables, TypeOK, TablesTypeOK, CallsOK, Sound
<1>b. /\ call' \in [Calls -> CallType]
      /\ \A u \in Calls \ {t} : call'[u] = call[u]
  BY Moves DEF Inv, Moved
<1>c. Nobody \notin Calls /\ "bastion" \in Kinds
  BY TablesAssumption DEF Kinds
<1>d. ASSUME NoMore, Keeps(t)
      PROVE  PtyHolds'
  BY <1>b, <1>c, <1>d, PtyKept
<1>e. ASSUME UNCHANGED <<channels, pending>>, Keeps(t)
      PROVE  PtyHolds'
  BY <1>d, <1>e DEF NoMore, ChannelOf
<1> USE DEF CallAt, Keeps, OnPty, CallType, tableVars
<1>1. CASE Look(t)
  BY <1>1, <1>a, <1>e DEF Look, TableFree, Held
<1>2. CASE CheckAlive(t)
  BY <1>2, <1>a, <1>e DEF CheckAlive, SessionFree, CallTo
<1>3. CASE TakeOut(t)
  BY <1>3, <1>a, <1>e DEF TakeOut, TableFree, Held
<1>4. CASE HangDropped(t)
  BY <1>4, <1>a, <1>e DEF HangDropped, SessionFree, Hang, CallTo
<1>5. CASE Invalidate(t)
  BY <1>5, <1>a, <1>e DEF Invalidate, CallTo
<1>6. CASE NoConfig(t)
  BY <1>6, <1>a, <1>e DEF NoConfig, Through, NewCall
<1>7. CASE Connected(t)
  BY <1>7, <1>a, <1>e DEF Connected, Through, NewCall
<1>8. CASE Find(t)
  BY <1>8, <1>a, <1>e DEF Find, TableFree, Held, Through, NewCall
<1>9. CASE Acquire(t)
  BY <1>9, <1>a, <1>e DEF Acquire, SessionFree, CallTo
<1>10. CASE OpenFails(t)
  BY <1>10, <1>a, <1>e DEF OpenFails
<1>11. CASE Refused(t)
  BY <1>11, <1>a, <1>e DEF Refused, CallTo
<1>12. CASE Start(t)
  BY <1>12, <1>a, <1>e DEF Start, NeedsPty
<1>13. CASE KeptWasStale(t)
  BY <1>13, <1>a, <1>e DEF KeptWasStale
<1>14. CASE Finish(t)
  BY <1>14, <1>a, <1>e DEF Finish, Released, Retrying, Through, NewCall
<1>15. ASSUME NEW c \in Connects, Connect(t, c) PROVE PtyHolds'
  BY <1>15, <1>a, <1>e DEF Connect
<1>16. ASSUME NEW outcome \in Outcomes, Collected(t, outcome) PROVE PtyHolds'
  <2>1. /\ call[t].pc = "collecting" /\ UNCHANGED <<channels, pending>>
        /\ call'[t].id = call[t].id
        /\ call'[t].pc = IF call[t].pty THEN "cleaning" ELSE "finishing"
    BY <1>16, <1>a DEF Collected, Ran
  <2>2. QED
    BY <2>1, <1>e
<1>17. ASSUME NEW id \in Ids, CallAsked(t, id) PROVE PtyHolds'
  BY <1>17, <1>a, <1>e DEF CallAsked
<1>18. CASE ForgetDropped(t)
  <2>1. NoMore
    BY <1>18, <1>a, <1>c DEF ForgetDropped, ForgetPrompts, NoMore, ChannelOf
  <2>2. QED
    BY <1>18, <2>1, <1>a, <1>d DEF ForgetDropped
<1>19. CASE Selected(t) \/ SelectEnds(t)
  <2>1. /\ call[t].pc \in {"selecting", "selected"}
        /\ pending' = [pending EXCEPT !["bastion"][call[t].id] = Nobody]
        /\ channels' = channels
    BY <1>19 DEF Selected, SelectEnds, RemovePrompt
  <2>2. /\ call'[t].id = call[t].id
        /\ \/ call'[t].pc = "cleaning"
           \/ call'[t].pc = "collecting" /\ call'[t].pty
    BY <1>19, <1>a DEF Selected, SelectEnds, CallTo
  <2>3. NoMore
    BY <2>1, <1>a, <1>c DEF NoMore, ChannelOf
  <2>4. QED
    BY <2>1, <2>2, <2>3, <1>a, <1>c, <1>d
<1>20. CASE CleanPty(t)
  <2>1. /\ call[t].pc = "cleaning" /\ call'[t].id = call[t].id
        /\ channels' = [channels EXCEPT ![call[t].id] = NoEntry]
        /\ pending' = pending
    BY <1>20, <1>a DEF CleanPty, CallTo
  <2>2. NoMore
    BY <2>1, <1>a DEF NoMore, ChannelOf
  <2>3. \A id \in Ids : id = call[t].id => ~ChannelOf(t, id)'
    BY <2>1, <1>a DEF ChannelOf
  <2>4. QED
    BY <2>1, <2>2, <2>3, <1>d
<1>21. CASE OpenPty(t)
  <2>1. /\ call'[t].id = call[t].id /\ call'[t].pc = "selecting"
        /\ call[t].id \in Ids /\ call[t].pc = "opening"
        /\ channels' = [channels EXCEPT ![call[t].id] =
                          [gen |-> 0, tx |-> t]]
        /\ pending' = [pending EXCEPT !["bastion"][call[t].id] = t]
    BY <1>21, <1>a DEF OpenPty, CallTo, InsertChannel, RegisterPrompt
  <2>2. ASSUME NEW u \in Calls, NEW id \in Ids
        PROVE  /\ ChannelOf(u, id)' =>
                    ChannelOf(u, id) \/ (u = t /\ id = call[t].id)
               /\ pending'["bastion"][id] = u =>
                    \/ pending["bastion"][id] = u
                    \/ u = t /\ id = call[t].id
    BY <2>1, <1>a, <1>c DEF ChannelOf
  <2>3. ASSUME NEW u \in Calls, NEW id \in Ids
        PROVE  /\ ChannelOf(u, id)' => call'[u].id = id /\ OnPty(call'[u])
               /\ pending'["bastion"][id] = u =>
                    /\ call'[u].id = id
                    /\ call'[u].pc \in {"selecting", "selected"}
    BY <2>1, <2>2, <1>b DEF PtyHolds
  <2>4. QED
    BY <2>3 DEF PtyHolds
<1>22. QED
  BY <1>1, <1>2, <1>3, <1>4, <1>5, <1>6, <1>7, <1>8, <1>9, <1>10, <1>11, <1>12,
     <1>13, <1>14, <1>15, <1>16, <1>17, <1>18, <1>19, <1>20, <1>21 DEF ExecStep

(* A call that has left the bastion's pty, by whichever of its many ways,    *)
(* leaves neither its write channel nor its prompt behind                    *)
(* (exec_via_bastion_pty).                                                   *)
THEOREM PtyCorrect == ExecSpec => []PtyLeavesNothing
<1>1. ExecInit => PtyHolds
  <2> SUFFICES ASSUME ExecInit PROVE PtyHolds
    OBVIOUS
  <2>1. "bastion" \in Kinds
    BY DEF Kinds
  <2>2. QED
    BY <2>1, TablesAssumption
       DEF ExecInit, Init, TablesInit, PtyHolds, ChannelOf
<1>2. Inv /\ PtyHolds /\ [ExecNext]_allVars => PtyHolds'
  <2> SUFFICES ASSUME Inv, PtyHolds, [ExecNext]_allVars PROVE PtyHolds'
    OBVIOUS
  <2>a. Nobody \notin Calls
    BY TablesAssumption
  <2>b. ASSUME UNCHANGED <<channels, pending, call>>
        PROVE  PtyHolds'
    BY <2>b DEF PtyHolds, ChannelOf, OnPty
  <2>1. CASE Next /\ UNCHANGED execVars
    BY <2>1, <2>a, ConnectsAddNothing, PtyAlone DEF Inv, execVars
  <2>2. ASSUME NEW t \in Calls, ExecStep(t)
        PROVE  PtyHolds'
    BY <2>2, PtySteps
  <2>3. ASSUME NEW t \in Calls, NEW id \in Ids, CallAsked(t, id)
        PROVE  PtyHolds'
    BY <2>3, PtySteps
  <2>4. ASSUME NEW id \in Ids, NEW run \in BOOLEAN, Select(id, run)
        PROVE  PtyHolds'
    <3> DEFINE t == pending["bastion"][id]
    <3>1. /\ t \in Calls /\ channels' = channels
          /\ pending' = [pending EXCEPT !["bastion"][id] = Nobody]
      BY <2>4 DEF Select, RemovePrompt
    <3>2. /\ pending \in [Kinds -> [Ids -> Connects \cup Calls \cup {Nobody}]]
          /\ call \in [Calls -> CallType] /\ "bastion" \in Kinds
          /\ call[t] \in CallType
      BY <3>1 DEF Inv, Tables, TypeOK, TablesTypeOK, CallsOK, Kinds
    <3>3. NoMore
      BY <3>1, <3>2 DEF NoMore, ChannelOf
    <3>4. ASSUME NEW u \in Calls, u = t
          PROVE  PtyHolds'
      <4>1. \/ call' = call
            \/ /\ call[u].pc = "selecting"
               /\ call' = [call EXCEPT ![u].pc = "selected", ![u].run = run]
        BY <2>4, <3>4 DEF Select, CallAt
      <4>2. /\ \A v \in Calls \ {u} : call'[v] = call[v]
            /\ call'[u].id = call[u].id
            /\ \/ call'[u].pc = call[u].pc /\ call'[u].pty = call[u].pty
               \/ call[u].pc = "selecting" /\ call'[u].pc = "selected"
        BY <4>1, <3>2, <3>4 DEF CallType
      <4>3. Keeps(u)
        BY <4>2 DEF Keeps, OnPty
      <4>4. QED
        BY <3>3, <4>2, <4>3, <2>a, PtyKept
    <3>5. QED
      BY <3>1, <3>4
  <2>5. ASSUME NEW t \in Calls, Abort(t)
        PROVE  PtyHolds'
    BY <2>5, <2>b DEF Abort, tableVars
  <2>6. ASSUME NEW l \in Listers, ListStart(l) \/ ListStep(l)
        PROVE  PtyHolds'
    BY <2>6, <2>b DEF ListStart, ListStep, ListHold, ListVisit, ListEnd,
       tableVars
  <2>7. ASSUME NEW c \in Connects, NetworkLoss(c) \/ Heartbeat(c)
        PROVE  PtyHolds'
    BY <2>7, <2>b DEF NetworkLoss, Heartbeat, execVars
  <2>8. CASE UNCHANGED allVars
    BY <2>8, <2>b DEF allVars, tableVars, execVars
  <2>9. ConnectingStep => Next /\ UNCHANGED execVars
    BY DEF ConnectingStep, Next
  <2>10. QED
    BY <2>1, <2>2, <2>3, <2>4, <2>5, <2>6, <2>7, <2>8, <2>9, ConnectAssumption
       DEF ExecNext, ExecEnvironment
<1>3. PtyHolds => PtyLeavesNothing
  <2> SUFFICES ASSUME PtyHolds, NEW t \in Calls, NEW id \in Ids
               PROVE  /\ channels[id] = [gen |-> 0, tx |-> t] => OnPty(call[t])
                      /\ pending["bastion"][id] = t =>
                           call[t].pc \in {"selecting", "selected"}
    BY DEF PtyLeavesNothing, OnPty
  <2>1. channels[id] = [gen |-> 0, tx |-> t] => ChannelOf(t, id)
    BY TablesAssumption DEF ChannelOf
  <2>2. QED
    BY <2>1 DEF PtyHolds
<1>4. QED
  BY <1>1, <1>2, <1>3, InvCorrect, PTL DEF ExecSpec
=============================================================================
