------------------------------- MODULE SshExec -------------------------------
(* The assistant's commands over the shared ssh sessions: ensure_ssh_session *)
(* and exec_with_reconnect (tools.rs), drop_session and ssh_exec_core        *)
(* (manager.rs), the bastion's pty (session.rs exec_via_bastion_pty), the    *)
(* abort of a running command, and ui.ssh_get_sessions, whose listing locks  *)
(* the channel table while it waits for each session.                        *)
EXTENDS SshConnect

CONSTANT Bastions        \* ids whose sessions make the user pick a machine

ASSUME ExecAssumption == Bastions \subseteq Ids

VARIABLES call,          \* call[t]: the tool call t
          aborts,        \* calls with an abort handle in exec_aborts
          kept,          \* kept[c]: session c keeps its bastion shell
          listing        \* listing[l]: the ssh_get_sessions call l

execVars == <<call, aborts, kept, listing>>
allVars == <<tableVars, connectVars, execVars>>

CallPcs == {"unasked", "looking", "checking", "dropping", "hanging",
            "invalidating", "forgetting", "needing", "connecting", "finding",
            "queued", "ready", "opening", "selecting", "selected",
            "collecting", "cleaning", "finishing", "done"}
Locked == {"ready", "opening", "selecting", "selected", "collecting",
           "cleaning", "finishing"}
NewCall == [pc |-> "unasked", id |-> Nobody, session |-> Nobody,
            connect |-> Nobody, failed |-> Nobody, starts |-> 0,
            pty |-> FALSE, run |-> FALSE, lost |-> FALSE]

ExecTypeOK ==
  /\ TypeOK
  /\ call \in [Calls ->
       [pc : CallPcs, id : Ids \cup {Nobody},
        session : Connects \cup {Nobody}, connect : Connects \cup {Nobody},
        failed : Connects \cup {Nobody}, starts : 0 .. 4, pty : BOOLEAN,
        run : BOOLEAN, lost : BOOLEAN]]
  /\ aborts \subseteq Calls
  /\ kept \in [Connects -> BOOLEAN]
  /\ listing \in [Listers -> [pc : {"idle", "waiting", "visiting"},
                              todo : SUBSET Connects,
                              at : Connects \cup {Nobody}]]
  /\ \A c \in Connects, t \in Calls :
       lock[c] = t <=> call[t].pc \in Locked /\ call[t].session = c

ExecInit ==
  /\ Init
  /\ call = [t \in Calls |-> NewCall]
  /\ aborts = {}
  /\ kept = [c \in Connects |-> FALSE]
  /\ listing = [l \in Listers |-> [pc |-> "idle", todo |-> {}, at |-> Nobody]]

-----------------------------------------------------------------------------
CallAt(t, pc) == call[t].pc = pc
CallTo(t, pc) == call' = [call EXCEPT ![t].pc = pc]
Held(t) == sessions[call[t].id]
SessionFree(t) == lock[call[t].session] = Nobody
Retrying(t) == call[t].failed # Nobody
Through(t) == [call EXCEPT ![t] =   \* the call returns
  [NewCall EXCEPT !.pc = "done", !.id = call[t].id, !.starts = call[t].starts]]

CallAsked(t, id) ==
  /\ CallAt(t, "unasked")
  /\ call' = [call EXCEPT ![t].pc = "looking", ![t].id = id]
  /\ UNCHANGED <<tableVars, connectVars, aborts, kept, listing>>

(* ensure_ssh_session: is there a session ...                               *)
Look(t) ==
  /\ CallAt(t, "looking")
  /\ TableFree
  /\ call' = [call EXCEPT
       ![t].pc = IF Held(t) = Nobody THEN "needing" ELSE "checking",
       ![t].session = Held(t)]
  /\ UNCHANGED <<tableVars, connectVars, aborts, kept, listing>>

(* ... and, under its lock, is it alive?  The flag follows the network by   *)
(* up to a heartbeat.                                                       *)
CheckAlive(t) ==
  /\ CallAt(t, "checking")
  /\ SessionFree(t)
  /\ CallTo(t, IF link[call[t].session] = "dead" THEN "dropping" ELSE "finding")
  /\ UNCHANGED <<tableVars, connectVars, aborts, kept, listing>>

(* drop_session takes out the session of that id, and keeps the session     *)
(* table locked (the guard lives as long as the if-let) while it waits for  *)
(* that session's lock ...                                                  *)
TakeOut(t) ==
  /\ CallAt(t, "dropping")
  /\ TableFree
  /\ sessions' = [sessions EXCEPT ![call[t].id] = Nobody]
  /\ call' = [call EXCEPT
       ![t].pc = IF Held(t) = Nobody THEN "invalidating" ELSE "hanging",
       ![t].session = Held(t)]
  /\ tableHeld' = IF Held(t) = Nobody THEN Nobody ELSE t
  /\ UNCHANGED <<attempts, channels, pending, link, lock, channelsHeld>>
  /\ UNCHANGED <<connectVars, aborts, kept, listing>>

(* Mutant: the session is hung up without its lock.                         *)
HangDroppedNow(t) ==
  /\ CallAt(t, "hanging")
  /\ Hang(call[t].session)
  /\ tableHeld' = Nobody
  /\ CallTo(t, "invalidating")
  /\ UNCHANGED <<attempts, sessions, channels, pending, lock, channelsHeld>>
  /\ UNCHANGED <<connectVars, aborts, kept, listing>>

HangDropped(t) ==
  /\ CallAt(t, "hanging")
  /\ SessionFree(t)
  /\ Hang(call[t].session)
  /\ tableHeld' = Nobody
  /\ CallTo(t, "invalidating")
  /\ UNCHANGED <<attempts, sessions, channels, pending, lock, channelsHeld>>
  /\ UNCHANGED <<connectVars, aborts, kept, listing>>

(* ... then invalidates whatever attempt is current and its prompts.        *)
Invalidate(t) ==
  /\ CallAt(t, "invalidating")
  /\ BeginAttempt(call[t].id)
  /\ CallTo(t, "forgetting")
  /\ UNCHANGED <<sessions, channels, pending, link, lock>>
  /\ UNCHANGED <<tableHeld, channelsHeld, connectVars, aborts, kept, listing>>

(* A retry goes through ensure_ssh_session again; a drop from within it     *)
(* goes on to connect.                                                      *)
ForgetDropped(t) ==
  /\ CallAt(t, "forgetting")
  /\ ForgetPrompts(call[t].id)
  /\ call' = [call EXCEPT
       ![t].pc = IF call[t].lost THEN "looking" ELSE "needing",
       ![t].lost = FALSE]
  /\ UNCHANGED <<attempts, sessions, channels, link, lock>>
  /\ UNCHANGED <<tableHeld, channelsHeld, connectVars, aborts, kept, listing>>

(* connect_session with interactive = false, if the asset's configuration   *)
(* can be read.                                                             *)
Connect(t, c) ==
  /\ CallAt(t, "needing")
  /\ At(c, "unasked")
  /\ BeginAttempt(call[t].id)
  /\ Begun(c, call[t].id, FALSE)
  /\ call' = [call EXCEPT ![t].pc = "connecting", ![t].connect = c]
  /\ UNCHANGED <<sessions, channels, pending, link, lock, tableHeld>>
  /\ UNCHANGED <<channelsHeld, shell, disc, aborts, kept, listing>>

NoConfig(t) ==
  /\ CallAt(t, "needing")
  /\ call' = Through(t)
  /\ UNCHANGED <<tableVars, connectVars, aborts, kept, listing>>

Connected(t) ==
  /\ CallAt(t, "connecting")
  /\ ConnectEnded(call[t].connect)
  /\ call' = IF At(call[t].connect, "done")
             THEN [call EXCEPT ![t].pc = "finding", ![t].connect = Nobody]
             ELSE Through(t)
  /\ UNCHANGED <<tableVars, connectVars, aborts, kept, listing>>

-----------------------------------------------------------------------------
(* ssh_exec_core: the session is looked up by id ...                        *)
Find(t) ==
  /\ CallAt(t, "finding")
  /\ TableFree
  /\ call' = IF Held(t) = Nobody THEN Through(t)
             ELSE [call EXCEPT ![t].pc = "queued", ![t].session = Held(t)]
  /\ UNCHANGED <<tableVars, connectVars, aborts, kept, listing>>

(* ... locked, and only then is the abort handle registered.                *)
Acquire(t) ==
  /\ CallAt(t, "queued")
  /\ SessionFree(t)
  /\ lock' = [lock EXCEPT ![call[t].session] = t]
  /\ aborts' = aborts \cup {t}
  /\ CallTo(t, "ready")
  /\ UNCHANGED <<attempts, sessions, channels, pending, link>>
  /\ UNCHANGED <<tableHeld, channelsHeld, connectVars, kept, listing>>

Up(t) == link[call[t].session] = "up"
Bastion(t) == call[t].id \in Bastions
NeedsPty(t) == Bastion(t) /\ ~kept[call[t].session]
Ran(t, outcome) ==   \* the command was started and came to this end
  call' = [call EXCEPT
    ![t].pc = IF call[t].pty THEN "cleaning" ELSE "finishing",
    ![t].lost = outcome.quotes]

(* The channel cannot be opened, or disconnect has taken the handle: a      *)
(* connection-level failure.  A kept shell is idle too long or closed.      *)
OpenFails(t) ==
  /\ CallAt(t, "ready")
  /\ call' = [call EXCEPT ![t].pc = "finishing", ![t].lost = TRUE]
  /\ kept' = [kept EXCEPT ![call[t].session] = FALSE]
  /\ UNCHANGED <<tableVars, connectVars, aborts, listing>>

(* The channel is open, but the exec, pty or shell request is refused.      *)
Refused(t) ==
  /\ CallAt(t, "ready")
  /\ Up(t)
  /\ CallTo(t, "finishing")
  /\ kept' = [kept EXCEPT ![call[t].session] = FALSE]
  /\ UNCHANGED <<tableVars, connectVars, aborts, listing>>

(* The command starts on the remote, or the bastion's pty opens first.      *)
Start(t) ==
  /\ CallAt(t, "ready")
  /\ Up(t)
  /\ call' = IF NeedsPty(t)
             THEN [call EXCEPT ![t].pc = "opening"]
             ELSE [call EXCEPT ![t].pc = "collecting", ![t].pty = FALSE,
                               ![t].starts = @ + 1]
  /\ UNCHANGED <<tableVars, connectVars, aborts, kept, listing>>

(* The pty's write channel is entered with generation 0, over whichever was *)
(* there ...                                                                *)
OpenPty(t) ==
  /\ CallAt(t, "opening")
  /\ ChannelsFree
  /\ InsertChannel(call[t].id, 0, t)
  /\ RegisterPrompt("bastion", call[t].id, t)
  /\ CallTo(t, "selecting")
  /\ UNCHANGED <<attempts, sessions, link, lock, tableHeld, channelsHeld>>
  /\ UNCHANGED <<connectVars, aborts, kept, listing>>

(* ... and the user picks the machine: ui.ssh_bastion_response takes the    *)
(* sender out and says whether to run the command.                          *)
Select(id, run) ==
  LET t == pending["bastion"][id] IN
  /\ t \in Calls
  /\ RemovePrompt("bastion", id)
  /\ call' = IF CallAt(t, "selecting")
             THEN [call EXCEPT ![t].pc = "selected", ![t].run = run]
             ELSE call
  /\ UNCHANGED <<attempts, sessions, channels, link, lock, tableHeld>>
  /\ UNCHANGED <<channelsHeld, connectVars, aborts, kept, listing>>

(* The call removes the entry once more, by whomever it is then.            *)
Selected(t) ==
  /\ CallAt(t, "selected")
  /\ RemovePrompt("bastion", call[t].id)
  /\ call' = IF call[t].run
             THEN [call EXCEPT ![t].pc = "collecting", ![t].pty = TRUE,
                               ![t].run = FALSE, ![t].starts = @ + 1]
             ELSE [call EXCEPT ![t].pc = "cleaning"]
  /\ UNCHANGED <<attempts, sessions, channels, link, lock, tableHeld>>
  /\ UNCHANGED <<channelsHeld, connectVars, aborts, kept, listing>>

(* Mutant: giving up while the user selects returns at once.                *)
SelectLeaves(t) ==
  /\ CallAt(t, "selecting")
  /\ RemovePrompt("bastion", call[t].id)
  /\ CallTo(t, "finishing")
  /\ UNCHANGED <<attempts, sessions, channels, link, lock, tableHeld>>
  /\ UNCHANGED <<channelsHeld, connectVars, aborts, kept, listing>>

(* The 360 s are over, the pty or its write channel closed, the sender was  *)
(* dropped, or the call was aborted.                                        *)
SelectEnds(t) ==
  /\ CallAt(t, "selecting")
  /\ RemovePrompt("bastion", call[t].id)
  /\ CallTo(t, "cleaning")
  /\ UNCHANGED <<attempts, sessions, channels, link, lock, tableHeld>>
  /\ UNCHANGED <<channelsHeld, connectVars, aborts, kept, listing>>

(* "cut": a timeout, an abort or a closed channel.  quotes: the error text, *)
(* which has the command and its output in it, contains "SSH session not    *)
(* connected", and is_connection_level_failure takes it for one.            *)
Outcomes == {[how |-> "ok", quotes |-> FALSE]} \cup
            [how : {"failed", "cut"}, quotes : BOOLEAN]

(* The output has been collected.  The bastion's shell is kept after a      *)
(* success, and after a failing command the first time.                     *)
Collected(t, outcome) ==
  /\ CallAt(t, "collecting")
  /\ Ran(t, outcome)
  /\ kept' = [kept EXCEPT ![call[t].session] =
       \/ Bastion(t) /\ outcome.how = "ok"
       \/ call[t].pty /\ outcome.how = "failed"]
  /\ UNCHANGED <<tableVars, connectVars, aborts, listing>>

(* A kept shell closes under the command: the call opens a new one and runs *)
(* the command there.                                                       *)
KeptWasStale(t) ==
  /\ CallAt(t, "collecting")
  /\ Bastion(t) /\ ~call[t].pty
  /\ kept' = [kept EXCEPT ![call[t].session] = FALSE]
  /\ call' = [call EXCEPT ![t].pc = "ready"]
  /\ UNCHANGED <<tableVars, connectVars, aborts, listing>>

(* Every way out of the pty removes the write channel of the id, whoever's. *)
CleanPty(t) ==
  /\ CallAt(t, "cleaning")
  /\ ChannelsFree
  /\ channels' = [channels EXCEPT ![call[t].id] = NoEntry]
  /\ CallTo(t, "finishing")
  /\ UNCHANGED <<attempts, sessions, pending, link, lock, tableHeld>>
  /\ UNCHANGED <<channelsHeld, connectVars, aborts, kept, listing>>

Released(t) ==
  /\ lock' = [lock EXCEPT ![call[t].session] = Nobody]
  /\ aborts' = aborts \ {t}
  /\ UNCHANGED <<attempts, sessions, channels, pending, link>>
  /\ UNCHANGED <<tableHeld, channelsHeld, connectVars, kept, listing>>

(* Mutant: the retry goes ahead without dropping the session.               *)
FinishAgain(t) ==
  /\ CallAt(t, "finishing")
  /\ Released(t)
  /\ call' = IF call[t].lost /\ ~Retrying(t)
             THEN [call EXCEPT ![t].pc = "looking", ![t].lost = FALSE,
                               ![t].failed = call[t].session]
             ELSE Through(t)

(* ssh_exec_core returns: the abort handle and the lock are given back.     *)
(* exec_with_reconnect drops the session of a connection-level failure and  *)
(* tries once more.                                                         *)
Finish(t) ==
  /\ CallAt(t, "finishing")
  /\ Released(t)
  /\ call' = IF call[t].lost /\ ~Retrying(t)
             THEN [call EXCEPT ![t].pc = "dropping",
                               ![t].failed = call[t].session]
             ELSE Through(t)

(* ssh_exec_abort_core: the session must be in the table still, and the     *)
(* handle is taken out and fired.                                           *)
Abort(t) ==
  /\ TableFree
  /\ t \in aborts
  /\ Held(t) # Nobody
  /\ aborts' = aborts \ {t}
  /\ UNCHANGED <<tableVars, connectVars, call, kept, listing>>

-----------------------------------------------------------------------------
ListAt(l, pc) == listing[l].pc = pc
Following(todo) == IF todo = {} THEN {Nobody} ELSE todo

(* ui.ssh_get_sessions: the registered sessions ...                         *)
ListStart(l) ==
  /\ ListAt(l, "idle")
  /\ TableFree
  /\ listing' = [listing EXCEPT ![l].pc = "waiting",
       ![l].todo = {sessions[id] : id \in Ids} \ {Nobody}]
  /\ UNCHANGED <<tableVars, connectVars, call, aborts, kept>>

(* ... are visited one by one with the channel table locked all the while.  *)
ListHold(l) ==
  /\ ListAt(l, "waiting")
  /\ ChannelsFree
  /\ channelsHeld' = l
  /\ \E s \in Following(listing[l].todo) :
       listing' = [listing EXCEPT ![l].pc = "visiting", ![l].at = s]
  /\ UNCHANGED <<attempts, sessions, channels, pending, link, lock>>
  /\ UNCHANGED <<tableHeld, connectVars, call, aborts, kept>>

ListVisit(l) ==
  LET rest == listing[l].todo \ {listing[l].at} IN
  /\ ListAt(l, "visiting")
  /\ listing[l].at # Nobody
  /\ lock[listing[l].at] = Nobody
  /\ \E s \in Following(rest) :
       listing' = [listing EXCEPT ![l].todo = rest, ![l].at = s]
  /\ UNCHANGED <<tableVars, connectVars, call, aborts, kept>>

ListEnd(l) ==
  /\ ListAt(l, "visiting")
  /\ listing[l].at = Nobody
  /\ listing' = [listing EXCEPT ![l].pc = "idle"]
  /\ channelsHeld' = Nobody
  /\ UNCHANGED <<attempts, sessions, channels, pending, link, lock>>
  /\ UNCHANGED <<tableHeld, connectVars, call, aborts, kept>>

-----------------------------------------------------------------------------
(* The network goes; the heartbeat of the session notices within 15 s.      *)
NetworkLoss(c) ==
  /\ link[c] = "up"
  /\ link' = [link EXCEPT ![c] = "lost"]
  /\ UNCHANGED <<attempts, sessions, channels, pending, lock>>
  /\ UNCHANGED <<tableHeld, channelsHeld, connectVars, execVars>>

Heartbeat(c) ==
  /\ link[c] = "lost"
  /\ Hang(c)
  /\ UNCHANGED <<attempts, sessions, channels, pending, lock>>
  /\ UNCHANGED <<tableHeld, channelsHeld, connectVars, execVars>>

ExecStep(t) ==
  \/ Look(t) \/ CheckAlive(t) \/ TakeOut(t) \/ HangDropped(t)
  \/ Invalidate(t) \/ ForgetDropped(t) \/ NoConfig(t)
  \/ \E c \in Connects : Connect(t, c)
  \/ Connected(t) \/ Find(t) \/ Acquire(t)
  \/ OpenFails(t) \/ Refused(t) \/ Start(t) \/ OpenPty(t)
  \/ Selected(t) \/ SelectEnds(t)
  \/ \E outcome \in Outcomes : Collected(t, outcome)
  \/ KeptWasStale(t) \/ CleanPty(t) \/ Finish(t)

ListStep(l) == ListHold(l) \/ ListVisit(l) \/ ListEnd(l)

ConnectingStep ==
  /\ \/ \E c \in Connects : ConnectStep(c)
     \/ \E d \in Disconnects : DisconnectStep(d)
     \/ Environment
  /\ UNCHANGED execVars

ExecEnvironment ==
  \/ \E t \in Calls, id \in AiIds : CallAsked(t, id)
  \/ \E id \in AiIds, run \in BOOLEAN : Select(id, run)
  \/ \E t \in Calls : Abort(t)
  \/ \E l \in Listers : ListStart(l)
  \/ \E c \in Connects : NetworkLoss(c) \/ Heartbeat(c)

ExecNext ==
  \/ \E t \in Calls : ExecStep(t)
  \/ \E l \in Listers : ListStep(l)
  \/ ConnectingStep
  \/ ExecEnvironment

ExecSpec == ExecInit /\ [][ExecNext]_allVars
ExecFairSpec ==
  /\ ExecSpec
  /\ \A t \in Calls : WF_allVars(ExecStep(t))
  /\ \A l \in Listers : WF_allVars(ListStep(l))
  /\ \A c \in Connects : WF_allVars(LimitedStep(c) /\ UNCHANGED execVars)

-----------------------------------------------------------------------------
(* A call that has left the bastion's pty, by whichever of its many ways,   *)
(* leaves neither its write channel nor its prompt behind for input and     *)
(* answers to disappear into (exec_via_bastion_pty).                        *)
PtyLeavesNothing ==
  \A t \in Calls, id \in Ids :
    /\ channels[id] = [gen |-> 0, tx |-> t] =>
         call[t].pc \in {"selecting", "selected", "collecting", "cleaning"}
    /\ pending["bastion"][id] = t => call[t].pc \in {"selecting", "selected"}

(* The second try of a command never goes to the session its first try      *)
(* failed on, though other calls drop, connect and register sessions of     *)
(* that id meanwhile (exec_with_reconnect, drop_session).                   *)
RetryLeavesFailed ==
  \A t \in Calls :
    Retrying(t) /\ call[t].pc \in Locked \cup {"queued"} =>
      call[t].session # call[t].failed

(* The sidecar never hangs up under a running command: a session that is    *)
(* taken out of the table is disconnected when its command is through       *)
(* (drop_session, ssh_disconnect).                                          *)
HangSparesRunning ==
  [][\A c \in Connects :
       link[c] = "up" /\ link'[c] = "dead" => lock[c] = Nobody]_allVars

-----------------------------------------------------------------------------
(* What the sources say and the code does not do.                           *)

(* tools.rs, is_connection_level_failure and exec_with_reconnect: a command *)
(* is tried again only when it has surely not started on the remote.        *)
NeverRunTwice == \A t \in Calls : call[t].starts <= 1

(* manager.rs, ssh_exec_core: while a command holds the session's lock,     *)
(* ssh_exec_abort can still interrupt it, without a deadlock.               *)
Aborted(t) == call[t].pc \in Locked /\ t \notin aborts
AbortedExecEnds == \A t \in Calls : Aborted(t) ~> call[t].pc \notin Locked
=============================================================================
