------------------------------ MODULE SshConnect ------------------------------
(* Connecting and disconnecting an ssh session: connect_session (manager.rs) *)
(* with the prompts of auth.rs and session.rs, the shell's reader task, and  *)
(* ui.ssh_disconnect (methods/ui_ssh.rs).  Every request runs on a thread of *)
(* its own (main.rs), so a request that arrived first need not start first.  *)
EXTENDS SshTables

CONSTANTS UiConnects,    \* the connects asked for by ui.ssh_connect
          Disconnects,   \* ui.ssh_disconnect calls
          Tunnelled,     \* the connects to a target behind a jump host
          UserPrompts,   \* the kinds of prompt of a connect: hostkey, kb
          AiIds          \* ids with the dsh: prefix, not asked about keys

ASSUME ConnectAssumption ==
  /\ UiConnects \subseteq Connects
  /\ Tunnelled \subseteq Connects
  /\ AiIds \subseteq Ids
  /\ UserPrompts \subseteq {"hostkey", "kb"}

VARIABLES conn,    \* conn[c]: the connect_session call c
          shell,   \* shell[c]: the reader task of c's shell
          disc     \* disc[d]: the ui.ssh_disconnect call d

connectVars == <<conn, shell, disc>>
vars == <<tableVars, connectVars>>

\* "unasked" is a call nobody has made yet; "cut" is one that the time limit
\* of the whole connect failed while it was asking.
ConnPcs == {"unasked", "asked", "connecting", "asking", "expired", "cut",
            "opening", "storing", "retracting", "done", "failed"}
DiscPcs == {"unasked", "asked", "removing", "hanging", "invalidating",
            "clearing", "forgetting", "done"}

NewConn == [pc |-> "unasked", id |-> Nobody, gen |-> 0, tty |-> FALSE,
            kind |-> Nobody]
NewDisc == [pc |-> "unasked", id |-> Nobody, guard |-> 0, target |-> Nobody,
            before |-> {}]

TypeOK ==
  /\ TablesTypeOK
  /\ conn \in [Connects -> [pc : ConnPcs, id : Ids \cup {Nobody}, gen : Nat,
                            tty : BOOLEAN, kind : Kinds \cup {Nobody}]]
  /\ shell \in [Connects -> {"none", "open", "ended"}]
  /\ disc \in [Disconnects ->
                 [pc : DiscPcs, id : Ids \cup {Nobody}, guard : Nat,
                  target : Connects \cup {Nobody}, before : SUBSET Connects]]
  /\ \A c \in Connects :
       /\ conn[c].pc # "unasked" => conn[c].id \in Ids
       /\ conn[c].pc \in {"asking", "expired", "cut"} => conn[c].kind \in Kinds
  /\ \A d \in Disconnects :
       /\ disc[d].pc # "unasked" => disc[d].id \in Ids
       /\ disc[d].pc = "hanging" => disc[d].target \in Connects

Init ==
  /\ TablesInit
  /\ conn = [c \in Connects |-> NewConn]
  /\ shell = [c \in Connects |-> "none"]
  /\ disc = [d \in Disconnects |-> NewDisc]

-----------------------------------------------------------------------------
At(c, pc) == conn[c].pc = pc
GoTo(c, pc) == conn' = [conn EXCEPT ![c].pc = pc]
Asking(c, kind) == At(c, "asking") /\ conn[c].kind = kind
Sender(c) == pending[conn[c].kind][conn[c].id]

(* ui.ssh_connect arrives.                                                 *)
ConnectAsked(c, id) ==
  /\ At(c, "unasked")
  /\ conn' = [conn EXCEPT ![c] = [@ EXCEPT !.pc = "asked", !.id = id,
                                           !.tty = TRUE]]
  /\ UNCHANGED <<tableVars, shell, disc>>

Begun(c, id, tty) ==
  conn' = [conn EXCEPT ![c] = [@ EXCEPT !.pc = "connecting", !.id = id,
                                 !.gen = attempts[id] + 1, !.tty = tty]]

(* connect_session takes its generation and goes to the network.            *)
ConnectBegin(c) ==
  /\ At(c, "asked")
  /\ BeginAttempt(conn[c].id)
  /\ Begun(c, conn[c].id, conn[c].tty)
  /\ UNCHANGED <<sessions, channels, pending, link, lock>>
  /\ UNCHANGED <<tableHeld, channelsHeld, shell, disc>>

(* A host key to confirm or a keyboard-interactive round: the sender goes   *)
(* into the table under the session id, over whichever was there.           *)
Ask(c, kind) ==
  /\ At(c, "connecting")
  /\ kind = "hostkey" => conn[c].id \notin AiIds
  /\ RegisterPrompt(kind, conn[c].id, c)
  /\ conn' = [conn EXCEPT ![c].pc = "asking", ![c].kind = kind]
  /\ UNCHANGED <<attempts, sessions, channels, link, lock>>
  /\ UNCHANGED <<tableHeld, channelsHeld, shell, disc>>

(* Mutant: the answer is sent without taking the sender out of the table.   *)
AnswerKept(id, kind, yes) ==
  LET c == pending[kind][id] IN
  /\ c \in Connects
  /\ conn' = IF Asking(c, kind)
             THEN [conn EXCEPT ![c].pc = IF yes THEN "connecting" ELSE "failed"]
             ELSE conn
  /\ UNCHANGED <<tableVars, shell, disc>>

(* ui.ssh_kb_response and ui.ssh_hostkey_response take the sender out; a    *)
(* receiver that has expired meanwhile hears nothing.                       *)
Answer(id, kind, yes) ==
  LET c == pending[kind][id] IN
  /\ c \in Connects
  /\ RemovePrompt(kind, id)
  /\ conn' = IF Asking(c, kind)
             THEN [conn EXCEPT ![c].pc = IF yes THEN "connecting" ELSE "failed"]
             ELSE conn
  /\ UNCHANGED <<attempts, sessions, channels, link, lock>>
  /\ UNCHANGED <<tableHeld, channelsHeld, shell, disc>>

(* The sender was dropped: by a disconnect, or by the prompt of a newer     *)
(* attempt.  The entry in the table, if any, is not ours to remove.         *)
AskDropped(c) ==
  /\ At(c, "asking")
  /\ Sender(c) # c
  /\ GoTo(c, "failed")
  /\ UNCHANGED <<tableVars, shell, disc>>

(* Mutant: a prompt without a timeout.                                      *)
AskForever(c) == At(c, "expired") /\ AskDropped(c)

(* The 60 s or 360 s are over while the sender is still in the table ...    *)
AskExpires(c) ==
  /\ At(c, "asking")
  /\ Sender(c) = c
  /\ GoTo(c, "expired")
  /\ UNCHANGED <<tableVars, shell, disc>>

(* ... and the entry of that id is removed, by whomever it is then.         *)
AskWithdrawn(c) ==
  /\ At(c, "expired")
  /\ RemovePrompt(conn[c].kind, conn[c].id)
  /\ GoTo(c, "failed")
  /\ UNCHANGED <<attempts, sessions, channels, link, lock>>
  /\ UNCHANGED <<tableHeld, channelsHeld, shell, disc>>

(* The 370 s for connecting and signing in are over in the midst of a       *)
(* prompt: its future is dropped, its sender stays in the table ...         *)
CutOff(c) ==
  /\ At(c, "asking") \/ (At(c, "expired") /\ conn[c].kind = "kb")
  /\ GoTo(c, "cut")
  /\ UNCHANGED <<tableVars, shell, disc>>

(* ... but a host key is asked about by the connection's own task, which    *)
(* still withdraws the prompt when its 60 s are over.                       *)
CutWithdrawn(c) ==
  /\ At(c, "cut")
  /\ conn[c].kind = "hostkey" /\ Sender(c) = c
  /\ RemovePrompt("hostkey", conn[c].id)
  /\ GoTo(c, "failed")
  /\ UNCHANGED <<attempts, sessions, channels, link, lock>>
  /\ UNCHANGED <<tableHeld, channelsHeld, shell, disc>>

ConnectFails(c) ==
  /\ At(c, "connecting")
  /\ GoTo(c, "failed")
  /\ UNCHANGED <<tableVars, shell, disc>>

(* Connected and authenticated: an attempt that is no longer current gives  *)
(* up.  (The look at the generation follows at once; when the network was   *)
(* done before it is not to be seen.)                                       *)
ConnectSucceeds(c) ==
  /\ At(c, "connecting")
  /\ IF IsCurrent(conn[c].id, conn[c].gen)
     THEN /\ GoTo(c, IF conn[c].tty THEN "opening" ELSE "storing")
          /\ link' = [link EXCEPT ![c] = "up"]
     ELSE GoTo(c, "failed") /\ Hang(c)
  /\ UNCHANGED <<attempts, sessions, channels, pending, lock>>
  /\ UNCHANGED <<tableHeld, channelsHeld, shell, disc>>

(* open_shell: the server may refuse the channel, the pty or the shell ...  *)
ShellRefused(c) ==
  /\ At(c, "opening")
  /\ GoTo(c, "failed")
  /\ Hang(c)
  /\ UNCHANGED <<attempts, sessions, channels, pending, lock>>
  /\ UNCHANGED <<tableHeld, channelsHeld, shell, disc>>

(* ... or the write channel is entered, over whichever was there, and the   *)
(* reader task starts.  The generation is not looked at again.              *)
ShellOpens(c) ==
  /\ At(c, "opening")
  /\ ChannelsFree
  /\ InsertChannel(conn[c].id, conn[c].gen, c)
  /\ shell' = [shell EXCEPT ![c] = "open"]
  /\ GoTo(c, "storing")
  /\ UNCHANGED <<attempts, sessions, pending, link, lock>>
  /\ UNCHANGED <<tableHeld, channelsHeld, disc>>

(* Under the locks of attempts and sessions: the session is registered, if  *)
(* its attempt is still the current one.                                    *)
Store(c) ==
  /\ At(c, "storing")
  /\ TableFree
  /\ IF IsCurrent(conn[c].id, conn[c].gen)
     THEN /\ sessions' = [sessions EXCEPT ![conn[c].id] = c]
          /\ GoTo(c, "done")
     ELSE GoTo(c, "retracting") /\ UNCHANGED sessions
  /\ UNCHANGED <<attempts, channels, pending, link, lock>>
  /\ UNCHANGED <<tableHeld, channelsHeld, shell, disc>>

(* Mutant: a superseded attempt forgets its write channel.                  *)
RetractSession(c) ==
  /\ At(c, "retracting")
  /\ Hang(c)
  /\ GoTo(c, "failed")
  /\ UNCHANGED <<attempts, sessions, channels, pending, lock>>
  /\ UNCHANGED <<tableHeld, channelsHeld, shell, disc>>

(* A superseded attempt takes its write channel back and hangs up.          *)
Retract(c) ==
  /\ At(c, "retracting")
  /\ ChannelsFree
  /\ RemoveChannelForAttempt(conn[c].id, conn[c].gen)
  /\ Hang(c)
  /\ GoTo(c, "failed")
  /\ UNCHANGED <<attempts, sessions, pending, lock>>
  /\ UNCHANGED <<tableHeld, channelsHeld, shell, disc>>

-----------------------------------------------------------------------------
(* Mutant: the reader removes whichever channel its id has.                 *)
ShellEndsAny(c) ==
  /\ shell[c] = "open"
  /\ ChannelsFree
  /\ channels' = [channels EXCEPT ![conn[c].id] = NoEntry]
  /\ shell' = [shell EXCEPT ![c] = "ended"]
  /\ UNCHANGED <<attempts, sessions, pending, link, lock>>
  /\ UNCHANGED <<tableHeld, channelsHeld, conn, disc>>

(* Mutant: the reader leaves its write channel in the table.                *)
ShellEndsQuietly(c) ==
  /\ shell[c] = "open"
  /\ shell' = [shell EXCEPT ![c] = "ended"]
  /\ UNCHANGED <<tableVars, conn, disc>>

(* The reader task ends - the user's exit, the server, the network or a     *)
(* disconnect - and removes the write channel of its own generation.        *)
ShellEnds(c) ==
  /\ shell[c] = "open"
  /\ ChannelsFree
  /\ RemoveChannelForAttempt(conn[c].id, conn[c].gen)
  /\ shell' = [shell EXCEPT ![c] = "ended"]
  /\ UNCHANGED <<attempts, sessions, pending, link, lock>>
  /\ UNCHANGED <<tableHeld, channelsHeld, conn, disc>>

-----------------------------------------------------------------------------
DiscAt(d, pc) == disc[d].pc = pc
DiscGoTo(d, pc) == disc' = [disc EXCEPT ![d].pc = pc]

(* ui.ssh_disconnect arrives; before: the connects that arrived earlier.    *)
DisconnectAsked(d, id) ==
  /\ DiscAt(d, "unasked")
  /\ disc' = [disc EXCEPT ![d] = [@ EXCEPT !.pc = "asked", !.id = id,
                 !.before = {c \in Connects : ~At(c, "unasked")}]]
  /\ UNCHANGED <<tableVars, conn, shell>>

(* current_attempt, the guard of everything but the next step.              *)
ReadGuard(d) ==
  /\ DiscAt(d, "asked")
  /\ disc' = [disc EXCEPT ![d].pc = "removing",
                          ![d].guard = attempts[disc[d].id]]
  /\ UNCHANGED <<tableVars, conn, shell>>

(* The session of that id leaves the table, whoever's it is.                *)
RemoveSession(d) ==
  LET s == sessions[disc[d].id] IN
  /\ DiscAt(d, "removing")
  /\ TableFree
  /\ sessions' = [sessions EXCEPT ![disc[d].id] = Nobody]
  /\ disc' = [disc EXCEPT
       ![d].pc = IF s = Nobody THEN "invalidating" ELSE "hanging",
       ![d].target = s]
  /\ UNCHANGED <<attempts, channels, pending, link, lock>>
  /\ UNCHANGED <<tableHeld, channelsHeld, conn, shell>>

(* Its mutex may be held by a running command for a while.                  *)
HangUp(d) ==
  /\ DiscAt(d, "hanging")
  /\ lock[disc[d].target] = Nobody
  /\ Hang(disc[d].target)
  /\ DiscGoTo(d, "invalidating")
  /\ UNCHANGED <<attempts, sessions, channels, pending, lock>>
  /\ UNCHANGED <<tableHeld, channelsHeld, conn, shell>>

(* Mutant: the invalidation before the guard was introduced.                *)
InvalidateAlways(d) ==
  /\ DiscAt(d, "invalidating")
  /\ BeginAttempt(disc[d].id)
  /\ DiscGoTo(d, "clearing")
  /\ UNCHANGED <<sessions, channels, pending, link, lock>>
  /\ UNCHANGED <<tableHeld, channelsHeld, conn, shell>>

(* invalidate_attempt_if_current; a newer attempt makes it a no-op, and the *)
(* rest is skipped.                                                         *)
InvalidateIfCurrent(d) ==
  /\ DiscAt(d, "invalidating")
  /\ IF GuardHits(disc[d].id, disc[d].guard)
     THEN BeginAttempt(disc[d].id) /\ DiscGoTo(d, "clearing")
     ELSE DiscGoTo(d, "done") /\ UNCHANGED attempts
  /\ UNCHANGED <<sessions, channels, pending, link, lock>>
  /\ UNCHANGED <<tableHeld, channelsHeld, conn, shell>>

ClearChannel(d) ==
  /\ DiscAt(d, "clearing")
  /\ ChannelsFree
  /\ RemoveChannelForAttempt(disc[d].id, disc[d].guard)
  /\ DiscGoTo(d, "forgetting")
  /\ UNCHANGED <<attempts, sessions, pending, link, lock>>
  /\ UNCHANGED <<tableHeld, channelsHeld, conn, shell>>

Forget(d) ==
  /\ DiscAt(d, "forgetting")
  /\ ForgetPrompts(disc[d].id)
  /\ DiscGoTo(d, "done")
  /\ UNCHANGED <<attempts, sessions, channels, link, lock>>
  /\ UNCHANGED <<tableHeld, channelsHeld, conn, shell>>

-----------------------------------------------------------------------------
(* Steps that come by themselves: each wait behind one of these has a time  *)
(* limit or is for a table.  The 370 s limit the connection to a jump host  *)
(* or to a target reached directly; the way from a jump host to its target  *)
(* and open_shell have no limit.                                            *)
LimitedStep(c) ==
  \/ ConnectBegin(c) \/ AskDropped(c) \/ AskExpires(c) \/ AskWithdrawn(c)
  \/ CutWithdrawn(c) \/ Store(c) \/ Retract(c)
  \/ /\ c \notin Tunnelled
     /\ ConnectFails(c) \/ ConnectSucceeds(c) \/ CutOff(c)

ConnectStep(c) ==
  \/ LimitedStep(c)
  \/ ConnectFails(c) \/ ConnectSucceeds(c) \/ CutOff(c)
  \/ ShellRefused(c) \/ ShellOpens(c)

DisconnectStep(d) ==
  \/ ReadGuard(d) \/ RemoveSession(d) \/ HangUp(d) \/ InvalidateIfCurrent(d)
  \/ ClearChannel(d) \/ Forget(d)

Environment ==
  \/ \E c \in UiConnects, id \in Ids : ConnectAsked(c, id)
  \/ \E c \in Connects, kind \in UserPrompts : Ask(c, kind)
  \/ \E id \in Ids, kind \in UserPrompts, yes \in BOOLEAN :
       Answer(id, kind, yes)
  \/ \E c \in Connects : ShellEnds(c)
  \/ \E d \in Disconnects, id \in Ids : DisconnectAsked(d, id)

ConnectEnded(c) == conn[c].pc \in {"unasked", "done", "failed", "cut"}
DisconnectEnded(d) == disc[d].pc \in {"unasked", "done"}

(* Every call has returned: the only way to come to rest.                   *)
AtRest == /\ \A c \in Connects : ConnectEnded(c)
          /\ \A d \in Disconnects : DisconnectEnded(d)
          /\ UNCHANGED vars

Next == \/ \E c \in Connects : ConnectStep(c)
        \/ \E d \in Disconnects : DisconnectStep(d)
        \/ Environment
        \/ AtRest

Fairness == /\ \A c \in Connects : WF_vars(LimitedStep(c))
            /\ \A d \in Disconnects : WF_vars(DisconnectStep(d))

Spec == Init /\ [][Next]_vars
FairSpec == Spec /\ Fairness

-----------------------------------------------------------------------------
Entry(c) == [gen |-> conn[c].gen, tx |-> c]
Superseded(c) == conn[c].gen # 0 /\ ~IsCurrent(conn[c].id, conn[c].gen)

(* A newer attempt is never undone by the late end of an older one: what    *)
(* enters the session table is newer than all that ever was in it           *)
(* (connect_session's second look at the generation).                       *)
RegisteredInOrder ==
  [][\A id \in Ids, c \in Connects :
       sessions'[id] = c /\ sessions[id] # c =>
         \A b \in Connects \ {c} :
           conn[b].id = id /\ At(b, "done") => conn[b].gen < conn[c].gen]_vars

(* An attempt loses its generation only to a newer connect of its id or to  *)
(* a disconnect that had read that very generation: the disconnect of an    *)
(* older attempt cannot abort it (invalidate_attempt_if_current).           *)
SupersededByName ==
  \A c \in Connects : Superseded(c) =>
    \/ \E b \in Connects : conn[b].id = conn[c].id /\ conn[b].gen > conn[c].gen
    \/ \E d \in Disconnects :
         /\ disc[d].id = conn[c].id /\ disc[d].guard = conn[c].gen
         /\ disc[d].pc \in {"clearing", "forgetting", "done"}

(* A connect that failed leaves no session, no write channel, no open       *)
(* connection and no prompt, wherever it was overtaken; but one that the    *)
(* time limit cut off while it was asking leaves that one prompt            *)
(* (connect_session, authenticate_keyboard_interactive).                    *)
FailureLeavesNothing ==
  \A c \in Connects : At(c, "failed") \/ At(c, "cut") =>
    /\ \A id \in Ids : sessions[id] # c /\ channels[id] # Entry(c)
    /\ \A kind \in Kinds, id \in Ids : pending[kind][id] = c =>
         At(c, "cut") /\ kind = conn[c].kind /\ id = conn[c].id
    /\ link[c] \in {"none", "dead"}

(* Every write channel in the table has a reader that will take it out, so  *)
(* no input disappears into a shell that has ended (open_shell).            *)
ChannelHasReader ==
  \A id \in Ids, c \in Connects : channels[id] = Entry(c) => shell[c] = "open"

(* The terminal of the current attempt is not muted by somebody else's end: *)
(* its write channel leaves the table when its own shell ends, unless       *)
(* another shell of that id is entered over it.                             *)
CurrentKeepsChannel ==
  [][\A id \in Ids, c \in Connects :
       /\ channels[id] = Entry(c)
       /\ channels'[id] = NoEntry
       /\ ~Superseded(c)
       => shell'[c] = "ended"]_vars

(* Whoever is in a prompt table is waiting for that very answer or about to *)
(* withdraw, so an answer never goes to an attempt that has moved on; only  *)
(* an attempt cut off by its time limit stays in the table, having failed.  *)
PromptIsAwaited ==
  \A kind \in Kinds, id \in Ids, c \in Connects : pending[kind][id] = c =>
    /\ conn[c].pc \in {"asking", "expired", "cut"}
    /\ conn[c].kind = kind /\ conn[c].id = id

(* The two waits that nothing limits: for a target behind a jump host, and  *)
(* for a shell.                                                             *)
Unlimited(c) ==
  At(c, "opening") \/ (At(c, "connecting") /\ c \in Tunnelled)

(* Every disconnect returns; every connect returns or comes to one of the   *)
(* two waits without a limit, whatever its prompts and rivals do meanwhile. *)
CallsReturn ==
  /\ \A c \in Connects :
       ~ConnectEnded(c) ~> ConnectEnded(c) \/ Unlimited(c)
  /\ \A d \in Disconnects : ~DisconnectEnded(d) ~> DisconnectEnded(d)

-----------------------------------------------------------------------------
(* What the sources say and the code does not do.                           *)

(* manager.rs invalidate_attempt_if_current: with the guard the disconnect  *)
(* of an old connection has no effect on a new one; so it hangs up only     *)
(* sessions that had been asked for before it.                              *)
DisconnectSparesNewer ==
  \A d \in Disconnects :
    disc[d].target # Nobody => disc[d].target \in disc[d].before
=============================================================================
