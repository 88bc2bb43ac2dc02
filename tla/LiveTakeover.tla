----------------------------- MODULE LiveTakeover -----------------------------
(***************************************************************************)
(* Who may act on a device: the panels that took it over, whose gestures   *)
(* go through the channel's input queue to the pump (starhub-live ws.rs,   *)
(* hub.rs, android.rs), and the assistant's tool calls, which ask the      *)
(* takeover flag first (starhub-domain-android exec.rs).                   *)
(*                                                                         *)
(* The flag is part of the Channel object: a panel sets it on the object   *)
(* it is attached to, a tool call reads it on the one now registered.      *)
(* The pump is LiveSource's, reduced to its loop: how it starts and what   *)
(* it cleans up is checked there.                                          *)
(***************************************************************************)
EXTENDS FrameHub, Sequences

CONSTANTS
  Panels,     \* connections of panels
  Calls,      \* tool calls of the assistant that write to a device
  Gestures,   \* the gestures panels ever make (a bound)
  NoGesture

ASSUME TakeoverAssumption == NoGesture \notin Gestures

VARIABLES
  takeover,   \* handle -> the channel's takeover flag
  panel,      \* panel -> the channel it is attached to, and whether the
              \*          input it is handling passed the takeover check
  queue,      \* handle -> gestures waiting in the input queue, oldest first
  loop,       \* handle -> where the pump loop is
  running,    \* handle -> the gesture its pump is performing
  sent,       \* gesture -> the channel that accepted it, or NoChannel
  executed,   \* the gestures performed so far
  call        \* tool call -> where it is, and the device it is for

actorVars == <<takeover, panel, queue, loop, running, sent, executed, call>>
takeoverVars == <<hubVars, actorVars>>

Detached == [chan |-> NoChannel, passed |-> FALSE]
IdleCall == [pc |-> "idle", id |-> NoId]

LoopPcs == {"none", "top", "draining", "performing", "sleeping", "done"}

TakeoverTypeOK ==
  /\ HubTypeOK
  /\ takeover \in [Handles -> BOOLEAN]
  /\ panel \in [Panels -> [chan : Handles \cup {NoChannel}, passed : BOOLEAN]]
  /\ queue \in [Handles -> Seq(Gestures)]
  /\ loop \in [Handles -> LoopPcs]
  /\ running \in [Handles -> Gestures \cup {NoGesture}]
  /\ \A h \in Handles : loop[h] = "performing" <=> running[h] # NoGesture
  /\ sent \in [Gestures -> Handles \cup {NoChannel}]
  /\ executed \in SUBSET Gestures
  /\ call \in [Calls -> {IdleCall}
                 \cup [pc : {"recording", "writing"}, id : Ids]]

TakeoverInit ==
  /\ HubInit
  /\ takeover = [h \in Handles |-> FALSE]
  /\ panel = [p \in Panels |-> Detached]
  /\ queue = [h \in Handles |-> <<>>]
  /\ loop = [h \in Handles |-> "none"]
  /\ running = [h \in Handles |-> NoGesture]
  /\ sent = [g \in Gestures |-> NoChannel]
  /\ executed = {}
  /\ call = [c \in Calls |-> IdleCall]

(* FrameHub::is_takeover: FALSE without a channel.                         *)
Held(id) == channels[id] # NoChannel /\ takeover[channels[id]]

-----------------------------------------------------------------------------
(* A channel is opened and its pump started; it is closed.                 *)
OpenDevice(id) ==
  /\ \E h \in Handles :
       /\ HubOpen(id, h)
       /\ loop' = [loop EXCEPT ![h] = IF @ = "none" THEN "top" ELSE @]
  /\ UNCHANGED <<takeover, panel, queue, running, sent, executed, call>>

CloseDevice(id) ==
  /\ HubUnregister(id)
  /\ UNCHANGED actorVars

(* A panel's connection is admitted; it leaves.                            *)
Attach(p, id) ==
  /\ panel[p] = Detached
  /\ channels[id] # NoChannel
  /\ panel' = [panel EXCEPT ![p].chan = channels[id]]
  /\ UNCHANGED <<hubVars, takeover, queue, loop, running, sent,
                 executed, call>>

Detach(p) ==
  /\ panel[p].chan # NoChannel
  /\ ~panel[p].passed
  /\ panel' = [panel EXCEPT ![p] = Detached]
  /\ UNCHANGED <<hubVars, takeover, queue, loop, running, sent,
                 executed, call>>

(* {"t":"takeover"} on a connection acts on its channel object, the bridge *)
(* command of the same purpose on the registered one.                      *)
PanelTakeover(p, active) ==
  /\ panel[p].chan # NoChannel
  /\ ~panel[p].passed
  /\ takeover' = [takeover EXCEPT ![panel[p].chan] = active]
  /\ UNCHANGED <<hubVars, panel, queue, loop, running, sent,
                 executed, call>>

BridgeTakeover(id, active) ==
  /\ channels[id] # NoChannel
  /\ takeover' = [takeover EXCEPT ![channels[id]] = active]
  /\ UNCHANGED <<hubVars, panel, queue, loop, running, sent,
                 executed, call>>

(* {"t":"input"} is refused without the takeover flag ...                  *)
InputCheck(p) ==
  /\ panel[p].chan # NoChannel
  /\ ~panel[p].passed
  /\ takeover[panel[p].chan]
  /\ panel' = [panel EXCEPT ![p].passed = TRUE]
  /\ UNCHANGED <<hubVars, takeover, queue, loop, running, sent,
                 executed, call>>

(* ... and then queued; once the pump has dropped its receiver there is no *)
(* queue any more, and the connection ends.                                *)
InputSend(p, g) ==
  LET h == panel[p].chan IN
  /\ panel[p].passed
  /\ IF loop[h] = "done"
     THEN panel' = [panel EXCEPT ![p] = Detached] /\ UNCHANGED <<queue, sent>>
     ELSE /\ sent[g] = NoChannel
          /\ sent' = [sent EXCEPT ![g] = h]
          /\ queue' = [queue EXCEPT ![h] = Append(@, g)]
          /\ panel' = [panel EXCEPT ![p].passed = FALSE]
  /\ UNCHANGED <<hubVars, takeover, loop, running, executed, call>>

(* Bound: when every gesture has been made, one more is refused.           *)
InputRefused(p) ==
  /\ panel[p].passed
  /\ \A g \in Gestures : sent[g] # NoChannel
  /\ panel' = [panel EXCEPT ![p].passed = FALSE]
  /\ UNCHANGED <<hubVars, takeover, queue, loop, running, sent, executed, call>>

(* Mutant: what is queued when the takeover ends is thrown away.           *)
PumpTakeHeldOnly(h) ==
  /\ loop[h] = "draining"
  /\ IF queue[h] = <<>> \/ ~takeover[h]
     THEN /\ loop' = [loop EXCEPT ![h] = "sleeping"]
          /\ queue' = [queue EXCEPT ![h] = <<>>]
          /\ UNCHANGED running
     ELSE /\ loop' = [loop EXCEPT ![h] = "performing"]
          /\ running' = [running EXCEPT ![h] = Head(queue[h])]
          /\ queue' = [queue EXCEPT ![h] = Tail(@)]
  /\ UNCHANGED <<hubVars, takeover, panel, sent, executed, call>>

-----------------------------------------------------------------------------
(* The loop of live_pump: without a channel of its id it ends and drops    *)
(* the receiver with all that is queued; otherwise it performs the queued  *)
(* gestures one after the other, the flag notwithstanding, and pauses.     *)
LoopTop(h) ==
  /\ loop[h] = "top"
  /\ IF channels[chanId[h]] = NoChannel
     THEN /\ loop' = [loop EXCEPT ![h] = "done"]
          /\ queue' = [queue EXCEPT ![h] = <<>>]
     ELSE /\ loop' = [loop EXCEPT ![h] = "draining"]
          /\ UNCHANGED queue
  /\ UNCHANGED <<hubVars, takeover, panel, running, sent, executed, call>>

PumpTake(h) ==
  /\ loop[h] = "draining"
  /\ IF queue[h] = <<>>
     THEN /\ loop' = [loop EXCEPT ![h] = "sleeping"]
          /\ UNCHANGED <<queue, running>>
     ELSE /\ loop' = [loop EXCEPT ![h] = "performing"]
          /\ running' = [running EXCEPT ![h] = Head(queue[h])]
          /\ queue' = [queue EXCEPT ![h] = Tail(@)]
  /\ UNCHANGED <<hubVars, takeover, panel, sent, executed, call>>

(* Mutant: a gesture that fails ends the pump.                             *)
PumpPerformedOrDies(h) ==
  /\ loop[h] = "performing"
  /\ executed' = executed \cup {running[h]}
  /\ running' = [running EXCEPT ![h] = NoGesture]
  /\ loop' \in {[loop EXCEPT ![h] = pc] : pc \in {"draining", "done"}}
  /\ UNCHANGED <<hubVars, takeover, panel, queue, sent, call>>

(* run_gesture returns, with an adb error at worst.                        *)
PumpPerformed(h) ==
  /\ loop[h] = "performing"
  /\ executed' = executed \cup {running[h]}
  /\ running' = [running EXCEPT ![h] = NoGesture]
  /\ loop' = [loop EXCEPT ![h] = "draining"]
  /\ UNCHANGED <<hubVars, takeover, panel, queue, sent, call>>

PumpSleep(h) ==
  /\ loop[h] = "sleeping"
  /\ loop' = [loop EXCEPT ![h] = "top"]
  /\ UNCHANGED <<hubVars, takeover, panel, queue>>
  /\ UNCHANGED <<running, sent, executed, call>>

LoopStep(h) == LoopTop(h) \/ PumpTake(h) \/ PumpPerformed(h) \/ PumpSleep(h)

(* Mutant: a tool call that forgets guard_takeover.                        *)
CallUnguarded(c, id) ==
  /\ call[c].pc = "idle"
  /\ call' = [call EXCEPT ![c] = [pc |-> "recording", id |-> id]]
  /\ UNCHANGED <<hubVars, takeover, panel, queue, loop>>
  /\ UNCHANGED <<running, sent, executed>>

-----------------------------------------------------------------------------
(* A tool call that writes: guard_takeover refuses it while the device is  *)
(* taken over; otherwise it takes a screenshot for the record, and only    *)
(* then runs its adb shell.                                                *)
CallGuard(c, id) ==
  /\ call[c].pc = "idle"
  /\ ~Held(id)
  /\ call' = [call EXCEPT ![c] = [pc |-> "recording", id |-> id]]
  /\ UNCHANGED <<hubVars, takeover, panel, queue, loop>>
  /\ UNCHANGED <<running, sent, executed>>

CallWrite(c) ==
  /\ call[c].pc = "recording"
  /\ call' = [call EXCEPT ![c].pc = "writing"]
  /\ UNCHANGED <<hubVars, takeover, panel, queue, loop>>
  /\ UNCHANGED <<running, sent, executed>>

CallReturn(c) ==
  /\ call[c].pc = "writing"
  /\ call' = [call EXCEPT ![c] = IdleCall]
  /\ UNCHANGED <<hubVars, takeover, panel, queue, loop>>
  /\ UNCHANGED <<running, sent, executed>>

CallStep(c) == CallWrite(c) \/ CallReturn(c)

-----------------------------------------------------------------------------
TakeoverNext ==
  \/ \E id \in Ids : OpenDevice(id) \/ CloseDevice(id)
  \/ \E id \in Ids, active \in BOOLEAN : BridgeTakeover(id, active)
  \/ \E p \in Panels :
       \/ \E id \in Ids : Attach(p, id)
       \/ Detach(p)
       \/ \E active \in BOOLEAN : PanelTakeover(p, active)
       \/ InputCheck(p)
       \/ \E g \in Gestures : InputSend(p, g)
       \/ InputRefused(p)
  \/ \E h \in Handles : LoopStep(h)
  \/ \E c \in Calls : CallStep(c) \/ \E id \in Ids : CallGuard(c, id)

(* Every adb call has a timeout, so the pump and a call both go on.        *)
TakeoverFairness ==
  /\ \A h \in Handles : WF_takeoverVars(LoopStep(h))
  /\ \A c \in Calls : WF_takeoverVars(CallStep(c))

TakeoverSpec == TakeoverInit /\ [][TakeoverNext]_takeoverVars
TakeoverFairSpec == TakeoverSpec /\ TakeoverFairness

-----------------------------------------------------------------------------
Queued(g) == \E h \in Handles : \E i \in DOMAIN queue[h] : queue[h][i] = g
Running(g) == \E h \in Handles : running[h] = g

(* A gesture the panel got an acknowledgement for is performed once at     *)
(* most, and is lost only with the channel that accepted it (ws.rs input,  *)
(* android.rs live_pump).                                                  *)
NoGestureLost ==
  \A g \in Gestures :
    /\ sent[g] # NoChannel =>
         Queued(g) \/ Running(g) \/ g \in executed \/ closed[sent[g]]
    /\ Queued(g) => ~Running(g)
    /\ Queued(g) \/ Running(g) => g \notin executed

(* It is performed in the end unless its channel is closed.                *)
GesturesArePerformed ==
  \A g \in Gestures, h \in Handles :
    sent[g] = h ~> (g \in executed \/ closed[h])

(* When a device stays taken over, the assistant's writes to it end and no *)
(* new one starts (exec.rs guard_takeover).                                *)
TakeoverSilencesCalls ==
  \A id \in Ids : <>[]Held(id) => <>[](\A c \in Calls : call[c].id # id)

-----------------------------------------------------------------------------
(* What the sources say and the code does not do.                          *)

(* lib.rs: while a takeover is on, every write of the assistant is refused *)
(* at the point of its execution.                                          *)
TakeoverExcludesWrites ==
  [][\A c \in Calls :
       call[c].pc = "recording" /\ call'[c].pc = "writing"
       => ~Held(call[c].id)]_takeoverVars
=============================================================================
