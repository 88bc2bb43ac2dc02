------------------------------ MODULE LiveSource ------------------------------
(***************************************************************************)
(* The Android source of the live view (starhub-live/src/android.rs): the  *)
(* screenshot pump and the scrcpy run that feed one channel, and what they *)
(* leave on the machine - an adb forward and a scrcpy-server process.      *)
(*                                                                         *)
(* A source is started by the opener that takes the channel's input        *)
(* receiver, which every Channel object holds once; so the state of a      *)
(* source is indexed by the handle of that object.  Its two tasks go on    *)
(* with the channel's id only, and find whatever channel is registered     *)
(* under it.  Tokens are the subject of LiveServer, gestures and the       *)
(* takeover flag of LiveTakeover; the frames themselves are left out here. *)
(***************************************************************************)
EXTENDS FrameHub

CONSTANTS
  Openers,    \* threads inside AndroidLiveSource::open
  HasServer   \* whether the scrcpy-server binary was found

ASSUME SourceAssumption == HasServer \in BOOLEAN

VARIABLES
  opener,    \* opener -> the channel it opened and is about to serve
  inputRx,   \* handle -> whether the channel still holds its receiver
  pump,      \* handle -> where the screenshot pump of its source is
  scrcpy,    \* handle -> where the scrcpy run of its source is
  session,   \* handle -> what the source's ScrcpySession records
  forward,   \* handle -> whether the adb forward it asked for is in place
  process,   \* handle -> whether the scrcpy-server it spawned is running
  drain,     \* handle -> the channel its server's stderr is reported to
  meta       \* handle -> the part of the channel's metadata panels act on

taskVars == <<opener, inputRx, pump, scrcpy>>
machineVars == <<session, forward, process, drain, meta>>
vars == <<hubVars, taskVars, machineVars>>

PumpPcs == {"none", "resolving", "top", "working", "sleeping", "stopping",
            "removing", "unforwarding", "giving up", "closing", "done"}
ScrcpyPcs == {"none", "pushing", "binding", "forwarding", "spawning",
              "recording", "connecting", "dialing", "handshaking", "announcing",
              "streaming", "reading", "failing", "ended"}
NewSession == [recycled |-> FALSE, port |-> FALSE, child |-> FALSE,
               ready |-> FALSE, failed |-> FALSE]
NewMeta == [mode |-> "frames", error |-> FALSE]

TypeOK ==
  /\ HubTypeOK
  /\ opener \in [Openers -> Handles \cup {NoChannel}]
  /\ inputRx \in [Handles -> BOOLEAN]
  /\ pump \in [Handles -> PumpPcs]
  /\ scrcpy \in [Handles -> ScrcpyPcs]
  /\ session \in [Handles -> [recycled : BOOLEAN, port : BOOLEAN, child : BOOLEAN,
                              ready : BOOLEAN, failed : BOOLEAN]]
  /\ forward \in [Handles -> BOOLEAN]
  /\ process \in [Handles -> BOOLEAN]
  /\ drain \in [Handles -> Handles \cup {NoChannel}]
  /\ meta \in [Handles -> [mode : {"frames", "scrcpy"}, error : BOOLEAN]]
  /\ \A h \in Handles : /\ inputRx[h] <=> pump[h] = "none"
                        /\ ~inputRx[h] => chanId[h] \in Ids

Init ==
  /\ HubInit
  /\ opener = [p \in Openers |-> NoChannel]
  /\ inputRx = [h \in Handles |-> TRUE]
  /\ pump = [h \in Handles |-> "none"]
  /\ scrcpy = [h \in Handles |-> "none"]
  /\ session = [h \in Handles |-> NewSession]
  /\ forward = [h \in Handles |-> FALSE]
  /\ process = [h \in Handles |-> FALSE]
  /\ drain = [h \in Handles |-> NoChannel]
  /\ meta = [h \in Handles |-> NewMeta]

PumpGoto(h, pc) == pump' = [pump EXCEPT ![h] = pc]
ScrcpyGoto(h, pc) == scrcpy' = [scrcpy EXCEPT ![h] = pc]

(* hub.get: the channel now registered under the id this source works for. *)
Current(h) == channels[chanId[h]]

(* patch_meta on whatever channel hub.get finds.                           *)
PatchCurrent(h, m) ==
  meta' = [g \in Handles |-> IF g = Current(h) THEN m[g] ELSE meta[g]]

-----------------------------------------------------------------------------
(* AndroidLiveSource::open registers the channel ...                       *)
Open(p, id) ==
  /\ opener[p] = NoChannel
  /\ \E h \in Handles : HubOpen(id, h) /\ opener' = [opener EXCEPT ![p] = h]
  /\ UNCHANGED <<inputRx, pump, scrcpy, machineVars>>

(* ... and starts a source if it is the one to get the receiver.           *)
StartSource(p) ==
  LET h == opener[p] IN
  /\ h # NoChannel
  /\ opener' = [opener EXCEPT ![p] = NoChannel]
  /\ IF inputRx[h]
     THEN /\ inputRx' = [inputRx EXCEPT ![h] = FALSE]
          /\ PumpGoto(h, "resolving")
          /\ IF HasServer
             THEN ScrcpyGoto(h, "pushing") /\ UNCHANGED meta
             ELSE /\ meta' = [meta EXCEPT ![h].error = TRUE]
                  /\ UNCHANGED scrcpy
     ELSE UNCHANGED <<inputRx, pump, scrcpy, meta>>
  /\ UNCHANGED <<hubVars, session, forward, process, drain>>

(* hub.close, from ui.live_close or from the last viewer that leaves.      *)
Close(id) ==
  /\ HubUnregister(id)
  /\ UNCHANGED <<taskVars, machineVars>>

(* Mutant: the loop does not look its channel up.                          *)
PumpTopUnchecked(h) ==
  /\ pump[h] = "top"
  /\ PumpGoto(h, "working")
  /\ UNCHANGED <<hubVars, opener, inputRx, scrcpy, machineVars>>

-----------------------------------------------------------------------------
(* live_pump.  Without an adb it recycles the session and closes the       *)
(* channel of its id.                                                      *)
PumpResolve(h) ==
  /\ pump[h] = "resolving"
  /\ \/ PumpGoto(h, "top")
     \/ PumpGoto(h, "giving up")
  /\ UNCHANGED <<hubVars, opener, inputRx, scrcpy, machineVars>>

PumpTop(h) ==
  /\ pump[h] = "top"
  /\ PumpGoto(h, IF Current(h) = NoChannel THEN "stopping" ELSE "working")
  /\ UNCHANGED <<hubVars, opener, inputRx, scrcpy, machineVars>>

(* Gestures and one screenshot, each adb call bounded by its timeout, then *)
(* the pause; the screenshot changes nothing modelled here.                *)
PumpWork(h) ==
  /\ \/ pump[h] = "working" /\ PumpGoto(h, "sleeping")
     \/ pump[h] = "sleeping" /\ PumpGoto(h, "top")
  /\ UNCHANGED <<hubVars, opener, inputRx, scrcpy, machineVars>>

(* ScrcpySession::shutdown: set the flag, then kill the child ...          *)
PumpKill(h) ==
  /\ pump[h] \in {"stopping", "giving up"}
  /\ session' = [session EXCEPT ![h].recycled = TRUE, ![h].child = FALSE]
  /\ process' = [process EXCEPT ![h] = @ /\ ~session[h].child]
  /\ PumpGoto(h, IF pump[h] = "stopping" THEN "removing" ELSE "closing")
  /\ UNCHANGED <<hubVars, opener, inputRx, scrcpy, forward, drain, meta>>

(* ... read the port and have adb remove the forward, if one was noted.    *)
PumpReadPort(h) ==
  /\ pump[h] = "removing"
  /\ PumpGoto(h, IF session[h].port THEN "unforwarding" ELSE "done")
  /\ UNCHANGED <<hubVars, opener, inputRx, scrcpy, machineVars>>

PumpUnforward(h) ==
  /\ pump[h] = "unforwarding"
  /\ forward' = [forward EXCEPT ![h] = FALSE]
  /\ PumpGoto(h, "done")
  /\ UNCHANGED <<hubVars, opener, inputRx, scrcpy>>
  /\ UNCHANGED <<session, process, drain, meta>>

(* The pump that found no adb has no program to remove a forward with; it  *)
(* closes the channel by id.                                               *)
PumpGiveUp(h) ==
  /\ pump[h] = "closing"
  /\ HubUnregister(chanId[h])
  /\ PumpGoto(h, "done")
  /\ UNCHANGED <<opener, inputRx, scrcpy, machineVars>>

PumpStep(h) == \/ PumpResolve(h) \/ PumpTop(h) \/ PumpWork(h) \/ PumpKill(h)
               \/ PumpReadPort(h) \/ PumpUnforward(h) \/ PumpGiveUp(h)

(* Mutant: the port is not noted before adb is asked to forward it.        *)
ScrcpyBindPortUnnoted(h) ==
  /\ scrcpy[h] = "binding"
  /\ ScrcpyGoto(h, "forwarding")
  /\ UNCHANGED <<hubVars, opener, inputRx, pump, machineVars>>

-----------------------------------------------------------------------------
(* scrcpy_run_inner, in its order: push the server, note a port, forward   *)
(* it, spawn the server, connect, shake hands, forward frames.  Any step   *)
(* that can fail ends in ScrcpyFails, the error path of scrcpy_run.        *)
ScrcpyPush(h) ==
  /\ scrcpy[h] = "pushing"
  /\ ScrcpyGoto(h, "binding")
  /\ UNCHANGED <<hubVars, opener, inputRx, pump, machineVars>>

ScrcpyBindPort(h) ==
  /\ scrcpy[h] = "binding"
  /\ session' = [session EXCEPT ![h].port = TRUE]
  /\ ScrcpyGoto(h, "forwarding")
  /\ UNCHANGED <<hubVars, opener, inputRx, pump>>
  /\ UNCHANGED <<forward, process, drain, meta>>

(* adb may have done its work even when the call times out.                *)
ScrcpyForward(h) ==
  /\ scrcpy[h] = "forwarding"
  /\ forward' = [forward EXCEPT ![h] = TRUE]
  /\ \/ ScrcpyGoto(h, "spawning") /\ UNCHANGED session
     \/ /\ session' = [session EXCEPT ![h].failed = TRUE]
        /\ ScrcpyGoto(h, "failing")
  /\ UNCHANGED <<hubVars, opener, inputRx, pump, process, drain, meta>>

(* The child runs before the session has it: a shutdown in between finds   *)
(* none to kill.                                                           *)
ScrcpySpawn(h) ==
  /\ scrcpy[h] = "spawning"
  /\ process' = [process EXCEPT ![h] = TRUE]
  /\ ScrcpyGoto(h, "recording")
  /\ UNCHANGED <<hubVars, opener, inputRx, pump>>
  /\ UNCHANGED <<session, forward, drain, meta>>

ScrcpyRecord(h) ==
  /\ scrcpy[h] = "recording"
  /\ session' = [session EXCEPT ![h].child = TRUE]
  /\ ScrcpyGoto(h, "connecting")
  /\ UNCHANGED <<hubVars, opener, inputRx, pump>>
  /\ UNCHANGED <<forward, process, drain, meta>>

(* Both loops look the channel up before they go on.                       *)
ScrcpyCheck(h) ==
  /\ \/ /\ scrcpy[h] = "connecting"
        /\ ScrcpyGoto(h, IF Current(h) = NoChannel THEN "ended" ELSE "dialing")
     \/ /\ scrcpy[h] = "streaming"
        /\ ScrcpyGoto(h, IF Current(h) = NoChannel THEN "ended" ELSE "reading")
  /\ UNCHANGED <<hubVars, opener, inputRx, pump, machineVars>>

(* Every forward of a device leads to the same abstract socket, so that a  *)
(* run may be talking to the server another source of the device spawned.  *)
ServerUp(h) == \E g \in Handles : chanId[g] = chanId[h] /\ process[g]

ScrcpyConnect(h) ==
  /\ scrcpy[h] = "dialing"
  /\ \/ forward[h] /\ ScrcpyGoto(h, "handshaking")
     \/ ScrcpyGoto(h, "connecting")
  /\ UNCHANGED <<hubVars, opener, inputRx, pump, machineVars>>

ScrcpyHandshake(h) ==
  /\ scrcpy[h] = "handshaking"
  /\ ServerUp(h)
  /\ session' = [session EXCEPT ![h].ready = TRUE]
  /\ ScrcpyGoto(h, "announcing")
  /\ UNCHANGED <<hubVars, opener, inputRx, pump>>
  /\ UNCHANGED <<forward, process, drain, meta>>

ScrcpyAnnounce(h) ==
  /\ scrcpy[h] = "announcing"
  /\ PatchCurrent(h, [g \in Handles |-> [mode |-> "scrcpy", error |-> FALSE]])
  /\ drain' = [drain EXCEPT ![h] = Current(h)]
  /\ ScrcpyGoto(h, "streaming")
  /\ UNCHANGED <<hubVars, opener, inputRx, pump, session, forward, process>>

ScrcpyFrame(h) ==
  /\ scrcpy[h] = "reading"
  /\ ServerUp(h)
  /\ ScrcpyGoto(h, "streaming")
  /\ UNCHANGED <<hubVars, opener, inputRx, pump, machineVars>>

(* Mutant: the error stays in the session and is not shown.                *)
ScrcpyReportSilent(h) ==
  /\ scrcpy[h] = "failing"
  /\ ScrcpyGoto(h, "ended")
  /\ UNCHANGED <<hubVars, opener, inputRx, pump, machineVars>>

ScrcpyFails(h) ==
  /\ scrcpy[h] \in {"pushing", "binding", "forwarding", "spawning", "dialing",
                    "handshaking", "reading"}
  /\ session' = [session EXCEPT ![h].failed = TRUE]
  /\ ScrcpyGoto(h, "failing")
  /\ UNCHANGED <<hubVars, opener, inputRx, pump>>
  /\ UNCHANGED <<forward, process, drain, meta>>

ScrcpyReport(h) ==
  /\ scrcpy[h] = "failing"
  /\ PatchCurrent(h, [g \in Handles |-> [meta[g] EXCEPT !.error = TRUE]])
  /\ ScrcpyGoto(h, "ended")
  /\ UNCHANGED <<hubVars, opener, inputRx, pump>>
  /\ UNCHANGED <<session, forward, process, drain>>

ScrcpyStep(h) ==
  \/ ScrcpyPush(h) \/ ScrcpyBindPort(h) \/ ScrcpyForward(h) \/ ScrcpySpawn(h)
  \/ ScrcpyRecord(h) \/ ScrcpyCheck(h) \/ ScrcpyConnect(h) \/ ScrcpyHandshake(h)
  \/ ScrcpyAnnounce(h) \/ ScrcpyFrame(h) \/ ScrcpyFails(h) \/ ScrcpyReport(h)

(* The server exits by itself, say when the device is unplugged.           *)
ServerExits(h) ==
  /\ process[h]
  /\ process' = [process EXCEPT ![h] = FALSE]
  /\ UNCHANGED <<hubVars, taskVars, session, forward, drain, meta>>

(* The task that drains the server's stderr sees it end, and reports what  *)
(* it wrote, if anything, on the channel it was given.                     *)
StderrEnds(h) ==
  /\ drain[h] # NoChannel
  /\ ~process[h]
  /\ \/ meta' = [meta EXCEPT ![drain[h]].error = TRUE]
     \/ UNCHANGED meta
  /\ drain' = [drain EXCEPT ![h] = NoChannel]
  /\ UNCHANGED <<hubVars, taskVars, session, forward, process>>

-----------------------------------------------------------------------------
Next ==
  \/ \E p \in Openers : StartSource(p) \/ \E id \in Ids : Open(p, id)
  \/ \E id \in Ids : Close(id)
  \/ \E h \in Handles : PumpStep(h) \/ ScrcpyStep(h)
                        \/ ServerExits(h) \/ StderrEnds(h)

(* The pump waits only for adb calls that time out and for a timer.        *)
Fairness == \A h \in Handles : WF_vars(PumpStep(h))

Spec == Init /\ [][Next]_vars
FairSpec == Spec /\ Fairness

-----------------------------------------------------------------------------
PumpOver(h) == pump[h] \in {"none", "done"}
ScrcpyOver(h) == scrcpy[h] \in {"none", "ended"}

(* Until a source has been recycled, all it has left on the machine is on  *)
(* record in its session, so that the shutdown to come finds it            *)
(* (ScrcpySession and the order of the steps of scrcpy_run_inner): but for *)
(* a child in the instant between its start and its being recorded, which  *)
(* a shutdown in that instant leaves running for good.                     *)
OnRecordUntilRecycled ==
  \A h \in Handles : ~session[h].recycled =>
    /\ forward[h] => session[h].port
    /\ process[h] => session[h].child \/ scrcpy[h] = "recording"

(* A registered channel that announces scrcpy video without an error is    *)
(* really fed by a scrcpy run, its own or one that outlived the previous   *)
(* channel of that id; otherwise the panel would wait at a black canvas    *)
(* (scrcpy_run's error path; lib.rs: degrading must be said).              *)
ModeIsHonest ==
  \A id \in Ids :
    LET h == channels[id] IN
    h # NoChannel /\ meta[h].mode = "scrcpy" /\ ~meta[h].error =>
      \E g \in Handles : /\ chanId[g] = id
                         /\ scrcpy[g] \in {"streaming", "reading", "failing"}

(* Once an id stays closed, every pump that served it ends.                *)
PumpsEnd ==
  \A id \in Ids, h \in Handles :
    <>[](channels[id] = NoChannel)
      => <>[](chanId[h] = id => PumpOver(h))

-----------------------------------------------------------------------------
(* What the sources say and the code does not do.                          *)

(* lib.rs: closing recycles the pump, the scrcpy child and the adb forward *)
(* without a leak.                                                         *)
NothingLeaks ==
  \A h \in Handles : pump[h] = "done" /\ ScrcpyOver(h) =>
    ~process[h] /\ ~forward[h]
=============================================================================
