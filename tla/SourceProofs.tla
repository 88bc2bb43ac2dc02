----------------------------- MODULE SourceProofs -----------------------------
(* Proofs about the Android source, for any number of openings of any number  *)
(* of devices: what it leaves on the machine is on record until it is         *)
(* recycled, and a panel that is told of scrcpy video is fed by a scrcpy run. *)
(* And about the frames a source pushes, for any number of viewers, any ring  *)
(* and any broadcast buffer: what a viewer reads has no gap.                  *)
EXTENDS LiveSource, LiveFrames, SequenceTheorems, TLAPS

(* The hub's operations keep its types.                                       *)
LEMMA HubTypes ==
  ASSUME HubTypeOK, NEW id \in Ids,
         (\E h \in Handles : HubOpen(id, h)) \/ HubUnregister(id)
  PROVE  HubTypeOK'
<1>1. 0 \in 0..UsizeMod - 1
  BY HubAssumption
<1>2. ASSUME NEW h \in Handles, HubOpen(id, h) PROVE HubTypeOK'
  <2>1. /\ channels' \in [Ids -> Handles \cup {NoChannel}]
        /\ chanId' \in [Handles -> Ids \cup {NoId}]
    BY <1>2 DEF HubOpen, HubTypeOK
  <2>2. subscribers' \in [Handles -> 0..UsizeMod - 1] /\ closed' \in [Handles -> BOOLEAN]
    BY <1>1, <1>2 DEF HubOpen, HubTypeOK
  <2>3. tokens' \in [Tokens -> Ids \cup {Unissued, Spent}]
    BY <1>2 DEF HubOpen, HubTypeOK
  <2>4. QED
    BY <2>1, <2>2, <2>3 DEF HubTypeOK
<1>3. CASE HubUnregister(id)
  <2>1. /\ channels' \in [Ids -> Handles \cup {NoChannel}]
        /\ chanId' = chanId /\ tokens' = tokens
    BY <1>3 DEF HubUnregister, HubTypeOK
  <2>2. subscribers' \in [Handles -> 0..UsizeMod - 1]
    BY <1>1, <1>3 DEF HubUnregister, HubTypeOK
  <2>3. closed' \in [Handles -> BOOLEAN]
    BY <1>3 DEF HubUnregister, HubTypeOK
  <2>4. QED
    BY <2>1, <2>2, <2>3 DEF HubTypeOK
<1>4. QED
  BY <1>2, <1>3

(* What the registry says, and which handles have been allocated.             *)
Registered ==
  \A id \in Ids : channels[id] # NoChannel => chanId[channels[id]] = id

Allocated ==
  /\ \A p \in Openers : opener[p] # NoChannel => chanId[opener[p]] \in Ids
  /\ \A h \in Handles :
       /\ drain[h] # NoChannel => chanId[drain[h]] \in Ids
       /\ scrcpy[h] # "none" => chanId[h] \in Ids
       /\ inputRx[h] => scrcpy[h] = "none"
       /\ chanId[h] \notin Ids => meta[h].mode = "frames"

(* The port is noted before adb is asked to forward it, and the child is      *)
(* recorded right after it was spawned.                                       *)
Recorded ==
  \A h \in Handles :
    /\ scrcpy[h] \in {"forwarding", "spawning", "recording", "connecting", "dialing",
                      "handshaking", "announcing", "streaming", "reading"} => session[h].port
    /\ forward[h] => session[h].port
    /\ ~session[h].recycled /\ process[h] =>
         session[h].child \/ scrcpy[h] = "recording"

Feeding == {"streaming", "reading", "failing"}

LEMMA Hub ==
  ASSUME TypeOK, Registered, NEW id \in Ids,
         (\E h \in Handles : HubOpen(id, h)) \/ HubUnregister(id)
  PROVE  /\ Registered'
         /\ \A g \in Handles : chanId[g] \in Ids => chanId'[g] = chanId[g]
         /\ \A j \in Ids : \/ channels'[j] = channels[j] \/ channels'[j] = NoChannel
                           \/ /\ channels'[j] \in Handles
                              /\ chanId[channels'[j]] \notin Ids
<1>1. HubTypeOK
  BY DEF TypeOK
<1>2. ASSUME NEW h \in Handles, HubOpen(id, h)
      PROVE  /\ Registered'
             /\ \A g \in Handles : chanId[g] \in Ids => chanId'[g] = chanId[g]
             /\ \A j \in Ids : \/ channels'[j] = channels[j]
                               \/ channels'[j] = h /\ chanId[h] \notin Ids
  BY <1>1, <1>2, HubAssumption DEF HubOpen, HubTypeOK, Registered
<1>3. CASE HubUnregister(id)
  BY <1>1, <1>3, HubAssumption DEF HubUnregister, HubTypeOK, Registered
<1>4. QED
  BY <1>2, <1>3

LEMMA SourceInit == Init => TypeOK /\ Registered /\ Allocated /\ Recorded /\ ModeIsHonest
<1> SUFFICES ASSUME Init
             PROVE  TypeOK /\ Registered /\ Allocated /\ Recorded /\ ModeIsHonest
  OBVIOUS
<1>1. HubTypeOK
  <2>1. 0 \in 0..UsizeMod - 1
    BY HubAssumption
  <2>2. QED
    BY <2>1 DEF Init, HubInit, HubTypeOK
<1>2. /\ \A id \in Ids : channels[id] = NoChannel
      /\ \A h \in Handles : chanId[h] = NoId
  BY DEF Init, HubInit
<1>3. TypeOK
  BY <1>1 DEF Init, TypeOK, PumpPcs, ScrcpyPcs, NewSession, NewMeta
<1>4. Registered /\ Allocated /\ Recorded /\ ModeIsHonest
  BY <1>2 DEF Init, Registered, Allocated, Recorded, ModeIsHonest, NewSession, NewMeta
<1>5. QED
  BY <1>3, <1>4

(* The types, one group of variables at a time.                               *)
Sessions == [recycled : BOOLEAN, port : BOOLEAN, child : BOOLEAN, ready : BOOLEAN, failed : BOOLEAN]
Metas == [mode : {"frames", "scrcpy"}, error : BOOLEAN]

TaskTypes ==
  /\ opener \in [Openers -> Handles \cup {NoChannel}]
  /\ inputRx \in [Handles -> BOOLEAN]
  /\ pump \in [Handles -> PumpPcs]
  /\ scrcpy \in [Handles -> ScrcpyPcs]
  /\ \A h \in Handles : /\ inputRx[h] <=> pump[h] = "none"
                        /\ ~inputRx[h] => chanId[h] \in Ids
MachineTypes ==
  /\ session \in [Handles -> Sessions]
  /\ forward \in [Handles -> BOOLEAN] /\ process \in [Handles -> BOOLEAN]
  /\ drain \in [Handles -> Handles \cup {NoChannel}]
  /\ meta \in [Handles -> Metas]

LEMMA Types == /\ TypeOK <=> HubTypeOK /\ TaskTypes /\ MachineTypes
               /\ TypeOK' <=> HubTypeOK' /\ TaskTypes' /\ MachineTypes'
  BY DEF TypeOK, TaskTypes, MachineTypes, Sessions, Metas

LEMMA Unchanged ==
  /\ HubTypeOK /\ UNCHANGED hubVars => HubTypeOK'
  /\ TaskTypes /\ UNCHANGED <<taskVars, chanId>> => TaskTypes'
  /\ MachineTypes /\ UNCHANGED machineVars => MachineTypes'
  BY DEF HubTypeOK, TaskTypes, MachineTypes, hubVars, taskVars, machineVars

(* One session, or the metadata of one channel, changes.                      *)
LEMMA SetSession ==
  ASSUME MachineTypes, NEW h \in Handles, NEW r \in Sessions, session' = [session EXCEPT ![h] = r],
         forward' \in [Handles -> BOOLEAN], process' \in [Handles -> BOOLEAN],
         drain' = drain, meta' = meta
  PROVE  MachineTypes'
  BY DEF MachineTypes

LEMMA SessionUpdates ==
  ASSUME NEW r \in Sessions
  PROVE  /\ [r EXCEPT !.recycled = TRUE, !.child = FALSE] \in Sessions
         /\ [r EXCEPT !.port = TRUE] \in Sessions /\ [r EXCEPT !.failed = TRUE] \in Sessions
         /\ [r EXCEPT !.child = TRUE] \in Sessions /\ [r EXCEPT !.ready = TRUE] \in Sessions
  BY DEF Sessions

LEMMA PumpTypes ==
  ASSUME TaskTypes, NEW h \in Handles, NEW pc \in PumpPcs \ {"none"}, pump[h] # "none",
         pump' = [pump EXCEPT ![h] = pc], UNCHANGED <<opener, inputRx, scrcpy, chanId>>
  PROVE  TaskTypes'
  BY DEF TaskTypes

LEMMA ScrcpyTypes ==
  ASSUME TaskTypes, NEW h \in Handles, NEW pc \in ScrcpyPcs,
         scrcpy' = [scrcpy EXCEPT ![h] = pc], UNCHANGED <<opener, inputRx, pump, chanId>>
  PROVE  TaskTypes'
  BY DEF TaskTypes

LEMMA TypeStep == ASSUME TypeOK, Allocated, [Next]_vars PROVE TypeOK'
<1>0. HubTypeOK /\ TaskTypes /\ MachineTypes
  BY Types
<1>1. ASSUME NEW p \in Openers, NEW id \in Ids, Open(p, id) PROVE TypeOK'
  <2>1. PICK h \in Handles : HubOpen(id, h) /\ opener' = [opener EXCEPT ![p] = h]
    BY <1>1 DEF Open
  <2>2. HubTypeOK'
    BY <1>0, <2>1, HubTypes
  <2>3. \A g \in Handles : chanId[g] \in Ids => chanId'[g] \in Ids
    BY <1>0, <2>1, HubAssumption DEF HubOpen, HubTypeOK
  <2>4. TaskTypes'
    BY <1>0, <1>1, <2>1, <2>3 DEF Open, TaskTypes
  <2>5. QED
    BY <1>0, <1>1, <2>2, <2>4, Types, Unchanged DEF Open
<1>2. ASSUME NEW p \in Openers, StartSource(p) PROVE TypeOK'
  <2> DEFINE h == opener[p]
  <2>1. h \in Handles /\ chanId[h] \in Ids
    <3>1. h # NoChannel
      BY <1>2 DEF StartSource
    <3>2. QED
      BY <1>0, <3>1 DEF TaskTypes, Allocated
  <2>2. HubTypeOK' /\ chanId' = chanId
    BY <1>0, <1>2, Unchanged DEF StartSource, hubVars
  <2>3. opener' = [opener EXCEPT ![p] = NoChannel] /\ UNCHANGED <<session, forward, process, drain>>
    BY <1>2 DEF StartSource
  <2>4. CASE inputRx[h]
    <3>1. /\ inputRx' = [inputRx EXCEPT ![h] = FALSE]
          /\ pump' = [pump EXCEPT ![h] = "resolving"]
          /\ scrcpy' = scrcpy \/ scrcpy' = [scrcpy EXCEPT ![h] = "pushing"]
          /\ meta' = meta \/ meta' = [meta EXCEPT ![h] = [meta[h] EXCEPT !.error = TRUE]]
      BY <1>2, <2>4 DEF StartSource, PumpGoto, ScrcpyGoto
    <3>2. MachineTypes'
      <4>1. [meta[h] EXCEPT !.error = TRUE] \in Metas
        BY <1>0, <2>1 DEF MachineTypes, Metas
      <4>2. QED
        BY <1>0, <2>3, <3>1, <4>1 DEF MachineTypes
    <3>3. TaskTypes'
      BY <1>0, <2>1, <2>2, <2>3, <3>1 DEF TaskTypes, PumpPcs, ScrcpyPcs
    <3>4. QED
      BY <2>2, <3>2, <3>3, Types
  <2>5. CASE ~inputRx[h]
    <3>1. UNCHANGED <<inputRx, pump, scrcpy, meta>>
      BY <1>2, <2>5 DEF StartSource
    <3>2. TaskTypes' /\ MachineTypes'
      BY <1>0, <2>2, <2>3, <3>1 DEF TaskTypes, MachineTypes
    <3>3. QED
      BY <2>2, <3>2, Types
  <2>6. QED
    BY <2>4, <2>5
<1>3. ASSUME NEW id \in Ids, Close(id) PROVE TypeOK'
  <2>1. HubTypeOK' /\ chanId' = chanId
    BY <1>0, <1>3, HubTypes DEF Close, HubUnregister
  <2>2. QED
    BY <1>0, <1>3, <2>1, Types, Unchanged DEF Close
<1>4. ASSUME NEW h \in Handles, PumpStep(h) PROVE TypeOK'
  <2>1. pump[h] # "none" /\ \E pc \in PumpPcs \ {"none"} : pump' = [pump EXCEPT ![h] = pc]
    BY <1>4 DEF PumpStep, PumpResolve, PumpTop, PumpWork, PumpKill, PumpReadPort, PumpUnforward,
                PumpGiveUp, PumpGoto, PumpPcs
  <2>2. HubTypeOK' /\ chanId' = chanId
    <3>1. CASE PumpGiveUp(h)
      <4>1. chanId[h] \in Ids
        BY <1>0, <2>1 DEF TaskTypes
      <4>2. QED
        BY <1>0, <3>1, <4>1, HubTypes DEF PumpGiveUp, HubUnregister
    <3>2. CASE ~PumpGiveUp(h)
      <4>1. UNCHANGED hubVars
        BY <1>4, <3>2 DEF PumpStep, PumpResolve, PumpTop, PumpWork, PumpKill, PumpReadPort, PumpUnforward
      <4>2. QED
        BY <1>0, <4>1, Unchanged DEF hubVars
    <3>3. QED
      BY <3>1, <3>2
  <2>3. TaskTypes'
    <3>1. UNCHANGED <<opener, inputRx, scrcpy>>
      BY <1>4 DEF PumpStep, PumpResolve, PumpTop, PumpWork, PumpKill, PumpReadPort, PumpUnforward,
                  PumpGiveUp
    <3>2. QED
      BY <1>0, <2>1, <2>2, <3>1, PumpTypes
  <2>4. MachineTypes'
    <3>1. CASE PumpKill(h)
      <4>1. /\ session' = [session EXCEPT ![h] = [session[h] EXCEPT !.recycled = TRUE, !.child = FALSE]]
            /\ process' = [process EXCEPT ![h] = process[h] /\ ~session[h].child]
            /\ UNCHANGED <<forward, drain, meta>>
        BY <3>1 DEF PumpKill
      <4>2. session[h] \in Sessions
        BY <1>0 DEF MachineTypes
      <4>3. (process[h] /\ ~session[h].child) \in BOOLEAN
        OBVIOUS
      <4>4. process' \in [Handles -> BOOLEAN] /\ forward' \in [Handles -> BOOLEAN]
        BY <1>0, <4>1, <4>3 DEF MachineTypes
      <4>5. QED
        BY <1>0, <4>1, <4>2, <4>4, SessionUpdates, SetSession
    <3>2. CASE PumpUnforward(h)
      BY <1>0, <3>2 DEF PumpUnforward, MachineTypes
    <3>3. CASE ~PumpKill(h) /\ ~PumpUnforward(h)
      BY <1>0, <1>4, <3>3, Unchanged DEF PumpStep, PumpResolve, PumpTop, PumpWork, PumpReadPort, PumpGiveUp
    <3>4. QED
      BY <3>1, <3>2, <3>3
  <2>5. QED
    BY <2>2, <2>3, <2>4, Types
<1>5. ASSUME NEW h \in Handles, ScrcpyStep(h) PROVE TypeOK'
  <2> USE DEF ScrcpyGoto
  <2>1. UNCHANGED <<hubVars, opener, inputRx, pump>>
    BY <1>5 DEF ScrcpyStep, ScrcpyPush, ScrcpyBindPort, ScrcpyForward, ScrcpySpawn, ScrcpyRecord, ScrcpyCheck,
                ScrcpyConnect, ScrcpyHandshake, ScrcpyAnnounce, ScrcpyFrame, ScrcpyFails,
                ScrcpyReport
  <2>2. \E pc \in ScrcpyPcs : scrcpy' = [scrcpy EXCEPT ![h] = pc]
    <3>1. CASE ScrcpyPush(h) \/ ScrcpyBindPort(h) \/ ScrcpyForward(h) \/ ScrcpySpawn(h) \/ ScrcpyRecord(h)
      BY <3>1 DEF ScrcpyPush, ScrcpyBindPort, ScrcpyForward, ScrcpySpawn, ScrcpyRecord, ScrcpyPcs
    <3>2. CASE ScrcpyCheck(h) \/ ScrcpyConnect(h) \/ ScrcpyHandshake(h)
      BY <3>2 DEF ScrcpyCheck, ScrcpyConnect, ScrcpyHandshake, ScrcpyPcs
    <3>3. CASE ScrcpyAnnounce(h) \/ ScrcpyFrame(h) \/ ScrcpyFails(h) \/ ScrcpyReport(h)
      BY <3>3 DEF ScrcpyAnnounce, ScrcpyFrame, ScrcpyFails, ScrcpyReport, ScrcpyPcs
    <3>4. QED
      BY <1>5, <3>1, <3>2, <3>3 DEF ScrcpyStep
  <2>3. HubTypeOK' /\ TaskTypes'
    BY <1>0, <2>1, <2>2, Unchanged, ScrcpyTypes DEF hubVars
  <2>4. session[h] \in Sessions
    BY <1>0 DEF MachineTypes
  <2>5. MachineTypes'
    <3>1. CASE ScrcpyPush(h) \/ ScrcpyCheck(h) \/ ScrcpyConnect(h) \/ ScrcpyFrame(h)
      BY <1>0, <3>1, Unchanged DEF ScrcpyPush, ScrcpyCheck, ScrcpyConnect, ScrcpyFrame
    <3>2. CASE ScrcpyBindPort(h) \/ ScrcpyForward(h) \/ ScrcpySpawn(h) \/ ScrcpyRecord(h) \/ ScrcpyHandshake(h)
               \/ ScrcpyFails(h)
      <4>1. /\ \/ session' = session
               \/ session' = [session EXCEPT ![h] = [session[h] EXCEPT !.port = TRUE]]
               \/ session' = [session EXCEPT ![h] = [session[h] EXCEPT !.failed = TRUE]]
               \/ session' = [session EXCEPT ![h] = [session[h] EXCEPT !.child = TRUE]]
               \/ session' = [session EXCEPT ![h] = [session[h] EXCEPT !.ready = TRUE]]
            /\ drain' = drain /\ meta' = meta
        BY <3>2 DEF ScrcpyBindPort, ScrcpyForward, ScrcpySpawn, ScrcpyRecord, ScrcpyHandshake, ScrcpyFails
      <4>2. forward' \in [Handles -> BOOLEAN] /\ process' \in [Handles -> BOOLEAN]
        BY <1>0, <3>2 DEF ScrcpyBindPort, ScrcpyForward, ScrcpySpawn, ScrcpyRecord, ScrcpyHandshake, ScrcpyFails,
                          MachineTypes
      <4>3. \E r \in Sessions : session' = [session EXCEPT ![h] = r]
        <5>1. session = [session EXCEPT ![h] = session[h]]
          BY <1>0 DEF MachineTypes
        <5>2. QED
          BY <2>4, <4>1, <5>1, SessionUpdates
      <4>4. QED
        BY <1>0, <4>1, <4>2, <4>3, SetSession
    <3>3. CASE ScrcpyAnnounce(h) \/ ScrcpyReport(h)
      <4>1. /\ UNCHANGED <<session, forward, process>>
            /\ drain' = drain \/ drain' = [drain EXCEPT ![h] = Current(h)]
        BY <3>3 DEF ScrcpyAnnounce, ScrcpyReport
      <4>2. Current(h) \in Handles \cup {NoChannel}
        <5>1. chanId[h] \in Ids
          BY <3>3 DEF ScrcpyAnnounce, ScrcpyReport, Allocated
        <5>2. QED
          BY <1>0, <5>1 DEF Current, HubTypeOK
      <4>3. meta' \in [Handles -> Metas]
        <5>1. \A g \in Handles : /\ [mode |-> "scrcpy", error |-> FALSE] \in Metas
                                 /\ [meta[g] EXCEPT !.error = TRUE] \in Metas /\ meta[g] \in Metas
          BY <1>0 DEF MachineTypes, Metas
        <5>2. QED
          BY <3>3, <5>1 DEF ScrcpyAnnounce, ScrcpyReport, PatchCurrent
      <4>4. QED
        BY <1>0, <4>1, <4>2, <4>3 DEF MachineTypes
    <3>4. QED
      BY <1>5, <3>1, <3>2, <3>3 DEF ScrcpyStep
  <2>6. QED
    BY <2>3, <2>5, Types
<1>6. ASSUME NEW h \in Handles, ServerExits(h) \/ StderrEnds(h) PROVE TypeOK'
  <2>1. HubTypeOK' /\ TaskTypes'
    BY <1>0, <1>6, Unchanged DEF ServerExits, StderrEnds, hubVars
  <2>2. MachineTypes'
    <3>1. CASE ServerExits(h)
      BY <1>0, <3>1 DEF ServerExits, MachineTypes
    <3>2. CASE StderrEnds(h)
      <4>1. /\ drain[h] \in Handles /\ drain' = [drain EXCEPT ![h] = NoChannel]
            /\ UNCHANGED <<session, forward, process>>
            /\ \/ meta' = meta
               \/ meta' = [meta EXCEPT ![drain[h]] = [meta[drain[h]] EXCEPT !.error = TRUE]]
        BY <1>0, <3>2 DEF StderrEnds, MachineTypes
      <4>2. [meta[drain[h]] EXCEPT !.error = TRUE] \in Metas
        <5>1. \A g \in Handles : [meta[g] EXCEPT !.error = TRUE] \in Metas
          BY <1>0 DEF MachineTypes, Metas
        <5>2. QED
          BY <4>1, <5>1
      <4>3. QED
        BY <1>0, <4>1, <4>2 DEF MachineTypes
    <3>3. QED
      BY <1>6, <3>1, <3>2
  <2>3. QED
    BY <2>1, <2>2, Types
<1>7. CASE UNCHANGED vars
  BY <1>0, <1>7, Types, Unchanged DEF vars, hubVars
<1>8. QED
  BY <1>1, <1>2, <1>3, <1>4, <1>5, <1>6, <1>7 DEF Next

LEMMA RecordedStep ==
  ASSUME TypeOK, Allocated, Recorded, [Next]_vars PROVE Recorded'
<1>0. /\ scrcpy \in [Handles -> ScrcpyPcs]
      /\ session \in [Handles -> [recycled : BOOLEAN, port : BOOLEAN, child : BOOLEAN,
                                  ready : BOOLEAN, failed : BOOLEAN]]
      /\ forward \in [Handles -> BOOLEAN] /\ process \in [Handles -> BOOLEAN]
      /\ inputRx \in [Handles -> BOOLEAN]
  BY DEF TypeOK
<1>1. ASSUME UNCHANGED <<scrcpy, session, forward, process>> PROVE Recorded'
  BY <1>1 DEF Recorded
<1>2. ASSUME NEW p \in Openers, NEW id \in Ids, Open(p, id) PROVE Recorded'
  BY <1>1, <1>2 DEF Open, machineVars
<1>3. ASSUME NEW p \in Openers, StartSource(p) PROVE Recorded'
  <2> DEFINE h == opener[p]
  <2>1. /\ UNCHANGED <<session, forward, process>>
        /\ scrcpy' = scrcpy \/ scrcpy' = [scrcpy EXCEPT ![h] = "pushing"]
        /\ scrcpy' # scrcpy => inputRx[h]
    BY <1>3 DEF StartSource, ScrcpyGoto
  <2>2. scrcpy' # scrcpy => scrcpy[h] # "recording"
    BY <1>3, <2>1 DEF StartSource, Allocated, TypeOK
  <2>3. \A g \in Handles : scrcpy'[g] = scrcpy[g]
                           \/ (scrcpy'[g] = "pushing" /\ scrcpy[g] # "recording")
    <3>1. CASE scrcpy' = scrcpy
      BY <3>1
    <3>2. CASE scrcpy' # scrcpy
      <4>1. scrcpy' = [scrcpy EXCEPT ![h] = "pushing"] /\ scrcpy[h] # "recording"
        BY <2>1, <2>2, <3>2
      <4> HIDE DEF h
      <4>2. QED
        BY <1>0, <4>1
    <3>3. QED
      BY <3>1, <3>2
  <2>4. QED
    BY <2>1, <2>3 DEF Recorded
<1>4. ASSUME NEW id \in Ids, Close(id) PROVE Recorded'
  BY <1>1, <1>4 DEF Close, taskVars, machineVars
<1>5. ASSUME NEW h \in Handles, PumpStep(h) PROVE Recorded'
  <2>1. CASE PumpResolve(h) \/ PumpTop(h) \/ PumpWork(h) \/ PumpReadPort(h) \/ PumpGiveUp(h)
    BY <1>1, <2>1 DEF PumpResolve, PumpTop, PumpWork, PumpReadPort, PumpGiveUp, machineVars
  <2>2. CASE PumpKill(h)
    BY <1>0, <2>2 DEF PumpKill, Recorded
  <2>3. CASE PumpUnforward(h)
    BY <1>0, <2>3 DEF PumpUnforward, Recorded
  <2>4. QED
    BY <1>5, <2>1, <2>2, <2>3 DEF PumpStep
<1>6. ASSUME NEW h \in Handles, ScrcpyStep(h) PROVE Recorded'
  <2>1. CASE ScrcpyPush(h) \/ ScrcpyCheck(h) \/ ScrcpyConnect(h) \/ ScrcpyFrame(h)
    BY <1>0, <2>1 DEF ScrcpyPush, ScrcpyCheck, ScrcpyConnect, ScrcpyFrame, ScrcpyGoto,
                      machineVars, Recorded
  <2>2. CASE ScrcpyBindPort(h) \/ ScrcpySpawn(h) \/ ScrcpyRecord(h)
    BY <1>0, <2>2 DEF ScrcpyBindPort, ScrcpySpawn, ScrcpyRecord, ScrcpyGoto, Recorded
  <2>6. CASE ScrcpyForward(h)
    <3>1. /\ scrcpy[h] = "forwarding" /\ process' = process
          /\ forward' = [forward EXCEPT ![h] = TRUE]
          /\ \E pc \in {"spawning", "failing"} : scrcpy' = [scrcpy EXCEPT ![h] = pc]
          /\ \/ session' = session
             \/ session' = [session EXCEPT ![h].failed = TRUE]
      BY <2>6 DEF ScrcpyForward, ScrcpyGoto
    <3>2. \A g \in Handles : /\ session'[g].port = session[g].port
                             /\ session'[g].child = session[g].child
                             /\ session'[g].recycled = session[g].recycled
      BY <1>0, <3>1
    <3>3. session[h].port
      BY <3>1 DEF Recorded
    <3>4. \A g \in Handles : g # h => forward'[g] = forward[g] /\ scrcpy'[g] = scrcpy[g]
      BY <1>0, <3>1
    <3>5. QED
      BY <3>1, <3>2, <3>3, <3>4 DEF Recorded
  <2>3. CASE ScrcpyHandshake(h)
    BY <1>0, <2>3 DEF ScrcpyHandshake, ScrcpyGoto, Recorded
  <2>7. CASE ScrcpyFails(h)
    <3>1. /\ \A g \in Handles : /\ session'[g].port = session[g].port
                               /\ session'[g].child = session[g].child
                               /\ session'[g].recycled = session[g].recycled
          /\ UNCHANGED <<forward, process>>
      BY <1>0, <2>7 DEF ScrcpyFails
    <3>2. \A g \in Handles :
            scrcpy'[g] = scrcpy[g]
              \/ (scrcpy'[g] = "failing" /\ scrcpy[g] # "recording")
      <4>1. /\ scrcpy' = [scrcpy EXCEPT ![h] = "failing"]
            /\ scrcpy[h] # "recording"
        BY <2>7 DEF ScrcpyFails, ScrcpyGoto
      <4>2. QED
        BY <1>0, <4>1
    <3>3. QED
      BY <3>1, <3>2 DEF Recorded
  <2>4. CASE ScrcpyAnnounce(h) \/ ScrcpyReport(h)
    BY <1>0, <2>4 DEF ScrcpyAnnounce, ScrcpyReport, ScrcpyGoto, Recorded
  <2>5. QED
    BY <1>6, <2>1, <2>2, <2>3, <2>4, <2>6, <2>7 DEF ScrcpyStep
<1>7. ASSUME NEW h \in Handles, ServerExits(h) \/ StderrEnds(h) PROVE Recorded'
  BY <1>0, <1>7 DEF ServerExits, StderrEnds, taskVars, Recorded
<1>8. CASE UNCHANGED vars
  BY <1>1, <1>8 DEF vars, taskVars, machineVars
<1>9. QED
  BY <1>2, <1>3, <1>4, <1>5, <1>6, <1>7, <1>8 DEF Next

(* Which channel a source works for, and what its metadata say.               *)
LEMMA AllocatedStep == ASSUME TypeOK, Registered, Allocated, [Next]_vars PROVE Registered' /\ Allocated'
<1>0. HubTypeOK /\ TaskTypes /\ MachineTypes
  BY Types
<1>1. ASSUME chanId' = chanId, channels' = channels PROVE Registered'
  BY <1>1 DEF Registered
<1>2. ASSUME UNCHANGED <<opener, drain, chanId, inputRx, meta>>,
             NEW h \in Handles, NEW pc, scrcpy' = [scrcpy EXCEPT ![h] = pc], scrcpy[h] # "none"
      PROVE  Allocated'
  BY <1>0, <1>2 DEF Allocated, TaskTypes
<1>3. ASSUME UNCHANGED <<opener, drain, inputRx, scrcpy, meta>>,
             \A g \in Handles : chanId[g] \in Ids => chanId'[g] = chanId[g]
      PROVE  Allocated'
  BY <1>0, <1>3 DEF Allocated, TaskTypes, MachineTypes
<1>4. ASSUME NEW p \in Openers, NEW id \in Ids, Open(p, id) PROVE Registered' /\ Allocated'
  <2>1. PICK h \in Handles : HubOpen(id, h) /\ opener' = [opener EXCEPT ![p] = h]
    BY <1>4 DEF Open
  <2>2. Registered' /\ \A g \in Handles : chanId[g] \in Ids => chanId'[g] = chanId[g]
    BY <2>1, Hub
  <2>3. chanId'[h] \in Ids
    BY <1>0, <2>1 DEF HubOpen, HubTypeOK, Registered
  <2>4. Allocated'
    BY <1>0, <1>4, <2>1, <2>2, <2>3 DEF Open, machineVars, Allocated, TaskTypes, MachineTypes
  <2>5. QED
    BY <2>2, <2>4
<1>5. ASSUME NEW p \in Openers, StartSource(p) PROVE Registered' /\ Allocated'
  <2> DEFINE h == opener[p]
  <2>1. /\ h \in Handles /\ chanId[h] \in Ids /\ UNCHANGED <<chanId, channels, drain>>
        /\ opener' = [opener EXCEPT ![p] = NoChannel]
    <3>1. h # NoChannel
      BY <1>5 DEF StartSource
    <3>2. h \in Handles /\ chanId[h] \in Ids
      BY <1>0, <3>1 DEF TaskTypes, Allocated
    <3>3. QED
      BY <1>5, <3>2 DEF StartSource, hubVars
  <2>2. /\ \A g \in Handles : g # h => /\ inputRx'[g] = inputRx[g] /\ scrcpy'[g] = scrcpy[g]
                                       /\ meta'[g] = meta[g]
        /\ inputRx'[h] = FALSE
    <3>1. CASE inputRx[h]
      BY <1>0, <1>5, <2>1, <3>1 DEF StartSource, ScrcpyGoto, TaskTypes, MachineTypes
    <3>2. CASE ~inputRx[h]
      BY <1>0, <1>5, <2>1, <3>2 DEF StartSource, TaskTypes
    <3>3. QED
      BY <3>1, <3>2
  <2>3. QED
    BY <1>0, <1>1, <2>1, <2>2 DEF Allocated, TaskTypes
<1>6. ASSUME NEW id \in Ids, Close(id) PROVE Registered' /\ Allocated'
  BY <1>3, <1>6, Hub DEF Close, taskVars, machineVars, HubUnregister
<1>7. ASSUME NEW h \in Handles, PumpStep(h) PROVE Registered' /\ Allocated'
  <2>1. CASE PumpGiveUp(h)
    <3>1. chanId[h] \in Ids
      BY <1>0, <2>1 DEF PumpGiveUp, TaskTypes
    <3>2. QED
      BY <1>3, <2>1, <3>1, Hub DEF PumpGiveUp, machineVars, HubUnregister
  <2>2. CASE ~PumpGiveUp(h)
    BY <1>1, <1>3, <1>7, <2>2 DEF PumpStep, PumpResolve, PumpTop, PumpWork, PumpKill, PumpReadPort,
                                  PumpUnforward, hubVars, machineVars
  <2>3. QED
    BY <2>1, <2>2
<1>8. ASSUME NEW h \in Handles, ScrcpyStep(h) PROVE Registered' /\ Allocated'
  <2>1. Registered' /\ UNCHANGED <<hubVars, opener, inputRx>>
    BY <1>1, <1>8 DEF ScrcpyStep, ScrcpyPush, ScrcpyBindPort, ScrcpyForward, ScrcpySpawn, ScrcpyRecord, ScrcpyCheck,
                ScrcpyConnect, ScrcpyHandshake, ScrcpyAnnounce, ScrcpyFrame, ScrcpyFails,
                ScrcpyReport, hubVars
  <2>2. scrcpy[h] # "none" /\ \E pc \in ScrcpyPcs : scrcpy' = [scrcpy EXCEPT ![h] = pc]
    <3>1. CASE ScrcpyPush(h) \/ ScrcpyBindPort(h) \/ ScrcpyForward(h) \/ ScrcpySpawn(h) \/ ScrcpyRecord(h)
      BY <3>1 DEF ScrcpyPush, ScrcpyBindPort, ScrcpyForward, ScrcpySpawn, ScrcpyRecord, ScrcpyPcs, ScrcpyGoto
    <3>2. CASE ScrcpyCheck(h) \/ ScrcpyConnect(h) \/ ScrcpyHandshake(h)
      BY <3>2 DEF ScrcpyCheck, ScrcpyConnect, ScrcpyHandshake, ScrcpyPcs, ScrcpyGoto
    <3>3. CASE ScrcpyAnnounce(h) \/ ScrcpyFrame(h) \/ ScrcpyFails(h) \/ ScrcpyReport(h)
      BY <3>3 DEF ScrcpyAnnounce, ScrcpyFrame, ScrcpyFails, ScrcpyReport, ScrcpyPcs, ScrcpyGoto
    <3>4. QED
      BY <1>8, <3>1, <3>2, <3>3 DEF ScrcpyStep
  <2>3. CASE ~ScrcpyAnnounce(h) /\ ~ScrcpyReport(h)
    <3>1. UNCHANGED <<drain, meta>>
      BY <1>8, <2>3 DEF ScrcpyStep, ScrcpyPush, ScrcpyBindPort, ScrcpyForward, ScrcpySpawn, ScrcpyRecord, ScrcpyCheck,
                ScrcpyConnect, ScrcpyHandshake, ScrcpyFrame, ScrcpyFails, machineVars
    <3>2. QED
      BY <1>2, <2>1, <2>2, <3>1 DEF hubVars
  <2>4. CASE ScrcpyAnnounce(h) \/ ScrcpyReport(h)
    <3>1. chanId[h] \in Ids
      BY <2>2 DEF Allocated
    <3>2. Current(h) # NoChannel => Current(h) \in Handles /\ chanId[Current(h)] \in Ids
      BY <1>0, <3>1 DEF Current, Registered, HubTypeOK
    <3>3. \A g \in Handles : g # Current(h) => meta'[g] = meta[g]
      BY <2>4 DEF ScrcpyAnnounce, ScrcpyReport, PatchCurrent
    <3>4. \A g \in Handles : drain'[g] # NoChannel => chanId[drain'[g]] \in Ids
      BY <1>0, <2>4, <3>2 DEF ScrcpyAnnounce, ScrcpyReport, Allocated, MachineTypes
    <3>5. \A g \in Handles : /\ scrcpy'[g] # "none" => chanId[g] \in Ids
                             /\ inputRx'[g] => scrcpy'[g] = "none"
      BY <1>0, <2>1, <2>2, <3>1 DEF Allocated, TaskTypes
    <3>6. \A g \in Handles : chanId[g] \notin Ids => meta'[g].mode = "frames"
      BY <3>2, <3>3, HubAssumption DEF Allocated
    <3>7. Allocated'
      BY <2>1, <3>4, <3>5, <3>6 DEF Allocated, hubVars
    <3>8. QED
      BY <2>1, <3>7
  <2>5. QED
    BY <2>3, <2>4
<1>9. ASSUME NEW h \in Handles, ServerExits(h) \/ StderrEnds(h) PROVE Registered' /\ Allocated'
  <2>1. CASE ServerExits(h)
    BY <1>1, <1>3, <2>1 DEF ServerExits, hubVars, taskVars
  <2>2. CASE StderrEnds(h)
    <3>1. /\ drain[h] \in Handles /\ drain' = [drain EXCEPT ![h] = NoChannel]
          /\ UNCHANGED <<hubVars, taskVars>>
          /\ meta' = meta \/ meta' = [meta EXCEPT ![drain[h]].error = TRUE]
      BY <1>0, <2>2 DEF StderrEnds, MachineTypes
    <3>2. \A g \in Handles : meta'[g].mode = meta[g].mode
      BY <1>0, <3>1 DEF MachineTypes, Metas
    <3>3. \A g \in Handles : drain'[g] # NoChannel => drain'[g] = drain[g]
      BY <1>0, <3>1 DEF MachineTypes
    <3>4. QED
      BY <1>1, <3>1, <3>2, <3>3 DEF Allocated, hubVars, taskVars
  <2>3. QED
    BY <1>9, <2>1, <2>2
<1>10. CASE UNCHANGED vars
  BY <1>1, <1>3, <1>10 DEF vars, hubVars, taskVars, machineVars
<1>11. QED
  BY <1>4, <1>5, <1>6, <1>7, <1>8, <1>9, <1>10 DEF Next

Fed(id) == \E g \in Handles : chanId[g] = id /\ scrcpy[g] \in Feeding
Shows(h) == meta[h].mode = "scrcpy" /\ ~meta[h].error

LEMMA HonestStep ==
  ASSUME TypeOK, Registered, Allocated, ModeIsHonest, [Next]_vars
  PROVE  ModeIsHonest'
<1>0. HubTypeOK /\ TaskTypes /\ MachineTypes
  BY Types
<1>1. \A id \in Ids : channels[id] # NoChannel /\ Shows(channels[id]) => Fed(id)
  BY DEF ModeIsHonest, Shows, Fed, Feeding
<1>2. SUFFICES ASSUME NEW id \in Ids, channels'[id] # NoChannel, Shows(channels[id])'
               PROVE  Fed(id)'
  BY DEF ModeIsHonest, Shows, Fed, Feeding
<1> DEFINE c == channels'[id]
<1>3. ASSUME c = channels[id], Shows(c),
             \A g \in Handles : chanId[g] \in Ids =>
               chanId'[g] = chanId[g] /\ (scrcpy[g] \in Feeding => scrcpy'[g] \in Feeding)
      PROVE  Fed(id)'
  BY <1>1, <1>2, <1>3 DEF Fed
<1>4. ASSUME NEW p \in Openers, NEW i \in Ids, Open(p, i) PROVE Fed(id)'
  <2>1. PICK h \in Handles : HubOpen(i, h) /\ UNCHANGED <<scrcpy, meta>>
    BY <1>4 DEF Open, machineVars
  <2>2. /\ \A g \in Handles : chanId[g] \in Ids => chanId'[g] = chanId[g]
        /\ c = channels[id] \/ (c \in Handles /\ chanId[c] \notin Ids)
    BY <1>2, <2>1, Hub
  <2>3. Shows(c)
    BY <1>2, <2>1 DEF Shows
  <2>4. c = channels[id]
    BY <2>2, <2>3 DEF Allocated, Shows
  <2>5. QED
    BY <1>3, <2>1, <2>2, <2>3, <2>4
<1>5. ASSUME UNCHANGED <<chanId, scrcpy, meta>>, \A j \in Ids : channels'[j] \in {channels[j], NoChannel}
      PROVE  Fed(id)'
  BY <1>2, <1>3, <1>5 DEF Shows
<1>6. ASSUME NEW p \in Openers, StartSource(p) PROVE Fed(id)'
  <2> DEFINE h == opener[p]
  <2>1. h \in Handles /\ UNCHANGED <<chanId, channels>>
    BY <1>0, <1>6 DEF StartSource, TaskTypes, hubVars
  <2>2. CASE inputRx[h]
    <3>1. /\ scrcpy' = scrcpy \/ scrcpy' = [scrcpy EXCEPT ![h] = "pushing"]
          /\ meta' = meta \/ meta' = [meta EXCEPT ![h].error = TRUE]
      BY <1>6, <2>2 DEF StartSource, ScrcpyGoto
    <3>2. scrcpy[h] = "none"
      BY <2>1, <2>2 DEF Allocated
    <3>3. \A g \in Handles : scrcpy[g] \in Feeding => scrcpy'[g] = scrcpy[g]
      BY <1>0, <2>1, <3>1, <3>2 DEF TaskTypes, Feeding
    <3>4. \A g \in Handles : Shows(g)' => Shows(g)
      BY <1>0, <2>1, <3>1 DEF MachineTypes, Metas, Shows
    <3>5. c \in Handles /\ c = channels[id]
      BY <1>0, <1>2, <2>1 DEF HubTypeOK
    <3>6. QED
      BY <1>2, <1>3, <2>1, <3>3, <3>4, <3>5 DEF Shows
  <2>3. CASE ~inputRx[h]
    BY <1>5, <1>6, <2>1, <2>3 DEF StartSource
  <2>4. QED
    BY <2>2, <2>3
<1>7. ASSUME NEW i \in Ids, Close(i) PROVE Fed(id)'
  BY <1>0, <1>5, <1>7 DEF Close, taskVars, machineVars, HubUnregister, HubTypeOK
<1>8. ASSUME NEW h \in Handles, PumpStep(h) PROVE Fed(id)'
  <2>1. UNCHANGED <<scrcpy, meta>>
    BY <1>8 DEF PumpStep, PumpResolve, PumpTop, PumpWork, PumpKill, PumpReadPort,
                PumpUnforward, PumpGiveUp, machineVars
  <2>2. chanId' = chanId /\ \A j \in Ids : channels'[j] \in {channels[j], NoChannel}
    BY <1>0, <1>8 DEF PumpStep, PumpResolve, PumpTop, PumpWork, PumpKill, PumpReadPort,
                PumpUnforward, PumpGiveUp, hubVars, HubUnregister, HubTypeOK
  <2>3. QED
    BY <1>5, <2>1, <2>2
<1>9. ASSUME NEW h \in Handles, ScrcpyStep(h) PROVE Fed(id)'
  <2> USE DEF ScrcpyGoto
  <2>1. UNCHANGED <<channels, chanId>> /\ c = channels[id]
    BY <1>9 DEF ScrcpyStep, ScrcpyPush, ScrcpyBindPort, ScrcpyForward, ScrcpySpawn, ScrcpyRecord, ScrcpyCheck,
                ScrcpyConnect, ScrcpyHandshake, ScrcpyAnnounce, ScrcpyFrame, ScrcpyFails,
                ScrcpyReport, hubVars
  <2>2. ASSUME meta' = meta, NEW pc \in ScrcpyPcs, scrcpy' = [scrcpy EXCEPT ![h] = pc],
               scrcpy[h] \in Feeding => pc \in Feeding
        PROVE  Fed(id)'
    <3>1. \A g \in Handles : scrcpy[g] \in Feeding => scrcpy'[g] \in Feeding
      BY <1>0, <2>2 DEF TaskTypes
    <3>2. QED
      BY <1>2, <1>3, <2>1, <2>2, <3>1 DEF Shows
  <2>3. CASE ScrcpyPush(h) \/ ScrcpyBindPort(h) \/ ScrcpyForward(h) \/ ScrcpySpawn(h) \/ ScrcpyRecord(h)
    BY <2>2, <2>3 DEF ScrcpyPush, ScrcpyBindPort, ScrcpyForward, ScrcpySpawn, ScrcpyRecord, ScrcpyPcs, Feeding,
                      machineVars
  <2>4. CASE ScrcpyConnect(h) \/ ScrcpyHandshake(h) \/ ScrcpyFrame(h) \/ ScrcpyFails(h)
    BY <2>2, <2>4 DEF ScrcpyConnect, ScrcpyHandshake, ScrcpyFrame, ScrcpyFails, ScrcpyPcs, Feeding,
                      machineVars
  <2>5. CASE ScrcpyCheck(h)
    <3>1. CASE Current(h) # NoChannel \/ scrcpy[h] \notin Feeding
      BY <2>2, <2>5, <3>1 DEF ScrcpyCheck, ScrcpyPcs, Feeding, machineVars
    <3>2. CASE Current(h) = NoChannel
      <4>1. chanId[h] # id
        BY <1>2, <2>1, <3>2 DEF Current
      <4>2. \A g \in Handles : g # h => scrcpy'[g] = scrcpy[g]
        BY <1>0, <2>5 DEF ScrcpyCheck, TaskTypes
      <4>3. meta' = meta
        BY <2>5 DEF ScrcpyCheck, machineVars
      <4>4. QED
        BY <1>1, <1>2, <2>1, <4>1, <4>2, <4>3 DEF Fed, Shows
    <3>3. QED
      BY <3>1, <3>2
  <2>6. CASE ScrcpyAnnounce(h)
    <3>1. scrcpy[h] = "announcing" /\ scrcpy' = [scrcpy EXCEPT ![h] = "streaming"]
          /\ \A g \in Handles : g # Current(h) => meta'[g] = meta[g]
      BY <2>6 DEF ScrcpyAnnounce, PatchCurrent
    <3>2. scrcpy'[h] = "streaming" /\ \A g \in Handles : g # h => scrcpy'[g] = scrcpy[g]
      BY <1>0, <3>1 DEF TaskTypes
    <3>3. CASE chanId[h] = id
      BY <2>1, <3>2, <3>3 DEF Fed, Feeding
    <3>4. CASE chanId[h] # id
      <4>1. c # Current(h)
        BY <1>2, <2>1, <3>1, <3>4 DEF Current, Registered, Allocated
      <4>2. c \in Handles /\ Shows(c)
        BY <1>0, <1>2, <2>1, <3>1, <4>1 DEF HubTypeOK, Shows
      <4>3. QED
        BY <1>1, <1>2, <2>1, <3>1, <3>2, <4>2 DEF Fed, Feeding
    <3>5. QED
      BY <3>3, <3>4
  <2>7. CASE ScrcpyReport(h)
    <3>1. /\ scrcpy' = [scrcpy EXCEPT ![h] = "ended"]
          /\ scrcpy[h] = "failing"
          /\ \A g \in Handles : meta'[g] = IF g = Current(h) THEN [meta[g] EXCEPT !.error = TRUE]
                                           ELSE meta[g]
      BY <2>7 DEF ScrcpyReport, PatchCurrent
    <3>2. \A g \in Handles : g # h => scrcpy'[g] = scrcpy[g]
      BY <1>0, <3>1 DEF TaskTypes
    <3>3. c \in Handles
      BY <1>0, <1>2, <2>1 DEF HubTypeOK
    <3>4. c # Current(h)
      <4>1. \A g \in Handles : [meta[g] EXCEPT !.error = TRUE].error = TRUE
        BY <1>0 DEF MachineTypes, Metas
      <4>2. QED
        BY <1>2, <2>1, <3>1, <3>3, <4>1 DEF Shows
    <3>5. chanId[h] # id
      BY <2>1, <3>4 DEF Current
    <3>6. Shows(c)
      BY <1>2, <2>1, <3>1, <3>3, <3>4 DEF Shows
    <3>7. QED
      BY <1>1, <1>2, <2>1, <3>2, <3>5, <3>6 DEF Fed
  <2>8. QED
    BY <1>9, <2>3, <2>4, <2>5, <2>6, <2>7 DEF ScrcpyStep
<1>10. ASSUME NEW h \in Handles, ServerExits(h) \/ StderrEnds(h) PROVE Fed(id)'
  <2>1. UNCHANGED <<channels, chanId, scrcpy>> /\ c \in Handles /\ c = channels[id]
    BY <1>0, <1>2, <1>10 DEF ServerExits, StderrEnds, hubVars, taskVars, HubTypeOK
  <2>2. \A g \in Handles : Shows(g)' => Shows(g)
    <3>1. CASE ServerExits(h)
      BY <3>1 DEF ServerExits, Shows
    <3>2. CASE StderrEnds(h)
      <4>1. drain[h] \in Handles /\ (meta' = meta \/ meta' = [meta EXCEPT ![drain[h]].error = TRUE])
        BY <1>0, <3>2 DEF StderrEnds, MachineTypes
      <4>2. QED
        BY <1>0, <4>1 DEF Shows, MachineTypes, Metas
    <3>3. QED
      BY <1>10, <3>1, <3>2
  <2>3. Shows(c)
    BY <1>2, <2>1, <2>2 DEF Shows
  <2>4. QED
    BY <1>3, <2>1, <2>3
<1>11. CASE UNCHANGED vars
  BY <1>5, <1>11 DEF vars, hubVars, taskVars, machineVars
<1>12. QED
  BY <1>4, <1>6, <1>7, <1>8, <1>9, <1>10, <1>11 DEF Next

-----------------------------------------------------------------------------
Inv == TypeOK /\ Registered /\ Allocated /\ Recorded /\ ModeIsHonest

LEMMA InvStep == Inv /\ [Next]_vars => Inv'
  BY TypeStep, AllocatedStep, RecordedStep, HonestStep DEF Inv

(* Until it has been recycled, a source has nothing on the machine that its   *)
(* shutdown would not find, but for a child that was just spawned.            *)
THEOREM RecordCorrect == Spec => []OnRecordUntilRecycled
<1>1. Inv => OnRecordUntilRecycled
  BY DEF Inv, Recorded, OnRecordUntilRecycled
<1>2. QED
  BY <1>1, SourceInit, InvStep, PTL DEF Spec, Inv

(* A panel that is told of scrcpy video without an error is fed by a scrcpy   *)
(* run of its device, however often the device is closed and opened.          *)
THEOREM HonestCorrect == Spec => []ModeIsHonest
<1>1. Inv => ModeIsHonest
  BY DEF Inv
<1>2. QED
  BY <1>1, SourceInit, InvStep, PTL DEF Spec, Inv

-----------------------------------------------------------------------------
(* The frames.                                                                *)

(* A viewer's record has these fields, whatever they hold.                    *)
ViewerShape(r) ==
  DOMAIN r = {"pc", "replay", "pos", "live", "described", "canvas"}

(* What is broadcast are frames, and a viewer that watches has read the last  *)
(* Len(live) of the pos frames before its place, in their order; one that     *)
(* does not has read none.                                                    *)
ReadsInOrder(r, s) ==
  /\ r.pos \in 0 .. Len(s)
  /\ r.live \in Seq(Frame)
  /\ Len(r.live) <= r.pos
  /\ \A i \in 1 .. Len(r.live) : r.live[i] = s[r.pos - Len(r.live) + i]
  /\ r.pc # "watching" => r.live = <<>>

FramesInv ==
  /\ encoded \in 0 .. MaxFrames
  /\ cast \in Seq(Frame)
  /\ inHand \in [Pushers -> Frame \cup {<<>>}]
  /\ DOMAIN viewer = Viewers
  /\ \A v \in Viewers : ViewerShape(viewer[v]) /\ ReadsInOrder(viewer[v], cast)

(* Showing a frame moves neither the connection nor what it has read.         *)
LEMMA ShownKeeps ==
  ASSUME NEW r, NEW f, ViewerShape(r)
  PROVE  /\ ViewerShape(Shown(r, f))
         /\ Shown(r, f).pc = r.pc /\ Shown(r, f).pos = r.pos
         /\ Shown(r, f).live = r.live
<1>1. /\ ViewerShape([r EXCEPT !.canvas = f.n])
      /\ [r EXCEPT !.canvas = f.n].pc = r.pc
      /\ [r EXCEPT !.canvas = f.n].pos = r.pos
      /\ [r EXCEPT !.canvas = f.n].live = r.live
  BY DEF ViewerShape
<1>2. /\ ViewerShape([r EXCEPT !.described = TRUE])
      /\ [r EXCEPT !.described = TRUE].pc = r.pc
      /\ [r EXCEPT !.described = TRUE].pos = r.pos
      /\ [r EXCEPT !.described = TRUE].live = r.live
  BY DEF ViewerShape
<1>3. Shown(r, f) \in {r, [r EXCEPT !.canvas = f.n], [r EXCEPT !.described = TRUE]}
  BY DEF Shown
<1>4. QED
  BY <1>1, <1>2, <1>3

(* A connection that begins, or has begun to subscribe, has read nothing.     *)
LEMMA NewViewerReads ==
  ASSUME NEW s \in Seq(Frame),
         NEW r \in {NewViewer, [NewViewer EXCEPT !.pc = "counted"]}
  PROVE  ViewerShape(r) /\ ReadsInOrder(r, s)
<1>1. /\ ViewerShape(r) /\ r.pos = 0 /\ r.live = <<>>
  BY DEF ViewerShape, NewViewer
<1>2. <<>> \in Seq(Frame) /\ Len(<<>>) = 0 /\ Len(s) \in Nat
  OBVIOUS
<1>3. r.pos \in 0 .. Len(s) /\ Len(r.live) <= r.pos /\ r.live \in Seq(Frame)
  BY <1>1, <1>2
<1>4. \A i \in 1 .. Len(r.live) : r.live[i] = s[r.pos - Len(r.live) + i]
  BY <1>1, <1>2
<1>5. QED
  BY <1>1, <1>3, <1>4 DEF ReadsInOrder

(* The inductive invariant behind NoGapWhileWatching.                         *)
LEMMA FramesInvariant == FramesSpec => []FramesInv
<1>1. FramesInit => FramesInv
  <2> SUFFICES ASSUME FramesInit PROVE FramesInv
    OBVIOUS
  <2>1. /\ encoded \in 0 .. MaxFrames /\ cast \in Seq(Frame) /\ Len(cast) = 0
        /\ inHand \in [Pushers -> Frame \cup {<<>>}]
        /\ DOMAIN viewer = Viewers /\ \A v \in Viewers : viewer[v] = NewViewer
    BY FramesAssumption DEF FramesInit
  <2>2. QED
    BY <2>1, NewViewerReads DEF FramesInv
<1>2. FramesInv /\ [FramesNext]_framesVars => FramesInv'
  <2> SUFFICES ASSUME FramesInv, [FramesNext]_framesVars PROVE FramesInv'
    OBVIOUS
  <2>0. /\ encoded \in 0 .. MaxFrames /\ MaxFrames \in Nat
        /\ cast \in Seq(Frame)
        /\ inHand \in [Pushers -> Frame \cup {<<>>}]
        /\ DOMAIN viewer = Viewers
        /\ \A v \in Viewers : ViewerShape(viewer[v]) /\ ReadsInOrder(viewer[v], cast)
    BY FramesAssumption DEF FramesInv
  <2>1. ASSUME NEW p \in Pushers, NEW kind \in Kinds, PushToRing(p, kind)
        PROVE  FramesInv'
    <3>1. /\ encoded < MaxFrames /\ encoded' = encoded + 1
          /\ inHand' = [inHand EXCEPT ![p] = [n |-> encoded + 1, kind |-> kind]]
          /\ UNCHANGED <<cast, viewer>>
      BY <2>1 DEF PushToRing
    <3>2. [n |-> encoded + 1, kind |-> kind] \in Frame /\ encoded' \in 0 .. MaxFrames
      BY <2>0, <3>1 DEF Frame
    <3>3. inHand' \in [Pushers -> Frame \cup {<<>>}]
      BY <2>0, <3>1, <3>2
    <3>4. QED
      BY <2>0, <3>1, <3>2, <3>3 DEF FramesInv, ReadsInOrder
  <2>2. ASSUME NEW p \in Pushers, Broadcast(p) PROVE FramesInv'
    <3>1. /\ inHand[p] \in Frame
          /\ cast' = Append(cast, inHand[p])
          /\ inHand' = [inHand EXCEPT ![p] = <<>>]
          /\ UNCHANGED <<encoded, viewer>>
      BY <2>0, <2>2 DEF Broadcast
    <3>2. /\ cast' \in Seq(Frame) /\ Len(cast') = Len(cast) + 1 /\ Len(cast) \in Nat
          /\ \A i \in 1 .. Len(cast) : cast'[i] = cast[i]
      BY <2>0, <3>1
    <3>3. ASSUME NEW v \in Viewers PROVE ReadsInOrder(viewer'[v], cast')
      <4>1. /\ viewer[v].pos \in 0 .. Len(cast) /\ viewer[v].live \in Seq(Frame)
            /\ Len(viewer[v].live) <= viewer[v].pos /\ Len(viewer[v].live) \in Nat
        BY <2>0 DEF ReadsInOrder
      <4>2. ASSUME NEW i \in 1 .. Len(viewer[v].live)
            PROVE  viewer[v].live[i] = cast'[viewer[v].pos - Len(viewer[v].live) + i]
        <5>1. viewer[v].pos - Len(viewer[v].live) + i \in 1 .. Len(cast)
          BY <3>2, <4>1
        <5>2. QED
          BY <2>0, <3>2, <5>1 DEF ReadsInOrder
      <4>3. QED
        BY <2>0, <3>1, <3>2, <4>1, <4>2 DEF ReadsInOrder
    <3>4. inHand' \in [Pushers -> Frame \cup {<<>>}]
      BY <2>0, <3>1
    <3>5. QED
      BY <2>0, <3>1, <3>2, <3>3, <3>4 DEF FramesInv
  <2>3. ASSUME NEW v \in Viewers, NEW r, viewer' = [viewer EXCEPT ![v] = r],
               UNCHANGED <<encoded, cast, inHand>>,
               ViewerShape(r), ReadsInOrder(viewer'[v], cast')
        PROVE  FramesInv'
    <3>1. /\ DOMAIN viewer' = Viewers /\ viewer'[v] = r
          /\ \A w \in Viewers : w = v \/ viewer'[w] = viewer[w]
      BY <2>0, <2>3
    <3>2. \A w \in Viewers : ReadsInOrder(viewer'[w], cast')
      BY <2>0, <2>3, <3>1 DEF ReadsInOrder
    <3>3. QED
      BY <2>0, <2>3, <3>1, <3>2 DEF FramesInv
  <2>4. ASSUME NEW v \in Viewers,
               viewer' = [viewer EXCEPT ![v] = [NewViewer EXCEPT !.pc = "counted"]]
                 \/ viewer' = [viewer EXCEPT ![v] = NewViewer],
               UNCHANGED <<encoded, cast, inHand>>
        PROVE  FramesInv'
    <3>1. PICK r \in {NewViewer, [NewViewer EXCEPT !.pc = "counted"]} :
            viewer' = [viewer EXCEPT ![v] = r]
      BY <2>4
    <3>2. viewer'[v] = r
      BY <2>0, <3>1
    <3>3. ViewerShape(r) /\ ReadsInOrder(viewer'[v], cast')
      BY <2>0, <2>4, <3>2, NewViewerReads
    <3>4. QED
      BY <2>3, <2>4, <3>1, <3>3
  <2>5. ASSUME NEW v \in Viewers, TakeReplay(v) PROVE FramesInv'
    <3> DEFINE r == [viewer[v] EXCEPT !.pc = "replayed", !.replay = Replay(ring)]
    <3>1. viewer' = [viewer EXCEPT ![v] = r] /\ UNCHANGED <<encoded, cast, inHand>>
          /\ viewer[v].pc = "counted"
      BY <2>5 DEF TakeReplay
    <3>2. ViewerShape(r) /\ r.pos = viewer[v].pos /\ r.live = viewer[v].live
      BY <2>0 DEF ViewerShape
    <3>3. viewer'[v] = r
      BY <2>0, <3>1
    <3> HIDE DEF r
    <3>4. ReadsInOrder(viewer'[v], cast')
      BY <2>0, <3>1, <3>2, <3>3 DEF ReadsInOrder
    <3>5. QED
      BY <2>3, <3>1, <3>2, <3>4
  <2>6. ASSUME NEW v \in Viewers, GoLive(v) PROVE FramesInv'
    <3> DEFINE seen == FoldLeft(Shown, viewer[v], viewer[v].replay)
               r == [viewer[v] EXCEPT !.pc = "watching", !.pos = Len(cast),
                                      !.described = seen.described,
                                      !.canvas = seen.canvas]
    <3>1. /\ viewer[v].pc = "replayed" /\ UNCHANGED <<encoded, cast, inHand>>
          /\ viewer' = [viewer EXCEPT ![v] = r]
      BY <2>6 DEF GoLive
    <3>2. ViewerShape(r) /\ r.pos = Len(cast) /\ r.live = viewer[v].live
      BY <2>0 DEF ViewerShape
    <3>3. viewer'[v] = r
      BY <2>0, <3>1
    <3> HIDE DEF r
    <3>4. ReadsInOrder(viewer'[v], cast')
      BY <2>0, <3>1, <3>2, <3>3 DEF ReadsInOrder
    <3>5. QED
      BY <2>3, <3>1, <3>2, <3>4
  <2>7. ASSUME NEW v \in Viewers, Receive(v) PROVE FramesInv'
    <3> DEFINE me == viewer[v]
               f == cast[me.pos + 1]
               q == [me EXCEPT !.pos = me.pos + 1, !.live = Append(@, f)]
    <3>1. /\ me.pc = "watching" /\ me.pos < Len(cast)
          /\ UNCHANGED <<encoded, cast, inHand>>
      BY <2>7 DEF Receive
    <3>2. CASE Len(cast) - me.pos > BufferCap
      <4>1. viewer' = [viewer EXCEPT ![v] = NewViewer]
        BY <2>7, <3>2 DEF Receive
      <4>2. QED
        BY <2>4, <3>1, <4>1
    <3>3. CASE ~(Len(cast) - me.pos > BufferCap)
      <4>1. viewer' = [viewer EXCEPT ![v] = Shown(q, f)]
        BY <2>7, <3>3 DEF Receive
      <4>2. /\ me.pos \in 0 .. Len(cast) /\ Len(cast) \in Nat
            /\ me.live \in Seq(Frame) /\ Len(me.live) <= me.pos /\ Len(me.live) \in Nat
            /\ \A i \in 1 .. Len(me.live) : me.live[i] = cast[me.pos - Len(me.live) + i]
        BY <2>0 DEF ReadsInOrder
      <4>3. f \in Frame
        BY <2>0, <3>1, <4>2
      <4>4. /\ ViewerShape(q) /\ q.pc = "watching" /\ q.pos = me.pos + 1
            /\ q.live = Append(me.live, f)
        BY <2>0, <3>1 DEF ViewerShape
      <4> HIDE DEF q
      <4>5. /\ ViewerShape(Shown(q, f)) /\ Shown(q, f).pos = me.pos + 1
            /\ Shown(q, f).live = Append(me.live, f) /\ Shown(q, f).pc = "watching"
        BY <4>4, ShownKeeps
      <4>6. /\ Append(me.live, f) \in Seq(Frame)
            /\ Len(Append(me.live, f)) = Len(me.live) + 1
            /\ \A i \in 1 .. Len(me.live) + 1 :
                 Append(me.live, f)[i] = IF i <= Len(me.live) THEN me.live[i] ELSE f
        <5> DEFINE read == me.live
        <5>1. read \in Seq(Frame) /\ Len(read) \in Nat /\ f \in Frame
          BY <4>2, <4>3
        <5> HIDE DEF read, f
        <5>2. /\ Append(read, f) \in Seq(Frame) /\ Len(Append(read, f)) = Len(read) + 1
              /\ \A i \in 1 .. Len(read) : Append(read, f)[i] = read[i]
              /\ Append(read, f)[Len(read) + 1] = f
          BY <5>1, AppendProperties
        <5>3. \A i \in 1 .. Len(read) + 1 :
                i \in 1 .. Len(read) \/ (i = Len(read) + 1 /\ ~(i <= Len(read)))
          BY <5>1
        <5>4. QED
          BY <5>2, <5>3 DEF read
      <4>7. viewer'[v] = Shown(q, f)
        BY <2>0, <4>1
      <4>8. ASSUME NEW i \in 1 .. Len(me.live) + 1
            PROVE  Append(me.live, f)[i] = cast[me.pos + 1 - (Len(me.live) + 1) + i]
        <5>1. me.pos + 1 - (Len(me.live) + 1) + i = me.pos - Len(me.live) + i
          BY <4>2
        <5>2. CASE i <= Len(me.live)
          BY <4>2, <4>6, <5>1, <5>2
        <5>3. CASE i = Len(me.live) + 1
          <6>1. me.pos - Len(me.live) + i = me.pos + 1
            BY <4>2, <5>3
          <6>2. QED
            BY <4>2, <4>6, <5>1, <5>3, <6>1
        <5>4. QED
          BY <4>2, <5>2, <5>3
      <4>9. ReadsInOrder(viewer'[v], cast')
        <5>1. me.pos + 1 \in 0 .. Len(cast) /\ Len(me.live) + 1 <= me.pos + 1
          BY <3>1, <4>2
        <5> DEFINE new == viewer'[v]
                   live == Append(me.live, f)
        <5>2. new.pos = me.pos + 1 /\ new.live = live /\ new.pc = "watching"
          BY <4>5, <4>7
        <5>3. /\ live \in Seq(Frame) /\ Len(live) = Len(me.live) + 1
              /\ \A i \in 1 .. Len(live) : live[i] = cast[me.pos + 1 - Len(live) + i]
          BY <4>6, <4>8
        <5>4. cast' = cast
          BY <3>1
        <5> HIDE DEF me, f, new, live
        <5>5. ReadsInOrder(new, cast)
          <6>1. /\ new.pos \in 0 .. Len(cast) /\ new.live \in Seq(Frame)
                /\ Len(new.live) <= new.pos
            BY <5>1, <5>2, <5>3
          <6>2. \A i \in 1 .. Len(new.live) :
                  new.live[i] = cast[new.pos - Len(new.live) + i]
            <7>1. /\ me.pos \in Nat /\ Len(live) \in Nat
                  /\ new.pos = me.pos + 1 /\ new.live = live
              BY <4>2, <5>1, <5>2, <5>3
            <7>2. \A i \in 1 .. Len(live) :
                    new.pos - Len(new.live) + i = me.pos + 1 - Len(live) + i
              BY <7>1
            <7>3. QED
              BY <5>3, <7>1, <7>2
          <6>3. QED
            BY <5>2, <6>1, <6>2 DEF ReadsInOrder
        <5>6. QED
          BY <5>4, <5>5 DEF new
      <4>10. QED
        BY <2>3, <3>1, <4>1, <4>5, <4>9
    <3>4. QED
      BY <3>2, <3>3
  <2>8. CASE UNCHANGED framesVars
    BY <2>0, <2>8 DEF framesVars, FramesInv, ReadsInOrder
  <2>9. ASSUME NEW v \in Viewers, Subscribe(v) \/ Leave(v) PROVE FramesInv'
    BY <2>4, <2>9 DEF Subscribe, Leave
  <2>10. CASE PushScreenshot
    BY <2>1, <2>10 DEF PushScreenshot, Pushers, Kinds
  <2>11. ASSUME NEW kind \in {"config", "key", "delta"}, PushVideo(kind) PROVE FramesInv'
    BY <2>1, <2>11 DEF PushVideo, Pushers, Kinds
  <2>12. QED
    BY <2>2, <2>5, <2>6, <2>7, <2>8, <2>9, <2>10, <2>11 DEF FramesNext
<1>3. QED
  BY <1>1, <1>2, PTL DEF FramesSpec

(* While its connection lasts, a viewer reads everything that is broadcast    *)
(* from the moment it attached, without a gap and in the order it was sent:   *)
(* one that falls behind the buffer is disconnected (ws.rs forwarding loop).  *)
THEOREM FramesCorrect == FramesSpec => []NoGapWhileWatching
<1>1. FramesInv => NoGapWhileWatching
  <2> SUFFICES ASSUME FramesInv, NEW v \in Viewers
               PROVE  viewer[v].live = SubSeq(cast, viewer[v].pos - Len(viewer[v].live) + 1,
                                              viewer[v].pos)
    BY DEF NoGapWhileWatching
  <2> DEFINE l == viewer[v].live
             n == viewer[v].pos
             m == n - Len(l) + 1
  <2>1. /\ cast \in Seq(Frame) /\ l \in Seq(Frame) /\ n \in 0 .. Len(cast)
        /\ Len(l) <= n /\ \A i \in 1 .. Len(l) : l[i] = cast[n - Len(l) + i]
    BY DEF FramesInv, ReadsInOrder
  <2>2. Len(l) \in Nat /\ Len(cast) \in Nat /\ m \in Int /\ n \in Int
    BY <2>1
  <2> HIDE DEF l, n
  <2>3. \A i \in m .. n : cast[i] \in Frame
    BY <2>1, <2>2
  <2>4. /\ SubSeq(cast, m, n) \in Seq(Frame)
        /\ Len(SubSeq(cast, m, n)) = IF m <= n THEN n - m + 1 ELSE 0
        /\ \A i \in 1 .. n - m + 1 : SubSeq(cast, m, n)[i] = cast[m + i - 1]
    BY <2>2, <2>3, SubSeqProperties
  <2>5. Len(SubSeq(cast, m, n)) = Len(l) /\ n - m + 1 = Len(l)
    BY <2>1, <2>2, <2>4
  <2>6. \A i \in 1 .. Len(l) : SubSeq(cast, m, n)[i] = l[i]
    <3> TAKE i \in 1 .. Len(l)
    <3>1. m + i - 1 = n - Len(l) + i
      BY <2>1, <2>2
    <3>2. QED
      BY <2>1, <2>4, <2>5, <3>1
  <2>7. l = SubSeq(cast, m, n)
    BY <2>1, <2>4, <2>5, <2>6, SeqEqual
  <2>8. QED
    BY <2>7 DEF l, n
<1>2. QED
  BY <1>1, FramesInvariant, PTL
=============================================================================
