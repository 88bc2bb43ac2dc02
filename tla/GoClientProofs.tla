---------------------------- MODULE GoClientProofs ----------------------------
(* Theorems about GoClient, for any calls and any number of processes, and    *)
(* about the tools that call through it.                                      *)
EXTENDS DbTools, TLAPS

USE GoAssumption

(* Who has looked the slot up holds a sending end.                            *)
HoldsSender == \A r \in Requests : Holding(r) => target[r] \in Procs

(* Every variable of the client keeps its type (GoSidecar, its tasks and the  *)
(* process it talks to).                                                      *)
THEOREM GoTypeCorrect == GoSpec => []GoTypeOK
<1> DEFINE Inv == GoTypeOK /\ HoldsSender
<1>1. GoInit => Inv
  BY DEF GoInit, GoTypeOK, HoldsSender, Holding, Requests, Pcs
<1>2. Inv /\ [GoNext]_goVars => Inv'
  <2> SUFFICES ASSUME Inv, [GoNext]_goVars PROVE Inv'
    OBVIOUS
  <2> USE DEF GoTypeOK, HoldsSender, Holding, Requests, Pcs, Answers, GoTo, End, Message, Kill, Lost,
              FailAll, Queued, Unread
  <2>1. ASSUME NEW c \in Calls, Ask(c) PROVE Inv'
    BY <2>1 DEF Ask
  <2>2. ASSUME NEW r \in Requests, CallStep(r) PROVE Inv'
    <3>1. CASE Look(r)
      BY <3>1 DEF Look
    <3>2. CASE EnterRunning(r)
      BY <3>2 DEF EnterRunning
    <3>3. CASE SpawnFails(r)
      BY <3>3 DEF SpawnFails
    <3>4. ASSUME NEW p \in Procs, Spawn(r, p) PROVE Inv'
      BY <3>4 DEF Spawn
    <3>5. ASSUME NEW p \in Procs, Validated(r, p) PROVE Inv'
      BY <3>5 DEF Validated
    <3>6. ASSUME NEW p \in Procs, Rejected(r, p) PROVE Inv'
      BY <3>6 DEF Rejected
    <3>7. CASE Reread(r)
      BY <3>7 DEF Reread
    <3>8. CASE Insert(r)
      BY <3>8 DEF Insert
    <3>9. CASE Send(r)
      BY <3>9 DEF Send
    <3>10. CASE SendRefused(r)
      BY <3>10 DEF SendRefused
    <3>11. CASE Return(r)
      BY <3>11 DEF Return
    <3>12. CASE TimesOut(r)
      BY <3>12 DEF TimesOut
    <3>13. QED
      BY <2>2, <3>1, <3>2, <3>3, <3>4, <3>5, <3>6, <3>7, <3>8, <3>9, <3>10,
         <3>11, <3>12 DEF CallStep
  <2>3. ASSUME NEW p \in Procs, WriterStep(p) PROVE Inv'
    <3>1. ASSUME NEW r \in Requests, Write(p, r) PROVE Inv'
      BY <3>1 DEF Write
    <3>2. ASSUME NEW r \in Requests, WriteFails(p, r) PROVE Inv'
      BY <3>2 DEF WriteFails
    <3>3. CASE WriterDrops(p)
      BY <3>3 DEF WriterDrops
    <3>4. CASE WriterIdle(p)
      BY <3>4 DEF WriterIdle
    <3>5. QED
      BY <2>3, <3>1, <3>2, <3>3, <3>4 DEF WriterStep
  <2>4. ASSUME NEW p \in Procs, ReaderStep(p) PROVE Inv'
    BY <2>4 DEF ReaderStep, ReadAnswer, ReaderEnds, ReaderCleans
  <2>5. ASSUME NEW p \in Procs, NEW r \in Requests, NEW kind \in Replies,
               Execute(p, r, kind)
        PROVE Inv'
    BY <2>5 DEF Execute
  <2>6. ASSUME NEW p \in Procs, Dies(p) PROVE Inv'
    BY <2>6 DEF Dies
  <2>7. CASE UNCHANGED goVars
    BY <2>7 DEF goVars
  <2>8. QED
    BY <2>1, <2>2, <2>3, <2>4, <2>5, <2>6, <2>7 DEF GoNext, ProcStep
<1>3. QED
  BY <1>1, <1>2, PTL DEF GoSpec

-----------------------------------------------------------------------------
(* A process that runs is the registered one and its handle is kept, whatever *)
(* the order of starting, validating, dying and cleaning up (start_inner,     *)
(* read_loop).                                                                *)
THEOREM RunningCorrect == GoSpec => []RunningIsRegistered
<1>1. GoInit => RunningIsRegistered
  BY DEF GoInit, RunningIsRegistered
<1>2. GoTypeOK /\ RunningIsRegistered /\ [GoNext]_goVars => RunningIsRegistered'
  <2> SUFFICES ASSUME GoTypeOK, RunningIsRegistered, [GoNext]_goVars
               PROVE RunningIsRegistered'
    OBVIOUS
  <2> USE DEF RunningIsRegistered, Kill
  <2>1. ASSUME UNCHANGED <<slot, child, proc>> PROVE RunningIsRegistered'
    BY <2>1
  <2>2. ASSUME NEW r \in Requests, NEW p \in Procs, Spawn(r, p)
        PROVE RunningIsRegistered'
    BY <2>2 DEF Spawn, GoTypeOK
  <2>3. ASSUME NEW r \in Requests, NEW p \in Procs, Rejected(r, p)
        PROVE RunningIsRegistered'
    BY <2>3 DEF Rejected, GoTypeOK
  <2>4. ASSUME NEW p \in Procs, ReaderCleans(p) PROVE RunningIsRegistered'
    BY <2>4 DEF ReaderCleans, GoTypeOK
  <2>5. ASSUME NEW p \in Procs, Dies(p) PROVE RunningIsRegistered'
    BY <2>5 DEF Dies, GoTypeOK
  <2>6. ASSUME NEW r \in Requests, CallStep(r) PROVE RunningIsRegistered'
    BY <2>1, <2>2, <2>3, <2>6
       DEF CallStep, Look, EnterRunning, SpawnFails, Validated, Reread, Insert,
           Send, SendRefused, Return, TimesOut
  <2>7. ASSUME NEW p \in Procs, WriterStep(p) PROVE RunningIsRegistered'
    BY <2>1, <2>7 DEF WriterStep, Write, WriteFails, WriterDrops, WriterIdle
  <2>8. ASSUME NEW p \in Procs, ReaderStep(p) PROVE RunningIsRegistered'
    BY <2>1, <2>4, <2>8 DEF ReaderStep, ReadAnswer, ReaderEnds
  <2>9. ASSUME NEW p \in Procs, ProcStep(p) PROVE RunningIsRegistered'
    BY <2>1, <2>5, <2>9 DEF ProcStep, Execute
  <2>10. QED
    BY <2>1, <2>6, <2>7, <2>8, <2>9 DEF GoNext, Ask, goVars
<1>3. QED
  BY <1>1, <1>2, GoTypeCorrect, PTL DEF GoSpec

-----------------------------------------------------------------------------
(* Until a request has its place in the table nothing has come for it, and a  *)
(* process that was not spawned has not been validated.                       *)
NothingCameYet ==
  /\ \A r \in Requests :
       pc[r] \in {"idle", "look", "lock", "validate", "reread", "insert"}
         => result[r] = "none"
  /\ \A p \in Procs : proc[p] = "unborn" => pc[p] = "idle"

LEMMA PendingInvariant == GoSpec => []GoTypeOK /\ [](NothingCameYet /\ PendingIsAwaited)
<1> DEFINE Inv == NothingCameYet /\ PendingIsAwaited
<1>1. GoInit => Inv
  BY DEF GoInit, NothingCameYet, PendingIsAwaited, Requests
<1>2. GoTypeOK /\ Inv /\ [GoNext]_goVars => Inv'
  <2> SUFFICES ASSUME GoTypeOK, Inv, [GoNext]_goVars PROVE Inv'
    OBVIOUS
  <2> USE DEF NothingCameYet, PendingIsAwaited, Requests, GoTo, End, Kill, FailAll,
              GoTypeOK, Pcs
  <2>1. ASSUME NEW c \in Calls, Ask(c) PROVE Inv'
    BY <2>1 DEF Ask
  <2>2. ASSUME NEW r \in Requests, CallStep(r) PROVE Inv'
    <3>1. CASE Look(r)
      BY <3>1 DEF Look
    <3>2. CASE EnterRunning(r)
      BY <3>2 DEF EnterRunning
    <3>3. CASE SpawnFails(r)
      BY <3>3 DEF SpawnFails
    <3>4. ASSUME NEW p \in Procs, Spawn(r, p) PROVE Inv'
      BY <3>4 DEF Spawn
    <3>5. ASSUME NEW p \in Procs, Validated(r, p) PROVE Inv'
      BY <3>5 DEF Validated
    <3>6. ASSUME NEW p \in Procs, Rejected(r, p) PROVE Inv'
      BY <3>6 DEF Rejected
    <3>7. CASE Reread(r)
      BY <3>7 DEF Reread
    <3>8. CASE Insert(r)
      BY <3>8 DEF Insert
    <3>9. CASE Send(r)
      BY <3>9 DEF Send
    <3>10. CASE SendRefused(r)
      BY <3>10 DEF SendRefused
    <3>11. CASE Return(r)
      BY <3>11 DEF Return
    <3>12. CASE TimesOut(r)
      BY <3>12 DEF TimesOut
    <3>13. QED
      BY <2>2, <3>1, <3>2, <3>3, <3>4, <3>5, <3>6, <3>7, <3>8, <3>9, <3>10,
         <3>11, <3>12 DEF CallStep
  <2>3. ASSUME NEW p \in Procs, WriterStep(p) PROVE Inv'
    BY <2>3 DEF WriterStep, Write, WriteFails, WriterDrops, WriterIdle
  <2>4. ASSUME NEW p \in Procs, ReaderStep(p) PROVE Inv'
    BY <2>4 DEF ReaderStep, ReadAnswer, ReaderEnds, ReaderCleans
  <2>5. ASSUME NEW p \in Procs, ProcStep(p) PROVE Inv'
    BY <2>5 DEF ProcStep, Execute, Dies
  <2>6. CASE UNCHANGED goVars
    BY <2>6 DEF goVars
  <2>7. QED
    BY <2>1, <2>2, <2>3, <2>4, <2>5, <2>6 DEF GoNext
<1>3. QED
  BY <1>1, <1>2, GoTypeCorrect, PTL DEF GoSpec

(* Every response sender in the table has a caller that still listens         *)
(* (call_with_timeout, fail_all).                                             *)
THEOREM PendingCorrect == GoSpec => []PendingIsAwaited
  BY PendingInvariant, PTL

-----------------------------------------------------------------------------
(* What holds of one call's requests, answers and executions: it is on the    *)
(* wire once at most, carried out once at most, not both still to be carried  *)
(* out and carried out already; and what says that it succeeded comes after.  *)
About(c) == {m \in wire : m.req = c}
Begun(c) == pc[c] \in {"wait", "ok", "failed"}

CallIsOne(c) ==
  /\ \A m, n \in About(c) : m = n
  /\ runs[c] \in {0, 1}
  /\ \A m \in About(c) : runs[c] = 0 <=> m.as \in {"queued", "sent"}
  /\ ~Begun(c) => About(c) = {} /\ runs[c] = 0
  /\ result[c] = "ok" \/ pc[c] = "ok" => runs[c] = 1

OnceInv == \A c \in Calls : CallIsOne(c)

(* Steps that put nothing on the wire, carry nothing out and tell no call     *)
(* that it succeeded.                                                         *)
Quiet ==
  /\ wire' \subseteq wire
  /\ UNCHANGED runs
  /\ \A c \in Calls : /\ Begun(c) => Begun(c)'
                      /\ pc'[c] = "ok" => pc[c] = "ok"
                      /\ result'[c] = "ok" => result[c] = "ok"

LEMMA QuietKeepsOnce == OnceInv /\ Quiet => OnceInv'
  BY DEF Quiet, OnceInv, CallIsOne, About, Begun

LEMMA CallStepsKeepOnce ==
  ASSUME GoTypeOK, OnceInv, NEW r \in Requests, CallStep(r)
  PROVE  OnceInv'
<1> USE DEF GoTypeOK, Requests, Pcs, GoTo, End
<1>1. CASE Look(r)
  BY <1>1, QuietKeepsOnce DEF Look, Quiet, Begun
<1>2. CASE EnterRunning(r)
  BY <1>2, QuietKeepsOnce DEF EnterRunning, Quiet, Begun
<1>3. CASE SpawnFails(r)
  BY <1>3, QuietKeepsOnce DEF SpawnFails, Quiet, Begun
<1>4. ASSUME NEW p \in Procs, Spawn(r, p) PROVE OnceInv'
  BY <1>4, QuietKeepsOnce DEF Spawn, Lost, Quiet, Begun
<1>5. ASSUME NEW p \in Procs, Validated(r, p) PROVE OnceInv'
  BY <1>5, QuietKeepsOnce DEF Validated, Quiet, Begun
<1>6. ASSUME NEW p \in Procs, Rejected(r, p) PROVE OnceInv'
  BY <1>6, QuietKeepsOnce DEF Rejected, Kill, Lost, Quiet, Begun
<1>7. CASE Reread(r)
  BY <1>7, QuietKeepsOnce DEF Reread, Quiet, Begun
<1>8. CASE Insert(r)
  BY <1>8, QuietKeepsOnce DEF Insert, Quiet, Begun
<1>9. CASE Send(r)
  <2>1. \A c \in Calls : c # r => About(c)' = About(c)
    BY <1>9 DEF Send, Message, About
  <2>2. r \in Calls => About(r) = {} /\ runs[r] = 0 /\ result[r] # "ok"
    BY <1>9 DEF Send, OnceInv, CallIsOne, Begun
  <2>3. r \in Calls => About(r)' = {Message(r, target[r], "queued")}
    BY <1>9, <2>2 DEF Send, About, Message
  <2>4. \A c \in Calls : c # r => CallIsOne(c)'
    BY <1>9, <2>1 DEF Send, OnceInv, CallIsOne, Begun
  <2>5. r \in Calls => CallIsOne(r)'
    BY <1>9, <2>2, <2>3 DEF Send, CallIsOne, Begun, Message
  <2>6. QED
    BY <2>4, <2>5 DEF OnceInv
<1>10. CASE SendRefused(r)
  BY <1>10, QuietKeepsOnce DEF SendRefused, Quiet, Begun
<1>11. CASE Return(r)
  BY <1>11 DEF Return, OnceInv, CallIsOne, About, Begun
<1>12. CASE TimesOut(r)
  BY <1>12, QuietKeepsOnce DEF TimesOut, Quiet, Begun
<1>13. QED
  BY <1>1, <1>2, <1>3, <1>4, <1>5, <1>6, <1>7, <1>8, <1>9, <1>10, <1>11, <1>12
     DEF CallStep

LEMMA TasksKeepOnce ==
  ASSUME GoTypeOK, OnceInv, NEW p \in Procs,
         WriterStep(p) \/ ReaderStep(p) \/ ProcStep(p)
  PROVE  OnceInv'
<1> USE DEF GoTypeOK, Requests, Pcs
<1>1. ASSUME NEW r \in Requests, Write(p, r) PROVE OnceInv'
  <2>1. \A c \in Calls : c # r => About(c)' = About(c)
    BY <1>1 DEF Write, Message, About
  <2>2. r \in Calls => /\ About(r) = {Message(r, p, "queued")}
                      /\ About(r)' = {Message(r, p, "sent")}
    BY <1>1 DEF Write, Message, About, OnceInv, CallIsOne
  <2>3. QED
    BY <1>1, <2>1, <2>2 DEF Write, Message, OnceInv, CallIsOne, Begun
<1>2. ASSUME NEW r \in Requests, WriteFails(p, r) PROVE OnceInv'
  BY <1>2, QuietKeepsOnce DEF WriteFails, FailAll, Quiet, Begun
<1>3. CASE WriterDrops(p)
  BY <1>3, QuietKeepsOnce DEF WriterDrops, Quiet, Begun
<1>4. CASE WriterIdle(p)
  BY <1>4, QuietKeepsOnce DEF WriterIdle, Quiet, Begun
<1>5. ASSUME NEW m \in wire, ReadAnswer(p, m) PROVE OnceInv'
  BY <1>5 DEF ReadAnswer, Unread, Answers, OnceInv, CallIsOne, About, Begun
<1>6. CASE ReaderEnds(p)
  BY <1>6, QuietKeepsOnce DEF ReaderEnds, FailAll, Quiet, Begun
<1>7. CASE ReaderCleans(p)
  BY <1>7, QuietKeepsOnce DEF ReaderCleans, Kill, Lost, Quiet, Begun
<1>8. ASSUME NEW r \in Requests, NEW kind \in Replies, Execute(p, r, kind)
      PROVE OnceInv'
  <2>1. \A c \in Calls : c # r => About(c)' = About(c) /\ runs'[c] = runs[c]
    BY <1>8 DEF Execute, Message, About
  <2>2. r \in Calls => /\ About(r) = {Message(r, p, "sent")}
                      /\ runs[r] = 0
                      /\ Begun(r)
    BY <1>8 DEF Execute, Message, About, OnceInv, CallIsOne
  <2>3. r \in Calls => /\ runs'[r] = 1
                      /\ \A m \in About(r)' : m = Message(r, p, kind) /\ kind \in Answers
    BY <1>8, <2>2 DEF Execute, About
  <2>4. \A c \in Calls : c # r => CallIsOne(c)'
    BY <1>8, <2>1 DEF Execute, OnceInv, CallIsOne, Begun
  <2>5. r \in Calls => CallIsOne(r)'
    BY <1>8, <2>2, <2>3 DEF Execute, CallIsOne, Begun, Message, Answers
  <2>6. QED
    BY <2>4, <2>5 DEF OnceInv
<1>9. CASE Dies(p)
  BY <1>9, QuietKeepsOnce DEF Dies, Kill, Lost, Quiet, Begun
<1>10. QED
  BY <1>1, <1>2, <1>3, <1>4, <1>5, <1>6, <1>7, <1>8, <1>9
     DEF WriterStep, ReaderStep, ProcStep

LEMMA OnceInvariant == GoSpec => [](GoTypeOK /\ OnceInv)
<1>1. GoInit => OnceInv
  BY DEF GoInit, OnceInv, CallIsOne, About, Begun, Requests
<1>2. GoTypeOK /\ OnceInv /\ [GoNext]_goVars => OnceInv'
  <2> SUFFICES ASSUME GoTypeOK, OnceInv, [GoNext]_goVars PROVE OnceInv'
    OBVIOUS
  <2>1. ASSUME NEW c \in Calls, Ask(c) PROVE OnceInv'
    BY <2>1, QuietKeepsOnce DEF Ask, GoTo, Quiet, Begun, GoTypeOK, Requests
  <2>2. CASE UNCHANGED goVars
    BY <2>2, QuietKeepsOnce DEF goVars, Quiet, Begun
  <2>3. QED
    BY <2>1, <2>2, CallStepsKeepOnce, TasksKeepOnce DEF GoNext
<1>3. QED
  BY <1>1, <1>2, GoTypeCorrect, PTL DEF GoSpec

-----------------------------------------------------------------------------
(* The client implements CallService: a call is carried out at most once,     *)
(* whatever becomes of processes, writers and readers, and one that is told   *)
(* to have succeeded has been (call_with_timeout and the tasks behind it).    *)
THEOREM OnceCorrect == GoSpec => AtMostOnce
<1>1. GoInit => Promise!Init
  BY DEF GoInit, Promise!Init, Phase, Requests
<1>2. GoTypeOK /\ OnceInv /\ [GoNext]_goVars => [Promise!Next]_(Promise!vars)
  <2> SUFFICES ASSUME GoTypeOK, OnceInv, [GoNext]_goVars
               PROVE [Promise!Next]_(Promise!vars)
    OBVIOUS
  <2> USE DEF GoTypeOK, Requests, Pcs, GoTo, End
  <2>1. ASSUME NEW c \in Calls, Ask(c) PROVE Promise!Ask(c)
    BY <2>1 DEF Ask, Promise!Ask, Phase
  <2>2. ASSUME UNCHANGED <<Phase, runs>> PROVE [Promise!Next]_(Promise!vars)
    BY <2>2 DEF Promise!vars
  <2>3. ASSUME NEW p \in Procs, NEW r \in Requests, NEW kind \in Replies,
               Execute(p, r, kind)
        PROVE [Promise!Next]_(Promise!vars)
    <3>1. CASE r \notin Calls
      BY <2>2, <2>3, <3>1 DEF Execute, Phase
    <3>2. CASE r \in Calls
      <4>1. runs[r] = 0 /\ Begun(r) /\ pc[r] # "ok"
        BY <2>3, <3>2 DEF Execute, Message, OnceInv, CallIsOne, About
      <4>2. Promise!Run(r)
        BY <2>3, <3>2, <4>1 DEF Execute, Promise!Run, Phase, Begun
      <4>3. QED
        BY <3>2, <4>2 DEF Promise!Next
    <3>3. QED
      BY <3>1, <3>2
  <2>4. ASSUME NEW r \in Requests, CallStep(r) PROVE [Promise!Next]_(Promise!vars)
    <3>1. UNCHANGED runs
      BY <2>4 DEF CallStep, Look, EnterRunning, SpawnFails, Spawn, Validated,
                  Rejected, Reread, Insert, Send, SendRefused, Return, TimesOut
    <3>2. CASE Return(r) /\ result[r] = "ok" /\ r \in Calls
      <4>1. runs[r] = 1
        BY <3>2 DEF Return, OnceInv, CallIsOne
      <4>2. pc[r] \notin {"idle", "ok", "failed"} /\ pc' = [pc EXCEPT ![r] = "ok"]
        BY <3>2 DEF Return
      <4>3. Phase[r] = "asked" /\ Phase' = [Phase EXCEPT ![r] = "ok"]
        BY <3>2, <4>2 DEF Phase
      <4>4. Promise!Succeed(r)
        BY <3>1, <4>1, <4>3 DEF Promise!Succeed
      <4>5. QED
        BY <3>2, <4>4 DEF Promise!Next
    <3>3. CASE r \in Calls /\ pc[r] \notin {"idle", "ok", "failed"} /\ pc' = [pc EXCEPT ![r] = "failed"]
      BY <3>1, <3>3 DEF Promise!Fail, Promise!Next, Phase
    <3>4. CASE UNCHANGED Phase
      BY <2>2, <3>1, <3>4
    <3>5. \/ Return(r) /\ result[r] = "ok" /\ r \in Calls
          \/ r \in Calls /\ pc[r] \notin {"idle", "ok", "failed"} /\ pc' = [pc EXCEPT ![r] = "failed"]
          \/ UNCHANGED Phase
      BY <2>4 DEF CallStep, Look, EnterRunning, SpawnFails, Spawn, Validated,
                  Rejected, Reread, Insert, Send, SendRefused, Return, TimesOut, Phase
    <3>6. QED
      BY <3>2, <3>3, <3>4, <3>5
  <2>5. ASSUME NEW p \in Procs, WriterStep(p) \/ ReaderStep(p) \/ Dies(p)
        PROVE UNCHANGED <<Phase, runs>>
    BY <2>5 DEF WriterStep, Write, WriteFails, WriterDrops, WriterIdle, ReaderStep,
                ReadAnswer, ReaderEnds, ReaderCleans, Dies, Phase
  <2>6. CASE UNCHANGED goVars
    BY <2>2, <2>6 DEF goVars, Phase
  <2>7. QED
    BY <2>1, <2>2, <2>3, <2>4, <2>5, <2>6 DEF GoNext, ProcStep, Promise!Next
<1>3. QED
  BY <1>1, <1>2, OnceInvariant, PTL DEF GoSpec, AtMostOnce, Promise!Spec

-----------------------------------------------------------------------------
(* The tools.                                                                 *)

(* The three calls a tool makes are calls, and nobody else makes them.        *)
LEMMA ToolCalls ==
  ASSUME NEW t \in Tools, NEW step \in Steps
  PROVE  /\ <<t, step>> \in Calls /\ <<t, step>> \in Requests
         /\ <<t, step>> \notin UiCalls /\ <<t, step>> \notin Procs
  BY ToolsAssumption DEF Requests

(* Whatever the tools do is something the client does, or nothing to it.      *)
LEMMA ToolsStepClient == Next => [GoNext]_goVars
<1> SUFFICES ASSUME Next PROVE [GoNext]_goVars
  OBVIOUS
<1>1. ASSUME NEW t \in Tools, NEW step \in Steps, Ask(<<t, step>>) PROVE GoNext
  BY <1>1, ToolCalls DEF GoNext
<1>2. ASSUME NEW t \in Tools, ToolStep(t) PROVE [GoNext]_goVars
  <2>1. \/ UNCHANGED goVars
        \/ \E step \in Steps : Ask(<<t, step>>)
    BY <1>2 DEF ToolStep, ToolRefused, ToolStarts, ToolConnected, ToolWorks,
         ToolGivesUp, ToolCloses, ToolFails, ToolDone, Steps
  <2>2. QED
    BY <1>1, <2>1
<1>3. ASSUME NEW u \in UiCalls, UiForward(u) PROVE GoNext
  BY <1>3, ToolsAssumption DEF UiForward, GoNext
<1>4. ASSUME NEW r \in Requests, ClientStep(r) PROVE GoNext
  BY <1>4 DEF ClientStep, GoNext
<1>5. ASSUME NEW p \in Procs, TaskStep(p) PROVE GoNext
  BY <1>5 DEF TaskStep, GoNext
<1>6. ASSUME NEW p \in Procs, HandlerStep(p) PROVE GoNext
  <2>1. ASSUME NEW r \in Requests, NEW kind \in Replies, Execute(p, r, kind) PROVE GoNext
    BY <2>1 DEF GoNext, ProcStep
  <2>2. ASSUME NEW t \in Tools, NEW kind \in Replies,
               Connect(p, t, kind) \/ Work(p, t, kind) \/ Close(p, t, kind)
        PROVE  GoNext
    <3>1. PICK step \in Steps : Execute(p, <<t, step>>, kind)
      BY <2>2 DEF Connect, Work, Close, Steps
    <3>2. QED
      BY <2>1, <3>1, ToolCalls
  <2>3. ASSUME NEW r \in UiCalls \cup {p}, NEW kind \in Replies, Other(p, r, kind) PROVE GoNext
    BY <2>1, <2>3, ToolsAssumption DEF Other, Requests
  <2>4. CASE PoolDies(p)
    BY <2>4 DEF PoolDies, GoNext, ProcStep
  <2>5. QED
    BY <1>6, <2>2, <2>3, <2>4 DEF HandlerStep
<1>7. QED
  BY <1>2, <1>3, <1>4, <1>5, <1>6 DEF Next

(* The tools run on the client as it is specified by itself, so that what is  *)
(* proved of it holds of them (executors.rs over go_sidecar.rs).              *)
THEOREM ToolsUseClient == Spec => GoSpec
<1>1. Init => GoInit
  BY DEF Init
<1>2. [Next]_vars => [GoNext]_goVars
  BY ToolsStepClient DEF vars
<1>3. QED
  BY <1>1, <1>2, PTL DEF Spec, GoSpec

(* A call that was not made, or is over, is left alone by everything but the  *)
(* request for it; a process that runs goes on or dies.                       *)
LEMMA RestingCalls ==
  ASSUME GoTypeOK, NEW c \in Calls, pc[c] \in {"idle", "ok", "failed"},
         \/ \E r \in Requests : CallStep(r)
         \/ \E p \in Procs : WriterStep(p) \/ ReaderStep(p) \/ ProcStep(p)
  PROVE  pc'[c] = pc[c]
<1>1. ASSUME NEW p \in Procs, WriterStep(p) \/ ReaderStep(p) \/ ProcStep(p)
      PROVE  pc' = pc
  BY <1>1 DEF WriterStep, Write, WriteFails, WriterDrops, WriterIdle, ReaderStep,
              ReadAnswer, ReaderEnds, ReaderCleans, ProcStep, Execute, Dies
<1>2. ASSUME NEW r \in Requests, CallStep(r) PROVE pc'[c] = pc[c]
  <2>1. CASE \E p \in Procs : Spawn(r, p)
    <3>1. PICK p \in Procs : pc[r] = "lock" /\ pc' = [pc EXCEPT ![r] = "validate", ![p] = "look"]
      BY <2>1 DEF Spawn
    <3>2. QED
      BY <3>1 DEF GoTypeOK, Requests
  <2>2. CASE ~\E p \in Procs : Spawn(r, p)
    <3>1. /\ pc[r] \notin {"idle", "ok", "failed"}
          /\ \E to \in Pcs : pc' = [pc EXCEPT ![r] = to]
      BY <1>2, <2>2 DEF CallStep, Look, EnterRunning, SpawnFails, Validated, Rejected,
                  Reread, Insert, Send, SendRefused, Return, TimesOut, GoTo, End, Pcs
    <3>2. QED
      BY <3>1 DEF GoTypeOK, Requests
  <2>3. QED
    BY <2>1, <2>2
<1>3. QED
  BY <1>1, <1>2

LEMMA RunningOn ==
  ASSUME GoTypeOK, GoNext, NEW p \in Procs, proc[p] = "up"
  PROVE  proc'[p] \in {"up", "dead"}
<1> USE DEF Kill, GoTypeOK
<1>1. CASE UNCHANGED proc
  BY <1>1
<1>2. ASSUME NEW r \in Requests, CallStep(r) PROVE proc'[p] \in {"up", "dead"}
  BY <1>1, <1>2 DEF CallStep, Look, EnterRunning, SpawnFails, Spawn, Validated, Rejected,
                  Reread, Insert, Send, SendRefused, Return, TimesOut
<1>3. ASSUME NEW q \in Procs, WriterStep(q) \/ ReaderStep(q) \/ ProcStep(q)
      PROVE  proc'[p] \in {"up", "dead"}
  BY <1>1, <1>3 DEF WriterStep, Write, WriteFails, WriterDrops, WriterIdle, ReaderStep,
              ReadAnswer, ReaderEnds, ReaderCleans, ProcStep, Execute, Dies
<1>4. QED
  BY <1>1, <1>2, <1>3 DEF GoNext, Ask

(* The tools and the pools keep their types too.                              *)
THEOREM ToolsTypeCorrect == Spec => []TypeOK
<1>1. Init => TypeOK
  BY DEF Init, TypeOK, ToolPcs, GoInit, GoTypeOK, Requests, Pcs
<1>2. GoTypeOK' /\ TypeOK /\ [Next]_vars => TypeOK'
  <2> SUFFICES ASSUME GoTypeOK', TypeOK, [Next]_vars
               PROVE  /\ tool' \in [Tools -> [pc : ToolPcs, kind : Kinds \cup {Nobody}]]
                      /\ open' \in [Procs -> SUBSET Tools]
    BY DEF TypeOK
  <2>0. /\ tool \in [Tools -> [pc : ToolPcs, kind : Kinds \cup {Nobody}]]
        /\ open \in [Procs -> SUBSET Tools]
    BY DEF TypeOK
  <2>1. ASSUME UNCHANGED <<tool, open>> PROVE TypeOK'
    BY <2>0, <2>1 DEF TypeOK
  <2>2. ASSUME UNCHANGED tool, PoolsEnd PROVE TypeOK'
    BY <2>0, <2>2 DEF TypeOK, PoolsEnd
  <2>3. ASSUME NEW t \in Tools, UNCHANGED open, NEW to \in ToolPcs,
               \/ tool' = [tool EXCEPT ![t].pc = to]
               \/ \E kind \in Kinds : tool' = [tool EXCEPT ![t].pc = to, ![t].kind = kind]
        PROVE  TypeOK'
    <3>1. tool[t] \in [pc : ToolPcs, kind : Kinds \cup {Nobody}]
      BY <2>0
    <3>2. PICK e \in [pc : ToolPcs, kind : Kinds \cup {Nobody}] : tool' = [tool EXCEPT ![t] = e]
      <4>1. CASE tool' = [tool EXCEPT ![t].pc = to]
        <5>1. [tool[t] EXCEPT !.pc = to] \in [pc : ToolPcs, kind : Kinds \cup {Nobody}]
          BY <3>1
        <5>2. QED
          BY <4>1, <5>1
      <4>2. ASSUME NEW kind \in Kinds, tool' = [tool EXCEPT ![t].pc = to, ![t].kind = kind]
            PROVE  \E e \in [pc : ToolPcs, kind : Kinds \cup {Nobody}] :
                      tool' = [tool EXCEPT ![t] = e]
        <5>1. [tool[t] EXCEPT !.pc = to, !.kind = kind]
                \in [pc : ToolPcs, kind : Kinds \cup {Nobody}]
          BY <3>1
        <5>2. tool' = [tool EXCEPT ![t] = [tool[t] EXCEPT !.pc = to, !.kind = kind]]
          BY <4>2
        <5>3. QED
          BY <5>1, <5>2
      <4>3. QED
        BY <2>3, <4>1, <4>2
    <3>3. QED
      BY <2>0, <2>3, <3>2 DEF TypeOK
  <2>4. ASSUME NEW t \in Tools, ToolStep(t) PROVE TypeOK'
    BY <2>3, <2>4 DEF ToolStep, ToolRefused, ToolStarts, ToolConnected, ToolWorks, ToolGivesUp,
                      ToolCloses, ToolFails, ToolDone, Tool, ToolPcs
  <2>5. ASSUME NEW p \in Procs, NEW t \in Tools, NEW kind \in Replies,
               Connect(p, t, kind) \/ Work(p, t, kind) \/ Close(p, t, kind)
        PROVE  TypeOK'
    BY <2>0, <2>1, <2>5 DEF Connect, Work, Close, TypeOK
  <2>6. QED
    BY <2>1, <2>2, <2>4, <2>5 DEF Next, UiForward, ClientStep, TaskStep, HandlerStep,
       Other, PoolDies, vars, TypeOK
<1>3. QED
  BY <1>1, <1>2, ToolsUseClient, GoTypeCorrect, PTL DEF Spec

(* A tool makes its calls one after the other, each once its predecessor is   *)
(* over, and the last two only on a connection it was given.                  *)
InOrder(t) ==
  /\ tool[t].pc = "idle" => pc[<<t, "connect">>] = "idle"
  /\ tool[t].pc \in {"connected", "working", "closing"} => pc[<<t, "connect">>] = "ok"
  /\ tool[t].pc \in {"idle", "connecting", "connected"} => pc[<<t, "work">>] = "idle"
  /\ pc[<<t, "close">>] # "idle" =>
       tool[t].pc \in {"closing", "done"} /\ pc[<<t, "connect">>] = "ok"
  /\ tool[t].pc = "done" =>
       \/ pc[<<t, "work">>] \in {"idle", "failed"}
       \/ pc[<<t, "close">>] \in {"ok", "failed"}

ToolInv == \A t \in Tools : InOrder(t)

(* What is in a pool is in that of a process that runs, and has not been      *)
(* disconnected.                                                              *)
PoolInv ==
  \A t \in Tools, p \in Procs :
    t \in open[p] => proc[p] = "up" /\ runs[<<t, "close">>] = 0
(* What a step of a tool does to the other tools and to the calls.            *)
LEMMA ToolMoves ==
  ASSUME TypeOK, NEW t \in Tools, ToolStep(t)
  PROVE  /\ UNCHANGED <<open, proc, runs>>
         /\ \A u \in Tools : u # t => tool'[u] = tool[u]
         /\ \A u \in Tools, step \in Steps :
              u # t => pc'[<<u, step>>] = pc[<<u, step>>]
<1>1. UNCHANGED <<open, proc, runs>>
  BY DEF ToolStep, ToolRefused, ToolStarts, ToolConnected, ToolWorks,
         ToolGivesUp, ToolCloses, ToolFails, ToolDone, Tool, goVars, Ask
<1>2. ASSUME NEW u \in Tools, u # t PROVE tool'[u] = tool[u]
  BY <1>2 DEF TypeOK, ToolStep, ToolRefused, ToolStarts, ToolConnected, ToolWorks,
         ToolGivesUp, ToolCloses, ToolFails, ToolDone, Tool
<1>3. \/ UNCHANGED pc
      \/ \E step \in Steps : pc' = [pc EXCEPT ![<<t, step>>] = "look"]
  BY DEF ToolStep, ToolRefused, ToolStarts, ToolConnected, ToolWorks,
         ToolGivesUp, ToolCloses, ToolFails, ToolDone, Tool, goVars, Ask, GoTo, Steps
<1>4. ASSUME NEW u \in Tools, NEW step \in Steps, u # t
      PROVE  pc'[<<u, step>>] = pc[<<u, step>>]
  BY <1>3, <1>4, ToolCalls DEF TypeOK, GoTypeOK
<1>5. QED
  BY <1>1, <1>2, <1>4

LEMMA ToolInvariant == Spec => []ToolInv
<1> USE DEF TypeOK, GoTypeOK
<1>1. Init => ToolInv
  <2> SUFFICES ASSUME Init, NEW t \in Tools PROVE InOrder(t)
    BY DEF ToolInv
  <2>1. tool[t].pc = "idle" /\ pc = [r \in Requests |-> "idle"]
    BY DEF Init, GoInit
  <2>2. /\ <<t, "connect">> \in Requests /\ <<t, "work">> \in Requests
        /\ <<t, "close">> \in Requests
    BY ToolCalls DEF Steps
  <2>3. pc[<<t, "connect">>] = "idle" /\ pc[<<t, "work">>] = "idle" /\ pc[<<t, "close">>] = "idle"
    BY <2>1, <2>2
  <2>4. QED
    BY <2>1, <2>3 DEF InOrder
<1>2. TypeOK /\ ToolInv /\ [Next]_vars => ToolInv'
  <2> SUFFICES ASSUME TypeOK, ToolInv, [Next]_vars PROVE ToolInv'
    OBVIOUS
  <2>0. \A t \in Tools : InOrder(t)
    BY DEF ToolInv
  <2>1. ASSUME UNCHANGED tool,
               \A t \in Tools, step \in Steps :
                 pc[<<t, step>>] \in {"idle", "ok", "failed"} => pc'[<<t, step>>] = pc[<<t, step>>]
        PROVE  ToolInv'
    <3> SUFFICES ASSUME NEW t \in Tools PROVE InOrder(t)'
      BY DEF ToolInv
    <3>1. /\ "connect" \in Steps /\ "work" \in Steps /\ "close" \in Steps
      BY DEF Steps
    <3>2. QED
      BY <2>0, <2>1, <3>1 DEF InOrder
  <2>2. ASSUME NEW t \in Tools, ToolStep(t) PROVE ToolInv'
    <3> DEFINE co == <<t, "connect">>
               wo == <<t, "work">>
               cl == <<t, "close">>
    <3>1. ASSUME NEW u \in Tools, u # t PROVE InOrder(u)'
      <4>1. /\ tool'[u] = tool[u]
            /\ pc'[<<u, "connect">>] = pc[<<u, "connect">>]
            /\ pc'[<<u, "work">>] = pc[<<u, "work">>]
            /\ pc'[<<u, "close">>] = pc[<<u, "close">>]
        BY <2>2, <3>1, ToolMoves DEF Steps
      <4>2. QED
        BY <2>0, <4>1 DEF InOrder
    <3>2. /\ co \in Requests /\ wo \in Requests /\ cl \in Requests
          /\ co # wo /\ co # cl /\ wo # cl
      BY ToolCalls DEF Steps
    <3>3. /\ tool[t].pc = "idle" => pc[co] = "idle"
          /\ tool[t].pc \in {"connected", "working", "closing"} => pc[co] = "ok"
          /\ tool[t].pc \in {"idle", "connecting", "connected"} => pc[wo] = "idle"
          /\ pc[cl] # "idle" => tool[t].pc \in {"closing", "done"} /\ pc[co] = "ok"
          /\ tool[t].pc = "done" => pc[wo] \in {"idle", "failed"} \/ pc[cl] \in {"ok", "failed"}
      BY <2>0 DEF InOrder
    <3> DEFINE Goal == /\ tool'[t].pc = "idle" => pc'[co] = "idle"
                       /\ tool'[t].pc \in {"connected", "working", "closing"} => pc'[co] = "ok"
                       /\ tool'[t].pc \in {"idle", "connecting", "connected"} => pc'[wo] = "idle"
                       /\ pc'[cl] # "idle" =>
                            tool'[t].pc \in {"closing", "done"} /\ pc'[co] = "ok"
                       /\ tool'[t].pc = "done" =>
                            pc'[wo] \in {"idle", "failed"} \/ pc'[cl] \in {"ok", "failed"}
    <3>4. Goal
      <4> HIDE DEF co, wo, cl
      <4>2. ASSUME NEW kind \in Kinds, ToolRefused(t, kind) PROVE Goal
        <5>1. tool[t].pc = "idle" /\ tool'[t].pc = "done" /\ UNCHANGED pc
          BY <4>2 DEF ToolRefused, goVars
        <5>2. QED
          BY <3>3, <5>1
      <4>3. ASSUME NEW kind \in Kinds, ToolStarts(t, kind) PROVE Goal
        <5>1. /\ tool[t].pc = "idle" /\ tool'[t].pc = "connecting"
              /\ pc' = [pc EXCEPT ![co] = "look"]
          BY <4>3 DEF ToolStarts, Ask, GoTo, co
        <5>2. QED
          BY <3>2, <3>3, <5>1
      <4>4. CASE ToolConnected(t)
        <5>1. /\ tool[t].pc = "connecting" /\ UNCHANGED pc
              /\ tool'[t].pc = IF pc[co] = "ok" THEN "connected" ELSE "done"
          BY <4>4 DEF ToolConnected, goVars, co
        <5>2. QED
          BY <3>3, <5>1
      <4>5. CASE ToolWorks(t)
        <5>1. /\ tool[t].pc = "connected" /\ tool'[t].pc = "working"
              /\ pc' = [pc EXCEPT ![wo] = "look"]
          BY <4>5 DEF ToolWorks, Tool, Ask, GoTo, wo
        <5>2. QED
          BY <3>2, <3>3, <5>1
      <4>6. CASE ToolGivesUp(t)
        <5>1. tool[t].pc = "connected" /\ tool'[t].pc = "done" /\ UNCHANGED pc
          BY <4>6 DEF ToolGivesUp, goVars
        <5>2. QED
          BY <3>3, <5>1
      <4>7. CASE ToolCloses(t)
        <5>1. /\ tool[t].pc = "working" /\ tool'[t].pc = "closing"
              /\ pc' = [pc EXCEPT ![cl] = "look"]
          BY <4>7 DEF ToolCloses, Ask, GoTo, cl
        <5>2. QED
          BY <3>2, <3>3, <5>1
      <4>8. CASE ToolFails(t)
        <5>1. /\ tool[t].pc = "working" /\ tool'[t].pc = "done" /\ UNCHANGED pc
              /\ pc[wo] = "failed"
          BY <4>8 DEF ToolFails, goVars, wo
        <5>2. QED
          BY <3>3, <5>1
      <4>9. CASE ToolDone(t)
        <5>1. /\ tool[t].pc = "closing" /\ tool'[t].pc = "done" /\ UNCHANGED pc
              /\ pc[cl] \in {"ok", "failed"}
          BY <4>9 DEF ToolDone, Tool, Ended, goVars, cl
        <5>2. QED
          BY <3>3, <5>1
      <4>10. QED
        BY <2>2, <4>2, <4>3, <4>4, <4>5, <4>6, <4>7, <4>8, <4>9 DEF ToolStep
    <3>5. InOrder(t)'
      BY <3>4 DEF InOrder
    <3>6. QED
      BY <3>1, <3>5 DEF ToolInv
  <2>3. ASSUME NEW u \in UiCalls, UiForward(u) PROVE ToolInv'
    <3>1. UNCHANGED tool /\ pc' = [pc EXCEPT ![u] = "look"]
      BY <2>3 DEF UiForward, Ask, GoTo
    <3>2. \A t \in Tools, step \in Steps : pc'[<<t, step>>] = pc[<<t, step>>]
      <4> TAKE t \in Tools, step \in Steps
      <4>1. <<t, step>> \in Requests /\ <<t, step>> # u
        BY ToolCalls
      <4>2. QED
        BY <3>1, <4>1
    <3>3. QED
      BY <2>1, <3>1, <3>2
  <2>4. ASSUME UNCHANGED tool,
               \/ \E r \in Requests : CallStep(r)
               \/ \E p \in Procs : WriterStep(p) \/ ReaderStep(p) \/ ProcStep(p)
        PROVE  ToolInv'
    <3>1. \A t \in Tools, step \in Steps :
            pc[<<t, step>>] \in {"idle", "ok", "failed"} => pc'[<<t, step>>] = pc[<<t, step>>]
      BY <2>4, RestingCalls, ToolCalls
    <3>2. QED
      BY <2>1, <2>4, <3>1
  <2>5. ASSUME NEW p \in Procs, HandlerStep(p) PROVE ToolInv'
    <3>1. \/ \E r : UNCHANGED <<tool, pc>> /\ \E kind \in Replies : Execute(p, r, kind)
          \/ Dies(p) /\ UNCHANGED <<tool, pc>>
      BY <2>5 DEF HandlerStep, Connect, Work, Close, Other, PoolDies, Execute, Dies
    <3>2. QED
      BY <2>1, <3>1
  <2>6. CASE UNCHANGED vars
    BY <2>1, <2>6 DEF vars, goVars
  <2>7. QED
    BY <2>2, <2>3, <2>4, <2>5, <2>6 DEF Next, ClientStep, TaskStep
<1>3. QED
  BY <1>1, <1>2, ToolsTypeCorrect, PTL DEF Spec

LEMMA PoolInvariant == Spec => []PoolInv
<1> DEFINE Known == TypeOK /\ OnceInv /\ RunningIsRegistered /\ ToolInv
<1>1. Init => PoolInv
  BY DEF Init, PoolInv
<1>2. Known /\ PoolInv /\ [Next]_vars => PoolInv'
  <2> SUFFICES ASSUME Known, PoolInv, [Next]_vars PROVE PoolInv'
    OBVIOUS
  <2>0. /\ TypeOK /\ GoTypeOK /\ OnceInv /\ RunningIsRegistered /\ ToolInv
        /\ open \in [Procs -> SUBSET Tools]
        /\ \A t \in Tools, p \in Procs :
             t \in open[p] => proc[p] = "up" /\ runs[<<t, "close">>] = 0
    BY DEF TypeOK, PoolInv
  <2>1. ASSUME UNCHANGED <<open, proc, runs>> PROVE PoolInv'
    BY <2>0, <2>1 DEF PoolInv
  <2>2. ASSUME GoNext, PoolsEnd, UNCHANGED runs PROVE PoolInv'
    <3> SUFFICES ASSUME NEW t \in Tools, NEW p \in Procs, t \in open'[p]
                 PROVE  proc'[p] = "up" /\ runs'[<<t, "close">>] = 0
      BY DEF PoolInv
    <3>1. t \in open[p] /\ proc'[p] # "dead"
      BY <2>2 DEF PoolsEnd
    <3>2. QED
      BY <2>0, <2>2, <3>1, RunningOn
  <2>3. ASSUME NEW t \in Tools, ToolStep(t) PROVE PoolInv'
    BY <2>0, <2>1, <2>3, ToolMoves
  <2>4. ASSUME NEW r \in Requests, ClientStep(r) PROVE PoolInv'
    <3>1. GoNext /\ PoolsEnd
      BY <2>4 DEF ClientStep, GoNext
    <3>2. UNCHANGED runs
      BY <2>4 DEF ClientStep, CallStep, Look, EnterRunning, SpawnFails, Spawn, Validated,
         Rejected, Reread, Insert, Send, SendRefused, Return, TimesOut
    <3>3. QED
      BY <2>2, <3>1, <3>2
  <2>5. ASSUME NEW p \in Procs, TaskStep(p) \/ PoolDies(p) PROVE PoolInv'
    <3>1. GoNext /\ PoolsEnd
      BY <2>5 DEF TaskStep, PoolDies, GoNext, ProcStep
    <3>2. UNCHANGED runs
      BY <2>5 DEF TaskStep, PoolDies, WriterStep, Write, WriteFails, WriterDrops, WriterIdle,
         ReaderStep, ReadAnswer, ReaderEnds, ReaderCleans, Dies
    <3>3. QED
      BY <2>2, <3>1, <3>2
  <2>6. ASSUME NEW p \in Procs, NEW r \in Requests, NEW kind \in Replies, Execute(p, r, kind)
        PROVE  /\ proc' = proc /\ proc[p] = "up"
               /\ r \in Calls => runs[r] = 0 /\ Begun(r)
               /\ \A c \in Calls : c # r => runs'[c] = runs[c]
    <3>1. /\ proc' = proc /\ proc[p] = "up" /\ Message(r, p, "sent") \in wire
          /\ runs' = IF r \in Calls THEN [runs EXCEPT ![r] = @ + 1] ELSE runs
      BY <2>6 DEF Execute
    <3>2. r \in Calls => runs[r] = 0 /\ Begun(r)
      <4>1. Message(r, p, "sent") \in About(r) /\ Message(r, p, "sent").as = "sent"
        BY <3>1 DEF About, Message
      <4>2. QED
        BY <2>0, <4>1 DEF OnceInv, CallIsOne
    <3>3. QED
      BY <2>0, <3>1, <3>2 DEF GoTypeOK
  <2>7. ASSUME NEW p \in Procs, NEW t \in Tools, NEW kind \in Replies, Connect(p, t, kind)
        PROVE  PoolInv'
    <3> DEFINE co == <<t, "connect">>
    <3>1. /\ co \in Calls /\ co \in Requests
          /\ \A u \in Tools : <<u, "close">> \in Calls /\ <<u, "close">> # co
      BY ToolCalls DEF Steps
    <3>2. /\ proc' = proc /\ proc[p] = "up" /\ runs[co] = 0
          /\ \A u \in Tools : runs'[<<u, "close">>] = runs[<<u, "close">>]
      BY <2>6, <2>7, <3>1 DEF Connect
    <3>3. runs[<<t, "close">>] = 0
      <4>1. pc[co] # "ok"
        BY <2>0, <3>1, <3>2 DEF OnceInv, CallIsOne
      <4>2. pc[<<t, "close">>] = "idle"
        BY <2>0, <4>1 DEF ToolInv, InOrder
      <4>3. QED
        BY <2>0, <3>1, <4>2 DEF OnceInv, CallIsOne, Begun
    <3>4. \A q \in Procs : open'[q] \subseteq open[q] \cup (IF q = p THEN {t} ELSE {})
      BY <2>0, <2>7 DEF Connect
    <3>5. QED
      BY <2>0, <3>2, <3>3, <3>4 DEF PoolInv
  <2>8. ASSUME NEW p \in Procs, NEW t \in Tools, NEW kind \in Replies, Work(p, t, kind)
        PROVE  PoolInv'
    <3> DEFINE wo == <<t, "work">>
    <3>1. /\ wo \in Requests
          /\ \A u \in Tools : <<u, "close">> \in Calls /\ <<u, "close">> # wo
      BY ToolCalls DEF Steps
    <3>2. /\ proc' = proc /\ open' = open
          /\ \A u \in Tools : runs'[<<u, "close">>] = runs[<<u, "close">>]
      BY <2>6, <2>8, <3>1 DEF Work
    <3>3. QED
      BY <2>0, <3>2 DEF PoolInv
  <2>9. ASSUME NEW p \in Procs, NEW t \in Tools, NEW kind \in Replies, Close(p, t, kind)
        PROVE  PoolInv'
    <3> DEFINE cl == <<t, "close">>
    <3>1. /\ cl \in Requests
          /\ \A u \in Tools : <<u, "close">> \in Calls /\ (u # t => <<u, "close">> # cl)
      BY ToolCalls DEF Steps
    <3>2. /\ proc' = proc /\ proc[p] = "up"
          /\ \A u \in Tools : u # t => runs'[<<u, "close">>] = runs[<<u, "close">>]
      BY <2>6, <2>9, <3>1 DEF Close
    <3>3. /\ open'[p] = open[p] \ {t}
          /\ \A q \in Procs : q # p => open'[q] = open[q]
      BY <2>0, <2>9 DEF Close
    <3>4. \A q \in Procs : q # p => open[q] = {}
      BY <2>0, <3>2 DEF RunningIsRegistered
    <3>5. QED
      BY <2>0, <3>2, <3>3, <3>4 DEF PoolInv
  <2>10. ASSUME NEW p \in Procs, NEW r \in UiCalls \cup {p}, NEW kind \in Replies,
                Other(p, r, kind)
         PROVE  PoolInv'
    <3>1. /\ r \in Requests
          /\ \A u \in Tools : <<u, "close">> \in Calls /\ <<u, "close">> # r
      BY ToolCalls, ToolsAssumption DEF Steps, Requests
    <3>2. /\ proc' = proc /\ open' = open
          /\ \A u \in Tools : runs'[<<u, "close">>] = runs[<<u, "close">>]
      BY <2>6, <2>10, <3>1 DEF Other
    <3>3. QED
      BY <2>0, <3>2 DEF PoolInv
  <2>11. QED
    BY <2>1, <2>3, <2>4, <2>5, <2>7, <2>8, <2>9, <2>10
       DEF Next, UiForward, Ask, HandlerStep, vars, goVars
<1>3. Spec => [](GoTypeOK /\ OnceInv) /\ []RunningIsRegistered
  BY ToolsUseClient, OnceInvariant, RunningCorrect, PTL
<1>4. QED
  BY <1>1, <1>2, <1>3, ToolsTypeCorrect, ToolInvariant, PTL DEF Spec

(* A tool call that succeeded leaves no connection behind, in whichever       *)
(* process it was made, unless its disconnect was not answered (executors.rs, *)
(* pool/manager.go).                                                          *)
THEOREM SuccessCorrect == Spec => []SuccessLeavesNothing
<1>1. OnceInv /\ ToolInv /\ PoolInv => SuccessLeavesNothing
  <2> SUFFICES ASSUME OnceInv, ToolInv, PoolInv, NEW t \in Tools,
                      Leaks(t), pc[<<t, "work">>] = "ok"
               PROVE  pc[<<t, "close">>] = "failed"
    BY DEF SuccessLeavesNothing
  <2>1. pc[<<t, "close">>] \in {"ok", "failed"}
    BY DEF Leaks, ToolInv, InOrder
  <2>2. runs[<<t, "close">>] = 0
    BY DEF Leaks, PoolInv
  <2>3. <<t, "close">> \in Calls
    BY ToolCalls DEF Steps
  <2>4. QED
    BY <2>1, <2>2, <2>3 DEF OnceInv, CallIsOne
<1>2. Spec => [](GoTypeOK /\ OnceInv)
  BY ToolsUseClient, OnceInvariant, PTL
<1>3. QED
  BY <1>1, <1>2, ToolInvariant, PoolInvariant, PTL
=============================================================================
