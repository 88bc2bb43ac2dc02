-------------------------------- MODULE DbTools --------------------------------
(* The database and docker tools (starhub-domain-db/src/executors.rs) over the *)
(* client of the Go process, with that process's pool of connections           *)
(* (src/sidecar/pool/manager.go).  A tool call connects, works on the          *)
(* connection it was given and disconnects, as three calls that may each find  *)
(* another process than the one before.                                        *)
EXTENDS GoClient

CONSTANTS Tools,    \* the tool calls
          UiCalls,  \* calls that panels make and ui_db forwards as they are
          Family,   \* which tools they are: db_query, redis_exec, es_*, docker_*
          Kinds     \* kinds of the assets they are given: a dbType, or docker

Steps == {"connect", "work", "close"}

ASSUME ToolsAssumption ==
  /\ Calls = (Tools \X Steps) \cup UiCalls
  /\ UiCalls \cap (Tools \X Steps) = {}
  /\ Family \in {"db_query", "redis_exec", "es", "docker"}
  /\ Kinds \subseteq {"mysql", "postgresql", "clickhouse", "sqlite", "mssql",
                      "redis", "elasticsearch", "docker"}

VARIABLES tool,    \* tool[t]: the tool call t
          open     \* open[p]: the connections in the pool of process p

vars == <<goVars, tool, open>>

ToolPcs == {"idle", "connecting", "connected", "working", "closing", "done"}

TypeOK ==
  /\ GoTypeOK
  /\ tool \in [Tools -> [pc : ToolPcs, kind : Kinds \cup {Nobody}]]
  /\ open \in [Procs -> SUBSET Tools]

Init ==
  /\ GoInit
  /\ tool = [t \in Tools |-> [pc |-> "idle", kind |-> Nobody]]
  /\ open = [p \in Procs |-> {}]

-----------------------------------------------------------------------------
Ended(c) == pc[c] \in {"ok", "failed"}

(* check_tool_asset_type: a tool is only given assets of its own kinds.       *)
Permits(kind) ==
  \/ Family = "db_query"
     /\ kind \in {"mysql", "postgresql", "clickhouse", "sqlite", "mssql"}
  \/ Family = "redis_exec" /\ kind = "redis"
  \/ Family = "es" /\ kind = "elasticsearch"
  \/ Family = "docker" /\ kind = "docker"

(* connect_sidecar: which adapter an asset of a kind is connected with.      *)
Adapter(kind) == IF kind \in {"sqlite", "mssql"} THEN "mysql" ELSE kind

(* The Go handlers check what kind of connection they are given: the method  *)
(* of db_query is the one for relational databases whatever the asset is.    *)
Accepts(kind) ==
  \/ Adapter(kind) \in {"mysql", "postgresql"}
  \/ kind \in {"redis", "elasticsearch", "docker"}

(* Most es_* tools keep the error of their call and disconnect before they   *)
(* return it; es_list_indices, es_search and all other tools return at once. *)
MayCloseAfterError(kind) == kind = "elasticsearch"

Tool(t, pcNow, pcNext) ==
  /\ tool[t].pc = pcNow
  /\ tool' = [tool EXCEPT ![t].pc = pcNext]

UiForward(u) == Ask(u) /\ UNCHANGED <<tool, open>>

(* The asset is not bound, not of the tool's kind or does not exist, or the  *)
(* arguments are refused: no call is made.                                   *)
ToolRefused(t, kind) ==
  /\ tool[t].pc = "idle"
  /\ tool' = [tool EXCEPT ![t].pc = "done", ![t].kind = kind]
  /\ UNCHANGED <<goVars, open>>

ToolStarts(t, kind) ==
  /\ tool[t].pc = "idle"
  /\ Permits(kind)
  /\ tool' = [tool EXCEPT ![t].pc = "connecting", ![t].kind = kind]
  /\ Ask(<<t, "connect">>)
  /\ UNCHANGED open

ToolConnected(t) ==
  /\ tool[t].pc = "connecting"
  /\ Ended(<<t, "connect">>)
  /\ tool' = [tool EXCEPT
       ![t].pc = IF pc[<<t, "connect">>] = "ok" THEN "connected" ELSE "done"]
  /\ UNCHANGED <<goVars, open>>

ToolWorks(t) ==
  /\ Tool(t, "connected", "working")
  /\ Ask(<<t, "work">>)
  /\ UNCHANGED open

(* es_search and es_index_document connect before they parse their argument. *)
ToolGivesUp(t) ==
  /\ tool[t].pc = "connected"
  /\ tool[t].kind = "elasticsearch"
  /\ tool' = [tool EXCEPT ![t].pc = "done"]
  /\ UNCHANGED <<goVars, open>>

ToolCloses(t) ==
  /\ Ended(<<t, "work">>)
  /\ pc[<<t, "work">>] = "ok" \/ MayCloseAfterError(tool[t].kind)
  /\ tool[t].pc = "working"
  /\ tool' = [tool EXCEPT ![t].pc = "closing"]
  /\ Ask(<<t, "close">>)
  /\ UNCHANGED open

(* Mutant: what the call returned is not looked at.                          *)
ToolFailsAny(t) ==
  /\ tool[t].pc = "working"
  /\ Ended(<<t, "work">>)
  /\ tool' = [tool EXCEPT ![t].pc = "done"]
  /\ UNCHANGED <<goVars, open>>

ToolFails(t) ==
  /\ tool[t].pc = "working"
  /\ pc[<<t, "work">>] = "failed"
  /\ tool' = [tool EXCEPT ![t].pc = "done"]
  /\ UNCHANGED <<goVars, open>>

(* Whether the disconnect came through is not looked at.                     *)
ToolDone(t) ==
  /\ Ended(<<t, "close">>)
  /\ Tool(t, "closing", "done")
  /\ UNCHANGED <<goVars, open>>

-----------------------------------------------------------------------------
(* The handlers of the Go process.  A connect that works registers; work     *)
(* needs a registered connection of the right kind; a disconnect of an       *)
(* unknown connection is a success.                                          *)
Connect(p, t, kind) ==
  /\ Execute(p, <<t, "connect">>, kind)
  /\ \/ kind # "bad" /\ open' = [open EXCEPT ![p] = @ \cup {t}]
     \/ kind \in {"bad", "gone"} /\ UNCHANGED open
  /\ UNCHANGED tool

Work(p, t, kind) ==
  /\ Execute(p, <<t, "work">>, kind)
  /\ kind = "ok" => t \in open[p] /\ Accepts(tool[t].kind)
  /\ UNCHANGED <<tool, open>>

Close(p, t, kind) ==
  /\ Execute(p, <<t, "close">>, kind)
  /\ open' = [open EXCEPT ![p] = @ \ {t}]
  /\ UNCHANGED tool

(* Validation and panels' calls leave the tools' connections alone.          *)
Other(p, r, kind) == Execute(p, r, kind) /\ UNCHANGED <<tool, open>>

(* A pool ends with its process, however that ends.                          *)
PoolsEnd ==
  open' = [p \in Procs |-> IF proc'[p] = "dead" THEN {} ELSE open[p]]

PoolDies(p) == Dies(p) /\ PoolsEnd /\ UNCHANGED tool

-----------------------------------------------------------------------------
ToolStep(t) ==
  \/ \E kind \in Kinds : ToolRefused(t, kind) \/ ToolStarts(t, kind)
  \/ ToolConnected(t) \/ ToolWorks(t) \/ ToolGivesUp(t) \/ ToolCloses(t)
  \/ ToolFails(t) \/ ToolDone(t)

ClientStep(r) == CallStep(r) /\ PoolsEnd /\ UNCHANGED tool
TaskStep(p) == (WriterStep(p) \/ ReaderStep(p)) /\ PoolsEnd /\ UNCHANGED tool

HandlerStep(p) ==
  \/ \E t \in Tools, kind \in Replies :
       Connect(p, t, kind) \/ Work(p, t, kind) \/ Close(p, t, kind)
  \/ \E r \in UiCalls \cup {p}, kind \in Replies : Other(p, r, kind)
  \/ PoolDies(p)

Next ==
  \/ \E t \in Tools : ToolStep(t)
  \/ \E u \in UiCalls : UiForward(u)
  \/ \E r \in Requests : ClientStep(r)
  \/ \E p \in Procs : TaskStep(p) \/ HandlerStep(p)

Spec == Init /\ [][Next]_vars

-----------------------------------------------------------------------------
(* What goes on by itself: a caller until it waits for room in a queue or    *)
(* for an answer, and then until its time limit; a reader; a writer whose    *)
(* process has ended.  Nothing is asked of a process, which may never read,  *)
(* answer or end: a writer may wait for it for ever (write_all and tx.send   *)
(* have no time limit), so Write is not fair.                                *)
UnhinderedStep(p) ==
  /\ \/ ReaderStep(p) \/ WriterDrops(p) \/ WriterIdle(p)
     \/ \E r \in Requests : WriteFails(p, r)
  /\ PoolsEnd
  /\ UNCHANGED tool

Fairness ==
  /\ \A r \in Requests : WF_vars(ClientStep(r))
  /\ \A p \in Procs : WF_vars(UnhinderedStep(p))
  /\ \A t \in Tools : WF_vars(ToolConnected(t) \/ ToolWorks(t) \/ ToolGivesUp(t)
                                \/ ToolCloses(t) \/ ToolFails(t) \/ ToolDone(t))

FairSpec == Spec /\ Fairness

(* A call waits for room in the queue of a process that runs.                *)
WaitsForRoom ==
  \E r \in Requests : /\ pc[r] = "send" /\ proc[target[r]] = "up"
                      /\ Cardinality(Queued(target[r])) = QueueCap

(* Processes that never answer, never start, die at any moment or answer     *)
(* what cannot be read do not keep a tool call: it ends.  Two things keep    *)
(* it: a process that runs and reads nothing while its queue is full, and a  *)
(* start lock that is never given back (NeverWaitsForItself).                *)
ToolsEnd ==
  \/ \A t \in Tools : tool[t].pc = "connecting" ~> tool[t].pc = "done"
  \/ <>[]WaitsForRoom
  \/ <>[]WaitsForItself

(* A connection of a tool call that is over, in a process that still runs.   *)
Leaks(t) ==
  tool[t].pc = "done" /\ \E p \in Procs : proc[p] = "up" /\ t \in open[p]

(* A tool call that succeeded leaves no connection behind, in whichever      *)
(* process it was made, unless its disconnect was not answered.              *)
SuccessLeavesNothing ==
  \A t \in Tools :
    Leaks(t) /\ pc[<<t, "work">>] = "ok" => pc[<<t, "close">>] = "failed"

(* The claim for every tool call: the connection ends with the call.         *)
LeavesNothing == \A t \in Tools : ~Leaks(t)

(* The claim that a query which reaches its connection is not refused for    *)
(* the kind of its asset.                                                    *)
QueriesAreAccepted ==
  \A t \in Tools : tool[t].pc = "working" => Accepts(tool[t].kind)
=============================================================================
