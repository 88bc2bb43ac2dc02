------------------------------- MODULE GoClient -------------------------------
(* The client of the Go process (starhub-domain-db/src/go_sidecar.rs): the    *)
(* process is started by the first call and again by the first call after it  *)
(* ended, each process has a writer task and a reader task, and all of them   *)
(* share one slot for the sending end, one for the child and one table of     *)
(* pending requests.  A fresh process is validated by a call of its own, made *)
(* by the task that holds the start lock: that call runs through the same     *)
(* code, so it is a request like any other, named after its process.          *)
EXTENDS Naturals, FiniteSets

CONSTANTS Calls,      \* the calls made through GoSidecar::call
          Procs,      \* the processes that can be spawned
          Replies,    \* what can become of a request that is taken up
          QueueCap,   \* requests that fit between callers and writer (100)
          Nobody      \* no process, no request

ASSUME GoAssumption ==
  /\ Nobody \notin Calls \cup Procs
  /\ Calls \cap Procs = {}
  /\ Replies \subseteq {"ok", "bad", "gone"}
  /\ QueueCap \in Nat \ {0}
  /\ IsFiniteSet(Calls)
  /\ IsFiniteSet(Procs)

VARIABLES slot,       \* tx: the process whose sending end is registered
          child,      \* child: the process whose handle is kept
          startLock,  \* start_lock: the request whose task holds it
          pending,    \* the requests whose response sender is in the table
          pc,         \* pc[r]: where call_with_timeout is for request r
          target,     \* target[r]: the process whose sending end r holds, or that
                      \* r has spawned and is validating
          wire,       \* the requests and answers under way: whose, to or from
                      \* which process, and how far
          result,     \* result[r]: what came through the response channel
          proc,       \* proc[p]: the process on the machine
          writer,     \* writer[p]: its write_loop
          reader,     \* reader[p]: its read_loop
          runs        \* runs[c]: how often a handler took c up (history)

tableVars == <<slot, child, startLock>>
goVars == <<slot, child, startLock, pending, pc, target, wire, result,
            proc, writer, reader, runs>>

Requests == Calls \cup Procs
Pcs == {"idle", "look", "lock", "validate", "reread", "insert", "send",
        "wait", "ok", "failed"}
(* An answer on the wire: a result, or an rpc error (for a validating call   *)
(* also a version that is not compatible).                                   *)
Answers == {"ok", "bad"}

GoTypeOK ==
  /\ slot \in Procs \cup {Nobody}
  /\ child \in Procs \cup {Nobody}
  /\ startLock \in Requests \cup {Nobody}
  /\ pending \subseteq Requests
  /\ pc \in [Requests -> Pcs]
  /\ target \in [Requests -> Procs \cup {Nobody}]
  /\ wire \subseteq [req : Requests, at : Procs, as : {"queued", "sent"} \cup Answers]
  /\ result \in [Requests -> {"none", "ok", "bad", "lost"}]
  /\ proc \in [Procs -> {"unborn", "up", "dead"}]
  /\ writer \in [Procs -> {"none", "up", "ending", "gone"}]
  /\ reader \in [Procs -> {"none", "up", "cleaning", "gone"}]
  /\ runs \in [Calls -> Nat]

GoInit ==
  /\ slot = Nobody
  /\ child = Nobody
  /\ startLock = Nobody
  /\ pending = {}
  /\ pc = [r \in Requests |-> "idle"]
  /\ target = [r \in Requests |-> Nobody]
  /\ wire = {}
  /\ result = [r \in Requests |-> "none"]
  /\ proc = [p \in Procs |-> "unborn"]
  /\ writer = [p \in Procs |-> "none"]
  /\ reader = [p \in Procs |-> "none"]
  /\ runs = [c \in Calls |-> 0]

-----------------------------------------------------------------------------
(* call_with_timeout                                                         *)
GoTo(r, to) == pc' = [pc EXCEPT ![r] = to]

(* The call is over and lets go of its sending end.                          *)
End(r, how) == GoTo(r, how) /\ target' = [target EXCEPT ![r] = Nobody]

Message(r, p, as) == [req |-> r, at |-> p, as |-> as]

Ask(c) ==
  /\ pc[c] = "idle"
  /\ GoTo(c, "look")
  /\ UNCHANGED <<slot, child, startLock, pending, target, wire, result>>
  /\ UNCHANGED <<proc, writer, reader, runs>>

(* The slot is looked at: a registered process is used as it is, validated   *)
(* or not; without one the caller starts a process itself.                   *)
Look(r) ==
  /\ pc[r] = "look"
  /\ IF slot # Nobody
     THEN GoTo(r, "insert") /\ target' = [target EXCEPT ![r] = slot]
     ELSE GoTo(r, "lock") /\ UNCHANGED target
  /\ UNCHANGED <<slot, child, startLock, pending, wire, result>>
  /\ UNCHANGED <<proc, writer, reader, runs>>

(* What the end of process p does to the wire: requests it had read are lost, *)
(* what it had answered can still be read.                                   *)
Lost(p) == {m \in wire : ~(m.at = p /\ m.as = "sent")}

Kill(p) ==
  IF p # Nobody
  THEN proc' = [proc EXCEPT ![p] = "dead"] /\ wire' = Lost(p)
  ELSE UNCHANGED <<proc, wire>>

(* start_inner: a process was registered while r waited for the lock.        *)
EnterRunning(r) ==
  /\ pc[r] = "lock"
  /\ startLock = Nobody
  /\ slot # Nobody
  /\ GoTo(r, "reread")
  /\ UNCHANGED <<slot, child, startLock, pending, target, wire, result>>
  /\ UNCHANGED <<proc, writer, reader, runs>>

(* ... no program is found, or it cannot be spawned ...                      *)
SpawnFails(r) ==
  /\ pc[r] = "lock"
  /\ startLock = Nobody
  /\ slot = Nobody
  /\ End(r, "failed")
  /\ UNCHANGED <<slot, child, startLock, pending, wire, result>>
  /\ UNCHANGED <<proc, writer, reader, runs>>

(* Which of the processes that do not exist yet is spawned makes no odds.     *)
Fresh == CHOOSE p \in Procs : proc[p] = "unborn"

(* ... or it is spawned and registered, its tasks start, and its validating  *)
(* call begins under the lock.  The handle that is replaced kills its child. *)
Spawn(r, p) ==
  /\ pc[r] = "lock"
  /\ startLock = Nobody
  /\ slot = Nobody
  /\ proc[p] = "unborn" /\ p = Fresh
  /\ startLock' = r
  /\ slot' = p
  /\ child' = p
  /\ proc' = [q \in Procs |-> IF q = p THEN "up"
                              ELSE IF q = child THEN "dead" ELSE proc[q]]
  /\ wire' = IF child # Nobody THEN Lost(child) ELSE wire
  /\ writer' = [writer EXCEPT ![p] = "up"]
  /\ reader' = [reader EXCEPT ![p] = "up"]
  /\ target' = [target EXCEPT ![r] = p]
  /\ pc' = [pc EXCEPT ![r] = "validate", ![p] = "look"]
  /\ UNCHANGED <<pending, result, runs>>

Validated(r, p) ==
  /\ pc[r] = "validate"
  /\ target[r] = p
  /\ pc[p] = "ok"
  /\ startLock' = Nobody
  /\ GoTo(r, "reread")
  /\ target' = [target EXCEPT ![r] = Nobody]
  /\ UNCHANGED <<slot, child, pending, wire, result>>
  /\ UNCHANGED <<proc, writer, reader, runs>>

(* Mutants: the process goes on running; the lock is not given back.          *)
RejectedAlive(r, p) ==
  /\ pc[r] = "validate"
  /\ target[r] = p
  /\ pc[p] = "failed"
  /\ slot' = Nobody
  /\ startLock' = Nobody
  /\ End(r, "failed")
  /\ UNCHANGED <<child, pending, wire, result, proc, writer, reader, runs>>

RejectedLocked(r, p) ==
  /\ pc[r] = "validate"
  /\ target[r] = p
  /\ pc[p] = "failed"
  /\ slot' = Nobody
  /\ Kill(child)
  /\ End(r, "failed")
  /\ UNCHANGED <<child, startLock, pending, result, writer, reader, runs>>

(* A process that fails validation is unregistered and killed; its handle    *)
(* stays in its slot, its tasks run on until they notice.                    *)
Rejected(r, p) ==
  /\ pc[r] = "validate"
  /\ target[r] = p
  /\ pc[p] = "failed"
  /\ slot' = Nobody
  /\ Kill(child)
  /\ startLock' = Nobody
  /\ End(r, "failed")
  /\ UNCHANGED <<child, pending, result, writer, reader, runs>>

Reread(r) ==
  /\ pc[r] = "reread"
  /\ IF slot # Nobody
     THEN GoTo(r, "insert") /\ target' = [target EXCEPT ![r] = slot]
     ELSE End(r, "failed")
  /\ UNCHANGED <<slot, child, startLock, pending, wire, result>>
  /\ UNCHANGED <<proc, writer, reader, runs>>

Insert(r) ==
  /\ pc[r] = "insert"
  /\ pending' = pending \cup {r}
  /\ GoTo(r, "send")
  /\ UNCHANGED <<slot, child, startLock, target, wire, result>>
  /\ UNCHANGED <<proc, writer, reader, runs>>

Queued(p) == {m \in wire : m.at = p /\ m.as = "queued"}

Send(r) ==
  /\ pc[r] = "send"
  /\ writer[target[r]] # "gone"
  /\ Cardinality(Queued(target[r])) < QueueCap
  /\ wire' = wire \cup {Message(r, target[r], "queued")}
  /\ GoTo(r, "wait")
  /\ UNCHANGED <<slot, child, startLock, pending, target, result>>
  /\ UNCHANGED <<proc, writer, reader, runs>>

SendRefused(r) ==
  /\ pc[r] = "send"
  /\ writer[target[r]] = "gone"
  /\ pending' = pending \ {r}
  /\ End(r, "failed")
  /\ UNCHANGED <<slot, child, startLock, wire, result>>
  /\ UNCHANGED <<proc, writer, reader, runs>>

Return(r) ==
  /\ pc[r] = "wait"
  /\ result[r] # "none"
  /\ End(r, IF result[r] = "ok" THEN "ok" ELSE "failed")
  /\ result' = [result EXCEPT ![r] = "none"]
  /\ UNCHANGED <<slot, child, startLock, pending, wire>>
  /\ UNCHANGED <<proc, writer, reader, runs>>

(* Mutant: the response sender stays in the table.                           *)
TimesOutKept(r) ==
  /\ pc[r] = "wait"
  /\ result[r] = "none"
  /\ End(r, "failed")
  /\ UNCHANGED <<slot, child, startLock, pending, wire, result>>
  /\ UNCHANGED <<proc, writer, reader, runs>>

TimesOut(r) ==
  /\ pc[r] = "wait"
  /\ result[r] = "none"
  /\ pending' = pending \ {r}
  /\ End(r, "failed")
  /\ UNCHANGED <<slot, child, startLock, wire, result>>
  /\ UNCHANGED <<proc, writer, reader, runs>>

-----------------------------------------------------------------------------
(* The tasks of a process                                                    *)

(* fail_all: the table is shared, so requests to any process are failed.     *)
FailAll ==
  /\ pending' = {}
  /\ result' = [r \in Requests |-> IF r \in pending THEN "lost" ELSE result[r]]

(* Mutant: a request stays queued when it is written.                        *)
WriteAgain(p, r) ==
  /\ writer[p] = "up"
  /\ proc[p] = "up"
  /\ Message(r, p, "queued") \in wire
  /\ wire' = wire \cup {Message(r, p, "sent")}
  /\ UNCHANGED <<slot, child, startLock, pending, pc, target, result>>
  /\ UNCHANGED <<proc, writer, reader, runs>>

(* write_loop takes a request from its queue and writes it ...               *)
Write(p, r) ==
  /\ writer[p] = "up"
  /\ proc[p] = "up"
  /\ Message(r, p, "queued") \in wire
  /\ wire' = (wire \ {Message(r, p, "queued")}) \cup {Message(r, p, "sent")}
  /\ UNCHANGED <<slot, child, startLock, pending, pc, target, result>>
  /\ UNCHANGED <<proc, writer, reader, runs>>

(* ... or fails to: that request is failed, then all that are pending, and   *)
(* then the queue goes, with what was sent in between.                       *)
WriteFails(p, r) ==
  /\ writer[p] = "up"
  /\ proc[p] = "dead"
  /\ Message(r, p, "queued") \in wire
  /\ wire' = wire \ {Message(r, p, "queued")}
  /\ FailAll
  /\ writer' = [writer EXCEPT ![p] = "ending"]
  /\ UNCHANGED <<slot, child, startLock, pc, target, proc, reader, runs>>

WriterDrops(p) ==
  /\ writer[p] = "ending"
  /\ wire' = wire \ Queued(p)
  /\ writer' = [writer EXCEPT ![p] = "gone"]
  /\ UNCHANGED <<slot, child, startLock, pending, pc, target, result, proc>>
  /\ UNCHANGED <<reader, runs>>

(* The last sending end is dropped: slot, reader and calls have let go.      *)
Holding(r) == pc[r] \in {"insert", "send", "wait"}
WriterIdle(p) ==
  /\ writer[p] = "up"
  /\ Queued(p) = {}
  /\ slot # p
  /\ reader[p] = "gone"
  /\ \A r \in Requests : target[r] = p => ~Holding(r)
  /\ writer' = [writer EXCEPT ![p] = "gone"]
  /\ UNCHANGED <<slot, child, startLock, pending, pc, target, wire, result>>
  /\ UNCHANGED <<proc, reader, runs>>

Unread(p) == {m \in wire : m.at = p /\ m.as \in Answers}

(* read_loop takes an answer to whoever still waits for it.                  *)
ReadAnswer(p, m) ==
  /\ reader[p] = "up"
  /\ m \in Unread(p)
  /\ wire' = wire \ {m}
  /\ pending' = pending \ {m.req}
  /\ result' = IF m.req \in pending THEN [result EXCEPT ![m.req] = m.as] ELSE result
  /\ UNCHANGED <<slot, child, startLock, pc, target, proc, writer, reader>>
  /\ UNCHANGED runs

(* ... and ends at the end of the output, or at an answer that cannot be read *)
(* or is over the limit.                                                     *)
ReaderEnds(p) ==
  /\ reader[p] = "up"
  /\ proc[p] = "dead" \/ Unread(p) # {}
  /\ FailAll
  /\ wire' = wire \ Unread(p)
  /\ reader' = [reader EXCEPT ![p] = "cleaning"]
  /\ UNCHANGED <<slot, child, startLock, pc, target, proc, writer, runs>>

(* It unregisters its process, and only its own, and kills it.               *)
ReaderCleans(p) ==
  /\ reader[p] = "cleaning"
  /\ IF slot = p
     THEN /\ slot' = Nobody
          /\ child' = Nobody
          /\ Kill(child)
     ELSE UNCHANGED <<slot, child, proc, wire>>
  /\ reader' = [reader EXCEPT ![p] = "gone"]
  /\ UNCHANGED <<startLock, pending, pc, target, result, writer, runs>>

-----------------------------------------------------------------------------
(* The process (sidecar/rpc/server.go): a goroutine per request, answers in  *)
(* any order.  An answer of kind "gone" is one that never arrives: a line    *)
(* that cannot be parsed, or a process that ends before it has written it.   *)
Execute(p, r, kind) ==
  /\ proc[p] = "up"
  /\ Message(r, p, "sent") \in wire
  /\ runs' = IF r \in Calls THEN [runs EXCEPT ![r] = @ + 1] ELSE runs
  /\ wire' = (wire \ {Message(r, p, "sent")})
               \cup (IF kind \in Answers /\ reader[p] = "up"
                     THEN {Message(r, p, kind)} ELSE {})
  /\ UNCHANGED <<slot, child, startLock, pending, pc, target, result>>
  /\ UNCHANGED <<proc, writer, reader>>

Dies(p) ==
  /\ proc[p] = "up"
  /\ Kill(p)
  /\ UNCHANGED <<slot, child, startLock, pending, pc, target, result>>
  /\ UNCHANGED <<writer, reader, runs>>

-----------------------------------------------------------------------------
CallStep(r) ==
  \/ Look(r) \/ EnterRunning(r) \/ SpawnFails(r)
  \/ \E p \in Procs : Spawn(r, p) \/ Validated(r, p) \/ Rejected(r, p)
  \/ Reread(r) \/ Insert(r) \/ Send(r) \/ SendRefused(r)
  \/ Return(r) \/ TimesOut(r)

WriterStep(p) ==
  \/ \E r \in Requests : Write(p, r) \/ WriteFails(p, r)
  \/ WriterDrops(p) \/ WriterIdle(p)

ReaderStep(p) ==
  \/ \E m \in wire : ReadAnswer(p, m)
  \/ ReaderEnds(p) \/ ReaderCleans(p)

ProcStep(p) ==
  \/ \E r \in Requests, kind \in Replies : Execute(p, r, kind)
  \/ Dies(p)

GoNext ==
  \/ \E c \in Calls : Ask(c)
  \/ \E r \in Requests : CallStep(r)
  \/ \E p \in Procs : WriterStep(p) \/ ReaderStep(p) \/ ProcStep(p)

GoSpec == GoInit /\ [][GoNext]_goVars

-----------------------------------------------------------------------------
(* A process that runs is the registered one, and its handle is kept: no     *)
(* order of starting, validating, dying and cleaning up leaves a second      *)
(* process running beside the one that calls are sent to.                    *)
RunningIsRegistered ==
  \A p \in Procs : proc[p] = "up" => slot = p /\ child = p

(* Every response sender in the table has a caller that still listens, so    *)
(* the table does not grow with calls that timed out or found no writer.     *)
PendingIsAwaited ==
  \A r \in pending : pc[r] \in {"send", "wait"} /\ result[r] = "none"

(* The validating call finds its own process unregistered already and goes   *)
(* to start it again, under the lock its own task holds.                     *)
WaitsForItself == \E p \in Procs : pc[p] = "lock"

(* The client as its callers see it.                                         *)
Phase == [c \in Calls |->
            IF pc[c] \in {"idle", "ok", "failed"} THEN pc[c] ELSE "asked"]
Promise == INSTANCE CallService WITH phase <- Phase

(* Whatever becomes of processes, writers and readers, a call is carried out *)
(* at most once, and one that is told to have succeeded has been.            *)
AtMostOnce == Promise!Spec

-----------------------------------------------------------------------------
(* What the sources say and the code does not do.                            *)

(* call_with_timeout, read_loop: when a process has died, its slot is        *)
(* cleared so that the next call starts another one.                         *)
NeverWaitsForItself == ~WaitsForItself
=============================================================================
