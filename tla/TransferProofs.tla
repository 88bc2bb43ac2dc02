---------------------------- MODULE TransferProofs ----------------------------
(* Proofs about the SFTP transfers: one worker per active task, statuses that *)
(* follow each other as they should, offsets behind which nothing is missing, *)
(* and uploads that are whole when they are reported complete.                *)
EXTENDS Transfer, SequenceTheorems, FiniteSetTheorems, TLAPS

LEMMA MaxFact == ASSUME NEW m \in Nat, NEW n \in Nat
                 PROVE  Max({m, n}) = IF m >= n THEN m ELSE n
  BY DEF Max

(* What prune_terminal_tasks makes of the table: it takes terminal tasks out. *)
LEMMA PruneTable ==
  ASSUME NEW tasks, NEW ids
  PROVE  Prune(tasks, ids).task = [j \in Transfers |-> Prune(tasks, ids).task[j]]
  BY DEF Prune

LEMMA PruneEntry ==
  ASSUME NEW tasks, NEW ids, NEW j \in Transfers
  PROVE  \/ Prune(tasks, ids).task[j] = tasks[j]
         \/ /\ tasks[j].status \in Terminal
            /\ Prune(tasks, ids).task[j] = [tasks[j] EXCEPT !.status = "gone"]
  BY DEF Prune

(* One entry of one transfer's workers is changed.                            *)
LEMMA SetWorker ==
  ASSUME TypeOK, NEW i \in Transfers, NEW n \in DOMAIN worker[i], NEW w \in Workers,
         worker' = [worker EXCEPT ![i][n] = w]
  PROVE  /\ worker' \in [Transfers -> Seq(Workers)]
         /\ DOMAIN worker'[i] = DOMAIN worker[i] /\ Len(worker'[i]) = Len(worker[i])
         /\ worker'[i][n] = w
         /\ \A m \in DOMAIN worker[i] : m # n => worker'[i][m] = worker[i][m]
         /\ \A j \in Transfers : j # i => worker'[j] = worker[j]
<1>0. worker \in [Transfers -> Seq(Workers)]
  BY DEF TypeOK
<1>1. worker[i] \in Seq(Workers) /\ n \in 1..Len(worker[i])
  BY <1>0
<1>2. worker' = [worker EXCEPT ![i] = [worker[i] EXCEPT ![n] = w]]
  OBVIOUS
<1>3. /\ [worker[i] EXCEPT ![n] = w] \in Seq(Workers)
      /\ Len([worker[i] EXCEPT ![n] = w]) = Len(worker[i])
  BY <1>1, ExceptSeq
<1>4. worker'[i] = [worker[i] EXCEPT ![n] = w]
  BY <1>0, <1>2
<1>5. \A m \in DOMAIN worker[i] : worker'[i][m] = IF m = n THEN w ELSE worker[i][m]
  BY <1>1, <1>4, ExceptSeq
<1>6. QED
  BY <1>0, <1>1, <1>2, <1>3, <1>4, <1>5

(* A worker is started.                                                       *)
LEMMA AddWorker ==
  ASSUME TypeOK, NEW i \in Transfers, NEW w \in Workers,
         worker' = [worker EXCEPT ![i] = Append(@, w)]
  PROVE  /\ worker' \in [Transfers -> Seq(Workers)]
         /\ Len(worker'[i]) = Len(worker[i]) + 1
         /\ DOMAIN worker'[i] = DOMAIN worker[i] \cup {Len(worker[i]) + 1}
         /\ worker'[i][Len(worker[i]) + 1] = w
         /\ \A m \in DOMAIN worker[i] : worker'[i][m] = worker[i][m]
         /\ \A j \in Transfers : j # i => worker'[j] = worker[j]
<1>0. worker \in [Transfers -> Seq(Workers)]
  BY DEF TypeOK
<1>1. worker[i] \in Seq(Workers)
  BY <1>0
<1>2. worker'[i] = Append(worker[i], w) /\ \A j \in Transfers : j # i => worker'[j] = worker[j]
  BY <1>0
<1>3. /\ Append(worker[i], w) \in Seq(Workers)
      /\ Len(Append(worker[i], w)) = Len(worker[i]) + 1
      /\ \A m \in 1..Len(worker[i]) : Append(worker[i], w)[m] = worker[i][m]
      /\ Append(worker[i], w)[Len(worker[i]) + 1] = w
  BY <1>1, AppendProperties
<1>4. QED
  BY <1>0, <1>1, <1>2, <1>3

(* One entry of the table is changed.                                         *)
LEMMA SetTask ==
  ASSUME TypeOK, NEW i \in Transfers, NEW e \in Entries(i), task' = [task EXCEPT ![i] = e]
  PROVE  /\ task' \in [Transfers -> UNION {Entries(j) : j \in Transfers}]
         /\ \A j \in Transfers : task'[j] \in Entries(j)
         /\ task'[i] = e /\ \A j \in Transfers : j # i => task'[j] = task[j]
<1>1. /\ task \in [Transfers -> UNION {Entries(j) : j \in Transfers}]
      /\ \A j \in Transfers : task[j] \in Entries(j)
  BY DEF TypeOK
<1>2. e \in UNION {Entries(j) : j \in Transfers}
  OBVIOUS
<1>3. QED
  BY <1>1, <1>2

(* One file of a target is changed.                                           *)
LEMMA SetWritten ==
  ASSUME TypeOK, NEW i \in Transfers, NEW f \in Files(i), NEW k \in Nat,
         written' = [written EXCEPT ![i][f] = k]
  PROVE  /\ written' \in [Transfers -> UNION {[Files(j) -> Nat] : j \in Transfers}]
         /\ \A j \in Transfers : written'[j] \in [Files(j) -> Nat]
         /\ written'[i] = [written[i] EXCEPT ![f] = k]
         /\ \A j \in Transfers : j # i => written'[j] = written[j]
<1>1. /\ written \in [Transfers -> UNION {[Files(j) -> Nat] : j \in Transfers}]
      /\ \A j \in Transfers : written[j] \in [Files(j) -> Nat]
  BY DEF TypeOK
<1>2. written' = [written EXCEPT ![i] = [written[i] EXCEPT ![f] = k]]
  OBVIOUS
<1>3. [written[i] EXCEPT ![f] = k] \in [Files(i) -> Nat]
  BY <1>1
<1>4. [written[i] EXCEPT ![f] = k] \in UNION {[Files(j) -> Nat] : j \in Transfers}
  BY <1>3
<1>5. QED
  BY <1>1, <1>2, <1>3, <1>4

LEMMA SizeTypes ==
  ASSUME NEW i \in Transfers
  PROVE  /\ FileSizes[i] \in Seq(Nat) /\ FileSizes[i] \in [Files(i) -> Nat]
         /\ Files(i) = 1..Len(FileSizes[i]) /\ Len(FileSizes[i]) \in Nat
         /\ Zeros(i) \in [Files(i) -> Nat]
         /\ \A known \in BOOLEAN : Listed(i, known) \in [Files(i) -> Nat]
  BY TransferAssumption DEF Files, Zeros, Listed

-----------------------------------------------------------------------------
(* What a step of the worker of run n of transfer i does to the variables.    *)
LEMMA StopFacts ==
  ASSUME TypeOK, NEW i \in Transfers, NEW n \in DOMAIN worker[i],
         NEW status \in {"Paused", "Done", "Failed", "Cancelled"}, Stop(i, n, status)
  PROVE  /\ TypeOK'
         /\ worker' = [worker EXCEPT ![i][n] = worker'[i][n]]
         /\ worker'[i][n] \in Workers /\ worker'[i][n].pc \in {"stopped", "gone"}
         /\ \/ ~Present(i) /\ task' = task
            \/ Present(i) /\ task' = [task EXCEPT ![i] = [task[i] EXCEPT !.status = status]]
         /\ UNCHANGED <<written, call>>
<1> DEFINE w == [pc |-> IF status = "Paused" THEN "gone" ELSE "stopped", file |-> 1, at |-> 0]
<1>1. w \in Workers /\ worker' = [worker EXCEPT ![i][n] = w]
  BY DEF Stop, Workers
<1>2. worker' \in [Transfers -> Seq(Workers)] /\ worker'[i][n] = w
  BY <1>1, SetWorker
<1>3. \/ ~Present(i) /\ task' = task
      \/ Present(i) /\ task' = [task EXCEPT ![i] = [task[i] EXCEPT !.status = status]]
  BY DEF Stop, SetStatus
<1>4. /\ task' \in [Transfers -> UNION {Entries(j) : j \in Transfers}]
      /\ \A j \in Transfers : task'[j] \in Entries(j)
  <2>1. [task[i] EXCEPT !.status = status] \in Entries(i)
    BY DEF TypeOK, Entries, Statuses, Terminal, Active
  <2>2. QED
    BY <1>3, <2>1, SetTask DEF TypeOK
<1>5. flags' \subseteq flags /\ late' \subseteq late /\ UNCHANGED <<written, controls, call>>
  BY DEF Stop
<1>6. TypeOK'
  BY <1>2, <1>4, <1>5 DEF TypeOK
<1>7. QED
  BY <1>1, <1>2, <1>3, <1>5, <1>6

(* A worker is in the middle of a file only of a file of its transfer.        *)
MovesFile ==
  \A i \in Transfers : \A n \in DOMAIN worker[i] :
    worker[i][n].pc = "moving" => worker[i][n].file \in Files(i)

LEMMA WorkerTypes ==
  ASSUME TypeOK, MovesFile, NEW i \in Transfers, NEW n \in Runs, WorkerStep(i, n)
  PROVE  TypeOK' /\ MovesFile'
<1> DEFINE w == worker[i][n]
           f == File(i, n)
<1>1. /\ n \in DOMAIN worker[i] /\ w \in Workers /\ f \in Nat \ {0} /\ w.at \in Nat
  <2>1. n \in DOMAIN worker[i]
    BY DEF WorkerStep, Starts, StopsBetween, MkdirFails, Skips, Opens, Moves,
           Finishes, Breaks, Leaves, WorkerAt
  <2>2. worker[i] \in Seq(Workers)
    BY DEF TypeOK
  <2>3. w \in Workers
    BY <2>1, <2>2
  <2>4. QED
    BY <2>1, <2>3 DEF Workers, File
<1>2. /\ task[i] \in Entries(i) /\ written[i] \in [Files(i) -> Nat]
      /\ f <= Len(FileSizes[i]) => f \in Files(i)
  <2>1. task[i] \in Entries(i) /\ written[i] \in [Files(i) -> Nat]
    BY DEF TypeOK
  <2>2. Files(i) = 1..Len(FileSizes[i]) /\ Len(FileSizes[i]) \in Nat
    BY SizeTypes
  <2>3. QED
    BY <1>1, <2>1, <2>2
<1>3. ASSUME NEW v \in Workers, worker' = [worker EXCEPT ![i][n] = v],
             v.pc = "moving" => v.file \in Files(i)
      PROVE  worker' \in [Transfers -> Seq(Workers)] /\ MovesFile'
  <2>1. worker' \in [Transfers -> Seq(Workers)]
    BY <1>1, <1>3, SetWorker
  <2>2. \A j \in Transfers : \A m \in DOMAIN worker'[j] :
           worker'[j][m].pc = "moving" => worker'[j][m].file \in Files(j)
    BY <1>1, <1>3, SetWorker DEF MovesFile
  <2>3. QED
    BY <2>1, <2>2 DEF MovesFile
<1>4. ASSUME NEW e \in Entries(i), task' = [task EXCEPT ![i] = e]
      PROVE  /\ task' \in [Transfers -> UNION {Entries(j) : j \in Transfers}]
             /\ \A j \in Transfers : task'[j] \in Entries(j)
  BY <1>4, SetTask
<1>5. ASSUME NEW status \in {"Paused", "Done", "Failed", "Cancelled"}, Stop(i, n, status)
      PROVE  TypeOK' /\ MovesFile'
  <2>1. TypeOK' /\ worker'[i][n] \in Workers /\ worker'[i][n].pc # "moving"
        /\ worker' = [worker EXCEPT ![i][n] = worker'[i][n]]
    BY <1>1, <1>5, StopFacts
  <2>2. QED
    BY <1>3, <2>1
<1>6. CASE Starts(i, n)
  <2> DEFINE v == [w EXCEPT !.pc = "between"]
  <2>1. v \in Workers /\ v.pc = "between" /\ worker' = [worker EXCEPT ![i][n] = v]
    BY <1>1, <1>6 DEF Starts, Workers
  <2>2. /\ task' \in [Transfers -> UNION {Entries(j) : j \in Transfers}]
        /\ \A j \in Transfers : task'[j] \in Entries(j)
    <3>1. [task[i] EXCEPT !.status = "Running"] \in Entries(i)
      BY <1>2 DEF Entries, Statuses, Active
    <3>2. \/ task' = [task EXCEPT ![i] = [task[i] EXCEPT !.status = "Running"]]
          \/ task' = task
      BY <1>6 DEF Starts, SetStatus
    <3>3. QED
      BY <1>4, <3>1, <3>2 DEF TypeOK
  <2>3. QED
    BY <1>3, <1>6, <2>1, <2>2 DEF Starts, TypeOK
<1>7. CASE StopsBetween(i, n)
  BY <1>5, <1>7 DEF StopsBetween
<1>8. CASE MkdirFails(i, n)
  BY <1>5, <1>8 DEF MkdirFails
<1>9. CASE Skips(i, n)
  <2> DEFINE v == [w EXCEPT !.file = @ + 1]
             e == [task[i] EXCEPT !.sent[f] = task[i].size[f]]
  <2>1. v \in Workers /\ v.pc = "between" /\ worker' = [worker EXCEPT ![i][n] = v]
    BY <1>1, <1>9 DEF Skips, Workers, WorkerAt
  <2>2. f \in Files(i) /\ e \in Entries(i) /\ task' = [task EXCEPT ![i] = e]
    BY <1>2, <1>9 DEF Skips, Entries
  <2>3. QED
    BY <1>3, <1>4, <1>9, <2>1, <2>2 DEF Skips, TypeOK
<1>10. CASE Opens(i, n)
  <2> DEFINE v == [w EXCEPT !.pc = "moving", !.at = Offset(i, f)]
  <2>1. f \in Files(i) /\ Offset(i, f) \in Nat
    BY <1>2, <1>10 DEF Opens, Offset, Entries
  <2>2. v \in Workers /\ v.file = f /\ worker' = [worker EXCEPT ![i][n] = v]
    BY <1>1, <1>10, <2>1 DEF Opens, Workers, File
  <2>3. /\ written' \in [Transfers -> UNION {[Files(j) -> Nat] : j \in Transfers}]
        /\ \A j \in Transfers : written'[j] \in [Files(j) -> Nat]
    BY <1>10, <2>1, SetWritten DEF Opens, TypeOK
  <2>4. QED
    BY <1>3, <1>10, <2>1, <2>2, <2>3 DEF Opens, TypeOK
<1>11. ASSUME NEW recorded \in BOOLEAN, Moves(i, n, recorded) PROVE TypeOK' /\ MovesFile'
  <2> DEFINE v == [w EXCEPT !.at = w.at + 1]
             e == [task[i] EXCEPT !.sent[f] = w.at + 1]
  <2>1. f \in Files(i) /\ w.pc = "moving"
    BY <1>1, <1>11 DEF Moves, WorkerAt, MovesFile, File
  <2>2. v \in Workers /\ v.file = f /\ worker' = [worker EXCEPT ![i][n] = v]
    BY <1>1, <1>11 DEF Moves, Workers, File
  <2>3. e \in Entries(i) /\ (task' = task \/ task' = [task EXCEPT ![i] = e])
    <3>1. e \in Entries(i)
      <4>1. \A k \in Nat : [task[i] EXCEPT !.sent[f] = k] \in Entries(i)
        BY <1>2 DEF Entries
      <4>2. w.at + 1 \in Nat
        BY <1>1
      <4>3. QED
        BY <4>1, <4>2
    <3>2. task' = task \/ task' = [task EXCEPT ![i] = e]
      BY <1>11 DEF Moves
    <3>3. QED
      BY <3>1, <3>2
  <2>4. /\ written' \in [Transfers -> UNION {[Files(j) -> Nat] : j \in Transfers}]
        /\ \A j \in Transfers : written'[j] \in [Files(j) -> Nat]
    <3>1. written[i][f] \in Nat /\ Max({written[i][f], w.at + 1}) \in Nat
      BY <1>1, <1>2, <2>1, MaxFact
    <3>2. \/ written' = written
          \/ written' = [written EXCEPT ![i][f] = Max({written[i][f], w.at + 1})]
      BY <1>11 DEF Moves, Block
    <3>3. QED
      BY <2>1, <3>1, <3>2, SetWritten DEF TypeOK
  <2>5. late' \subseteq LateWrites
    <3> DEFINE x == [of |-> i, run |-> n, file |-> f, block |-> w.at, lost |-> FALSE]
    <3>1. i \notin Uploads => x \in LateWrites
      BY <1>1 DEF LateWrites
    <3>2. late' = late \/ (i \notin Uploads /\ late' = late \cup {x})
      BY <1>11 DEF Moves
    <3>3. QED
      BY <3>1, <3>2 DEF TypeOK
  <2>6. QED
    BY <1>3, <1>4, <1>11, <2>1, <2>2, <2>3, <2>4, <2>5 DEF Moves, TypeOK
<1>12. CASE Finishes(i, n)
  <2> DEFINE v == [pc |-> "between", file |-> f + 1, at |-> 0]
             e == [task[i] EXCEPT !.sent[f] = FileSizes[i][f],
                                  !.size[f] = IF i \in Uploads THEN @ ELSE FileSizes[i][f]]
  <2>1. f \in Files(i)
    BY <1>1, <1>12 DEF Finishes, WorkerAt, MovesFile, File
  <2>2. v \in Workers /\ v.pc = "between" /\ worker' = [worker EXCEPT ![i][n] = v]
    BY <1>1, <1>12 DEF Finishes, Workers
  <2>3. e \in Entries(i) /\ task' = [task EXCEPT ![i] = e]
    BY <1>2, <1>12, <2>1, SizeTypes DEF Finishes, Entries
  <2>4. QED
    BY <1>3, <1>4, <1>12, <2>2, <2>3 DEF Finishes, TypeOK
<1>13. CASE Breaks(i, n)
  BY <1>5, <1>13 DEF Breaks
<1>14. CASE Leaves(i, n)
  <2> DEFINE v == [w EXCEPT !.pc = "gone"]
  <2>1. v \in Workers /\ v.pc = "gone" /\ worker' = [worker EXCEPT ![i][n] = v]
    BY <1>1, <1>14 DEF Leaves, Workers
  <2>2. controls' \in [Transfers -> {0} \cup Runs]
    BY <1>14 DEF Leaves, TypeOK
  <2>3. QED
    BY <1>3, <1>14, <2>1, <2>2 DEF Leaves, TypeOK
<1>15. QED
  BY <1>6, <1>7, <1>8, <1>9, <1>10, <1>11, <1>12, <1>13, <1>14 DEF WorkerStep

(* Who is about to start a worker has not used up the bound on runs.          *)
SpawnBound ==
  \A i \in Transfers, u \in Users :
    call[u] = At("spawn", i) => Len(worker[i]) < MaxRuns[i]

LEMMA FlagTypes ==
  ASSUME TypeOK, NEW i \in Transfers, NEW which \in {"cancel", "pause"}, Flag(i, which)
  PROVE  flags' \subseteq Transfers \X Runs \X {"cancel", "pause"}
<1>1. Watched(i, controls[i]) => controls[i] \in Runs
  BY DEF Watched, TypeOK
<1>2. \/ flags' = flags
      \/ Watched(i, controls[i]) /\ flags' = flags \cup {<<i, controls[i], which>>}
  BY DEF Flag
<1>3. flags \subseteq Transfers \X Runs \X {"cancel", "pause"}
  BY DEF TypeOK
<1>4. QED
  BY <1>1, <1>2, <1>3

LEMMA CallStateTypes ==
  ASSUME TypeOK, NEW u \in Users, UserStep(u)
  PROVE  call' \in [Users -> CallStates]
<1>1. \A i \in Transfers, pc \in {"listing", "spawn", "resume", "retry", "cancel", "forget"} :
         At(pc, i) \in CallStates
  BY DEF At, CallStates
<1>2. Idle \in CallStates
  BY DEF CallStates
<1>3. PICK c \in CallStates : call' = [call EXCEPT ![u] = c]
  BY <1>1, <1>2 DEF UserStep, Create, ListingFails, Enqueue, Spawn, Respawn, Requeue,
                    Cancel, CancelSettles, CancelForgets, Calls
<1>4. call \in [Users -> CallStates]
  BY DEF TypeOK
<1>5. QED
  BY <1>3, <1>4

LEMMA CallTypes ==
  ASSUME TypeOK, MovesFile, SpawnBound, NEW u \in Users, UserStep(u)
  PROVE  TypeOK' /\ MovesFile'
<1> SUFFICES ASSUME NEW i \in Transfers,
               \/ Create(u, i) \/ ListingFails(u, i)
               \/ \E known \in Listings : Enqueue(u, i, known)
               \/ Spawn(u, i)
               \/ \E verb \in {"resume", "retry"} : Respawn(u, i, verb) \/ Requeue(u, i, verb)
               \/ Cancel(u, i) \/ CancelSettles(u, i) \/ CancelForgets(u, i)
             PROVE  TypeOK' /\ MovesFile'
  BY DEF UserStep
<1>0. call' \in [Users -> CallStates]
  BY CallStateTypes
<1>1. ASSUME UNCHANGED <<task, controls, flags, worker, written, late>> PROVE TypeOK' /\ MovesFile'
  BY <1>0, <1>1 DEF TypeOK, MovesFile
<1>2. ASSUME NEW status \in {"Queued", "Cancelled"}, SetStatus(i, status),
             UNCHANGED <<controls, flags, worker, written, late>>
      PROVE  TypeOK' /\ MovesFile'
  <2>1. [task[i] EXCEPT !.status = status] \in Entries(i)
    BY DEF TypeOK, Entries, Statuses, Active, Terminal
  <2>2. task' = [task EXCEPT ![i] = [task[i] EXCEPT !.status = status]]
    BY <1>2 DEF SetStatus
  <2>3. QED
    BY <1>0, <1>2, <2>1, <2>2, SetTask DEF TypeOK, MovesFile
<1>3. CASE Create(u, i) \/ ListingFails(u, i) \/ \E verb \in {"resume", "retry"} : Respawn(u, i, verb)
  BY <1>1, <1>3 DEF Create, ListingFails, Respawn
<1>4. ASSUME NEW known \in Listings, Enqueue(u, i, known) PROVE TypeOK' /\ MovesFile'
  <2> DEFINE entry == [status |-> "Queued", sent |-> Zeros(i), size |-> Listed(i, known)]
             tasks == [task EXCEPT ![i] = entry]
             pruned == Prune(tasks, Append(order, i)).task
  <2>1. entry \in Entries(i)
    BY TransferAssumption, SizeTypes DEF Entries, Statuses, Active
  <2>2. /\ tasks \in [Transfers -> UNION {Entries(j) : j \in Transfers}]
        /\ \A j \in Transfers : tasks[j] \in Entries(j)
    BY <2>1 DEF TypeOK
  <2>3. task' = pruned /\ UNCHANGED <<controls, flags, worker, written, late>>
    BY <1>4 DEF Enqueue
  <2> HIDE DEF tasks
  <2>4. \A j \in Transfers : pruned[j] \in Entries(j)
    <3> SUFFICES ASSUME NEW j \in Transfers PROVE pruned[j] \in Entries(j)
      OBVIOUS
    <3>1. pruned[j] \in {tasks[j], [tasks[j] EXCEPT !.status = "gone"]}
      <4>1. \/ Prune(tasks, Append(order, i)).task[j] = tasks[j]
            \/ Prune(tasks, Append(order, i)).task[j] = [tasks[j] EXCEPT !.status = "gone"]
        BY PruneEntry
      <4>2. QED
        BY <4>1
    <3>2. [tasks[j] EXCEPT !.status = "gone"] \in Entries(j)
      BY <2>2 DEF Entries, Statuses
    <3>3. QED
      BY <2>2, <3>1, <3>2
  <2>5. pruned = [j \in Transfers |-> pruned[j]]
    BY PruneTable
  <2> HIDE DEF pruned
  <2>6. pruned \in [Transfers -> UNION {Entries(j) : j \in Transfers}]
    BY <2>4, <2>5
  <2>7. QED
    BY <1>0, <2>3, <2>4, <2>6 DEF TypeOK, MovesFile
<1>5. CASE Spawn(u, i)
  <2> DEFINE v == [pc |-> "start", file |-> 1, at |-> 0]
  <2>1. v \in Workers /\ worker' = [worker EXCEPT ![i] = Append(@, v)]
    BY <1>5 DEF Spawn, Workers
  <2>2. Len(worker[i]) < MaxRuns[i] /\ Len(worker[i]) \in Nat /\ MaxRuns[i] \in Nat
    <3>1. call[u] = At("spawn", i)
      BY <1>5 DEF Spawn, Calls
    <3>2. worker[i] \in Seq(Workers)
      BY DEF TypeOK
    <3>3. QED
      BY <3>1, <3>2, TransferAssumption DEF SpawnBound
  <2>3. Len(worker[i]) + 1 \in Runs
    BY <2>2 DEF Runs
  <2>4. controls' \in [Transfers -> {0} \cup Runs]
    BY <1>5, <2>3 DEF Spawn, TypeOK
  <2>5. worker' \in [Transfers -> Seq(Workers)] /\ MovesFile'
    <3>1. worker' \in [Transfers -> Seq(Workers)]
      BY <2>1, AddWorker
    <3>2. \A j \in Transfers : \A m \in DOMAIN worker'[j] :
             worker'[j][m].pc = "moving" => worker'[j][m].file \in Files(j)
      <4> HIDE DEF v
      <4>1. \A j \in Transfers : j # i => worker'[j] = worker[j]
        BY <2>1, AddWorker
      <4>2. \A m \in DOMAIN worker'[i] : (m \in DOMAIN worker[i] /\ worker'[i][m] = worker[i][m])
                                              \/ worker'[i][m] = v
        BY <2>1, AddWorker
      <4>3. v.pc # "moving"
        BY DEF v
      <4>4. QED
        BY <4>1, <4>2, <4>3 DEF MovesFile
    <3>3. QED
      BY <3>1, <3>2 DEF MovesFile
  <2>6. QED
    BY <1>0, <1>5, <2>4, <2>5 DEF Spawn, TypeOK
<1>6. CASE \E verb \in {"resume", "retry"} : Requeue(u, i, verb)
  BY <1>1, <1>2, <1>6 DEF Requeue
<1>7. CASE Cancel(u, i)
  BY <1>0, <1>7, FlagTypes DEF Cancel, TypeOK, MovesFile
<1>8. CASE CancelSettles(u, i)
  BY <1>1, <1>2, <1>8 DEF CancelSettles
<1>9. CASE CancelForgets(u, i)
  BY <1>0, <1>9 DEF CancelForgets, TypeOK, MovesFile
<1>10. QED
  BY <1>3, <1>4, <1>5, <1>6, <1>7, <1>8, <1>9

LEMMA TableTypes ==
  ASSUME TypeOK, MovesFile, TableStep
  PROVE  TypeOK' /\ MovesFile'
<1>1. ASSUME NEW i \in Transfers, Pause(i) PROVE TypeOK' /\ MovesFile'
  BY <1>1, FlagTypes DEF Pause, TypeOK, MovesFile
<1>2. ASSUME NEW ids, Clear(ids) PROVE TypeOK' /\ MovesFile'
  <2>1. /\ task' = [i \in Transfers |-> task'[i]]
        /\ \A i \in Transfers : task'[i] \in {task[i], [task[i] EXCEPT !.status = "gone"]}
        /\ UNCHANGED <<controls, flags, worker, written, late, call>>
    BY <1>2 DEF Clear
  <2>2. \A i \in Transfers : task'[i] \in Entries(i)
    <3> SUFFICES ASSUME NEW i \in Transfers PROVE task'[i] \in Entries(i)
      OBVIOUS
    <3>1. task[i] \in Entries(i) /\ [task[i] EXCEPT !.status = "gone"] \in Entries(i)
      BY DEF TypeOK, Entries, Statuses
    <3>2. QED
      BY <2>1, <3>1
  <2>3. task' \in [Transfers -> UNION {Entries(i) : i \in Transfers}]
    BY <2>1, <2>2
  <2>4. QED
    BY <2>1, <2>2, <2>3 DEF TypeOK, MovesFile
<1>3. QED
  BY <1>1, <1>2 DEF TableStep

(* A block that was on its way arrives, or does not.                          *)
LEMMA LateTypes ==
  ASSUME TypeOK, MovesFile, NEW w \in late, Lands(w) \/ IsLost(w)
  PROVE  TypeOK' /\ MovesFile' /\ UNCHANGED <<task, worker, call>>
         /\ \A j \in Uploads : written'[j] = written[j]
<1> DEFINE i == w.of
           top == Max({written[i][w.file], w.block + 1})
<1>1. /\ i \in Transfers \ Uploads /\ w \in LateWrites /\ w.block \in Nat
      /\ written \in [Transfers -> UNION {[Files(j) -> Nat] : j \in Transfers}]
      /\ \A j \in Transfers : written[j] \in [Files(j) -> Nat]
  BY DEF TypeOK, LateWrites
<1>2. UNCHANGED <<task, order, controls, flags, worker, call>>
  BY DEF Lands, IsLost
<1>3. late' \subseteq LateWrites
  <2>1. [w EXCEPT !.lost = TRUE] \in LateWrites
    BY <1>1 DEF LateWrites
  <2>2. QED
    BY <2>1 DEF Lands, IsLost, TypeOK
<1>4. written' = written \/ written' = [written EXCEPT ![i][w.file] = top]
  BY DEF Lands, IsLost, Block
<1>5. /\ written' \in [Transfers -> UNION {[Files(j) -> Nat] : j \in Transfers}]
      /\ \A j \in Transfers : written'[j] \in [Files(j) -> Nat]
  <2>1. CASE written' = written
    BY <1>1, <2>1
  <2>2. CASE written' = [written EXCEPT ![i][w.file] = top] /\ w.file \in Files(i)
    <3>1. top \in Nat
      <4>1. written[i][w.file] \in Nat /\ w.block + 1 \in Nat
        BY <1>1, <2>2
      <4>2. QED
        BY <4>1, MaxFact
    <3>2. QED
      BY <1>1, <2>2, <3>1, SetWritten
  <2>3. CASE written' = [written EXCEPT ![i][w.file] = top] /\ w.file \notin Files(i)
    <3>1. [written[i] EXCEPT ![w.file] = top] = written[i]
      BY <1>1, <2>3
    <3>2. written' = written
      BY <1>1, <2>3, <3>1
    <3>3. QED
      BY <1>1, <3>2
  <2>4. QED
    BY <1>4, <2>1, <2>2, <2>3
<1>6. \A j \in Uploads : written'[j] = written[j]
  BY <1>1, <1>4, TransferAssumption
<1>7. TypeOK' /\ MovesFile'
  BY <1>2, <1>3, <1>5 DEF TypeOK, MovesFile
<1>8. QED
  BY <1>2, <1>6, <1>7

-----------------------------------------------------------------------------
(* Who works on transfer i: its workers that have not stopped, and the calls  *)
(* that are about to start one.                                               *)
Spawning(i) == {u \in Users : call[u] = At("spawn", i)}

(* At most one of them is there, the status says how far it is, and a listing *)
(* is only made for a transfer that is not in the table.                      *)
WorkInv(i) ==
  /\ \A m, n \in Moving(i) : m = n
  /\ \A u, v \in Spawning(i) : u = v
  /\ Moving(i) = {} \/ Spawning(i) = {}
  /\ \A n \in Moving(i) : StatusOf(i) = IF worker[i][n].pc = "start" THEN "Queued" ELSE "Running"
  /\ Spawning(i) # {} => StatusOf(i) = "Queued" /\ Len(worker[i]) < MaxRuns[i]
  /\ StatusOf(i) \in Active => Moving(i) # {} \/ Spawning(i) # {}
  /\ StatusOf(i) = "new" => worker[i] = <<>>
  /\ \A u, v \in Users : call[u] = At("listing", i) /\ call[v] = At("listing", i) => u = v
  /\ \A u \in Users : call[u] = At("listing", i) => StatusOf(i) = "new"

(* A transfer of which nothing that WorkInv speaks of changes.                *)
LEMMA WorkFrame ==
  ASSUME NEW i \in Transfers, WorkInv(i), task'[i].status = task[i].status,
         worker'[i] = worker[i],
         \A u \in Users : /\ (call'[u] = At("spawn", i) <=> call[u] = At("spawn", i))
                          /\ call'[u] = At("listing", i) => call[u] = At("listing", i)
  PROVE  WorkInv(i)'
<1>1. Moving(i)' = Moving(i) /\ Spawning(i)' = Spawning(i) /\ StatusOf(i)' = StatusOf(i)
  BY DEF Moving, Spawning, StatusOf, WorkerAt
<1>2. QED
  BY <1>1 DEF WorkInv

(* A terminal task is taken out of the table.                                 *)
LEMMA GoneFrame ==
  ASSUME NEW i \in Transfers, WorkInv(i), task[i].status \in Terminal,
         task'[i].status = "gone", worker'[i] = worker[i],
         \A u \in Users : /\ (call'[u] = At("spawn", i) <=> call[u] = At("spawn", i))
                          /\ call'[u] = At("listing", i) => call[u] = At("listing", i)
  PROVE  WorkInv(i)'
<1>1. Moving(i)' = Moving(i) /\ Spawning(i)' = Spawning(i) /\ StatusOf(i)' = "gone"
  BY DEF Moving, Spawning, StatusOf, WorkerAt
<1>2. Moving(i) = {} /\ Spawning(i) = {}
  BY DEF WorkInv, Terminal, StatusOf
<1>3. QED
  BY <1>1, <1>2 DEF WorkInv, Active, StatusOf, Terminal

Follow(i) == StatusOf(i)' = StatusOf(i) \/ StatusOf(i)' \in Follows[StatusOf(i)]

LEMMA WorkOfWorkers ==
  ASSUME TypeOK, \A j \in Transfers : WorkInv(j),
         NEW i \in Transfers, NEW n \in Runs, WorkerStep(i, n)
  PROVE  \A j \in Transfers : WorkInv(j)' /\ Follow(j)
<1>1. n \in DOMAIN worker[i] /\ worker[i][n] \in Workers /\ call' = call
  <2>1. n \in DOMAIN worker[i] /\ call' = call
    BY DEF WorkerStep, Starts, StopsBetween, MkdirFails, Skips, Opens, Moves,
           Finishes, Breaks, Leaves, WorkerAt, Stop
  <2>2. worker[i] \in Seq(Workers)
    BY DEF TypeOK
  <2>3. QED
    BY <2>1, <2>2
<1>2. ASSUME NEW w \in Workers, worker' = [worker EXCEPT ![i][n] = w],
             \A j \in Transfers : j # i => task'[j] = task[j]
      PROVE  /\ \A m \in Runs : m \in Moving(i)' <=>
                  IF m = n THEN w.pc \in {"start", "between", "moving"} ELSE m \in Moving(i)
             /\ \A m \in Moving(i)' : m # n => worker'[i][m] = worker[i][m]
             /\ worker'[i][n] = w /\ Len(worker'[i]) = Len(worker[i])
             /\ Spawning(i)' = Spawning(i)
             /\ worker[i] # <<>>
             /\ \A j \in Transfers : j # i => WorkInv(j)' /\ Follow(j)
  <2>1. /\ DOMAIN worker'[i] = DOMAIN worker[i] /\ Len(worker'[i]) = Len(worker[i])
        /\ worker'[i][n] = w
        /\ \A m \in DOMAIN worker[i] : m # n => worker'[i][m] = worker[i][m]
        /\ \A j \in Transfers : j # i => worker'[j] = worker[j]
    BY <1>1, <1>2, SetWorker
  <2>2. \A j \in Transfers : j # i => WorkInv(j)' /\ Follow(j)
    BY <1>1, <1>2, <2>1, WorkFrame DEF Follow, StatusOf
  <2>3. \A m \in Runs : m \in Moving(i)' <=>
           IF m = n THEN w.pc \in {"start", "between", "moving"} ELSE m \in Moving(i)
    BY <1>1, <2>1 DEF Moving, WorkerAt
  <2>4. Spawning(i)' = Spawning(i)
    BY <1>1 DEF Spawning
  <2>5. QED
    BY <1>1, <2>1, <2>2, <2>3, <2>4 DEF Moving, WorkerAt
(* The run goes on as it was, or has been over for long.                      *)
<1>3. ASSUME NEW w \in Workers, worker' = [worker EXCEPT ![i][n] = w],
             \A j \in Transfers : j # i => task'[j] = task[j],
             StatusOf(i)' = StatusOf(i),
             \/ worker[i][n].pc \in {"between", "moving"} /\ w.pc \in {"between", "moving"}
             \/ worker[i][n].pc = "stopped" /\ w.pc = "gone"
      PROVE  \A j \in Transfers : WorkInv(j)' /\ Follow(j)
  <2>1. Moving(i)' = Moving(i)
    BY <1>1, <1>2, <1>3 DEF Moving, WorkerAt
  <2>2. \A m \in Moving(i) : worker'[i][m].pc = "start" <=> worker[i][m].pc = "start"
    BY <1>2, <1>3, <2>1
  <2>3. WorkInv(i)'
    <3>1. /\ Spawning(i)' = Spawning(i) /\ Len(worker'[i]) = Len(worker[i])
          /\ worker[i] # <<>> /\ call' = call
      BY <1>1, <1>2, <1>3
    <3>2. StatusOf(i) # "new"
      BY <3>1 DEF WorkInv
    <3>3. \A m \in Moving(i) :
            StatusOf(i)' = IF worker'[i][m].pc = "start" THEN "Queued" ELSE "Running"
      BY <1>3, <2>2 DEF WorkInv
    <3>4. QED
      BY <1>3, <2>1, <3>1, <3>2, <3>3 DEF WorkInv
  <2>4. QED
    BY <1>2, <1>3, <2>3 DEF Follow
<1>4. ASSUME NEW status \in {"Paused", "Done", "Failed", "Cancelled"}, Stop(i, n, status),
             worker[i][n].pc \in {"between", "moving"}
      PROVE  \A j \in Transfers : WorkInv(j)' /\ Follow(j)
  <2>1. n \in Moving(i) /\ StatusOf(i) = "Running"
    BY <1>1, <1>4 DEF Moving, WorkerAt, WorkInv
  <2>2. Moving(i) = {n} /\ Spawning(i) = {}
    BY <2>1 DEF WorkInv
  <2>3. /\ task' = [task EXCEPT ![i] = [task[i] EXCEPT !.status = status]]
        /\ worker' = [worker EXCEPT ![i][n] = worker'[i][n]]
        /\ worker'[i][n] \in Workers /\ worker'[i][n].pc \in {"stopped", "gone"}
    BY <1>1, <1>4, <2>1, StopFacts DEF Present
  <2>4. StatusOf(i)' = status /\ \A j \in Transfers : j # i => task'[j] = task[j]
    <3>1. task \in [Transfers -> UNION {Entries(j) : j \in Transfers}] /\ task[i] \in Entries(i)
      BY DEF TypeOK
    <3>2. QED
      BY <2>3, <3>1 DEF StatusOf, Entries
  <2>5. Moving(i)' = {} /\ Spawning(i)' = {} /\ worker[i] # <<>>
    BY <1>2, <2>2, <2>3, <2>4 DEF Moving
  <2>6. WorkInv(i)'
    BY <1>1, <2>1, <2>4, <2>5 DEF WorkInv, Active
  <2>7. Follow(i)
    BY <2>1, <2>4 DEF Follow, Follows
  <2>8. QED
    BY <1>2, <2>3, <2>4, <2>6, <2>7
<1>5. CASE Starts(i, n)
  <2> DEFINE w == [worker[i][n] EXCEPT !.pc = "between"]
  <2>1. n \in Moving(i) /\ StatusOf(i) = "Queued"
    BY <1>1, <1>5 DEF Starts, Moving, WorkerAt, WorkInv
  <2>2. Moving(i) = {n} /\ Spawning(i) = {}
    BY <2>1 DEF WorkInv
  <2>3. w \in Workers /\ w.pc = "between" /\ worker' = [worker EXCEPT ![i][n] = w]
    BY <1>1, <1>5 DEF Starts, Workers
  <2>4. StatusOf(i)' = "Running" /\ \A j \in Transfers : j # i => task'[j] = task[j]
    <3>1. task \in [Transfers -> UNION {Entries(j) : j \in Transfers}] /\ task[i] \in Entries(i)
      BY DEF TypeOK
    <3>2. task' = [task EXCEPT ![i].status = "Running"]
      BY <1>5, <2>1 DEF Starts, Present, SetStatus
    <3>3. QED
      BY <3>1, <3>2 DEF StatusOf, Entries
  <2>5. Moving(i)' = {n} /\ Spawning(i)' = {} /\ worker'[i][n].pc = "between"
    BY <1>2, <2>2, <2>3, <2>4 DEF Moving
  <2>6. WorkInv(i)'
    BY <1>1, <2>1, <2>4, <2>5 DEF WorkInv, Active
  <2>7. Follow(i)
    BY <2>1, <2>4 DEF Follow, Follows
  <2>8. QED
    BY <1>2, <2>3, <2>4, <2>6, <2>7
<1>6. CASE StopsBetween(i, n)
  BY <1>4, <1>6 DEF StopsBetween, WorkerAt
<1>7. CASE MkdirFails(i, n)
  BY <1>4, <1>7 DEF MkdirFails, WorkerAt
<1>8. CASE Breaks(i, n)
  BY <1>4, <1>8 DEF Breaks, WorkerAt
<1>9. CASE Skips(i, n)
  <2> DEFINE w == [worker[i][n] EXCEPT !.file = @ + 1]
  <2>1. /\ w \in Workers /\ w.pc = "between" /\ worker[i][n].pc = "between"
        /\ worker' = [worker EXCEPT ![i][n] = w]
    BY <1>1, <1>9 DEF Skips, Workers, WorkerAt
  <2>2. StatusOf(i)' = StatusOf(i) /\ \A j \in Transfers : j # i => task'[j] = task[j]
    BY <1>9 DEF Skips, StatusOf, TypeOK
  <2>3. QED
    BY <1>3, <2>1, <2>2
<1>10. CASE Opens(i, n)
  <2> DEFINE w == [worker[i][n] EXCEPT !.pc = "moving", !.at = Offset(i, File(i, n))]
  <2>1. Offset(i, File(i, n)) \in Nat
    <3>1. task[i] \in Entries(i)
      BY DEF TypeOK
    <3>2. File(i, n) \in Files(i)
      BY <1>1, <1>10, SizeTypes DEF Opens, File, Workers
    <3>3. QED
      BY <3>1, <3>2 DEF Offset, Entries
  <2>2. /\ w \in Workers /\ w.pc = "moving" /\ worker[i][n].pc = "between"
        /\ worker' = [worker EXCEPT ![i][n] = w]
    BY <1>1, <1>10, <2>1 DEF Opens, Workers, WorkerAt
  <2>3. task' = task
    BY <1>10 DEF Opens
  <2>4. QED
    BY <1>3, <2>2, <2>3 DEF StatusOf
<1>11. ASSUME NEW recorded \in BOOLEAN, Moves(i, n, recorded)
       PROVE  \A j \in Transfers : WorkInv(j)' /\ Follow(j)
  <2> DEFINE w == [worker[i][n] EXCEPT !.at = worker[i][n].at + 1]
  <2>1. /\ w \in Workers /\ w.pc = "moving" /\ worker[i][n].pc = "moving"
        /\ worker' = [worker EXCEPT ![i][n] = w]
    BY <1>1, <1>11 DEF Moves, Workers, WorkerAt
  <2>2. StatusOf(i)' = StatusOf(i) /\ \A j \in Transfers : j # i => task'[j] = task[j]
    BY <1>11 DEF Moves, StatusOf, TypeOK
  <2>3. QED
    BY <1>3, <2>1, <2>2
<1>12. CASE Finishes(i, n)
  <2> DEFINE w == [pc |-> "between", file |-> File(i, n) + 1, at |-> 0]
  <2>1. /\ w \in Workers /\ w.pc = "between" /\ worker[i][n].pc = "moving"
        /\ worker' = [worker EXCEPT ![i][n] = w]
    BY <1>1, <1>12 DEF Finishes, Workers, WorkerAt, File
  <2>2. StatusOf(i)' = StatusOf(i) /\ \A j \in Transfers : j # i => task'[j] = task[j]
    BY <1>12 DEF Finishes, StatusOf, TypeOK
  <2>3. QED
    BY <1>3, <2>1, <2>2
<1>13. CASE Leaves(i, n)
  <2> DEFINE w == [worker[i][n] EXCEPT !.pc = "gone"]
  <2>1. /\ w \in Workers /\ w.pc = "gone" /\ worker[i][n].pc = "stopped"
        /\ worker' = [worker EXCEPT ![i][n] = w]
    BY <1>1, <1>13 DEF Leaves, Workers, WorkerAt
  <2>2. task' = task
    BY <1>13 DEF Leaves
  <2>3. QED
    BY <1>3, <2>1, <2>2 DEF StatusOf
<1>14. QED
  BY <1>5, <1>6, <1>7, <1>8, <1>9, <1>10, <1>11, <1>12, <1>13 DEF WorkerStep

LEMMA WorkOfCalls ==
  ASSUME TypeOK, \A j \in Transfers : WorkInv(j), NEW u \in Users, UserStep(u)
  PROVE  \A j \in Transfers : WorkInv(j)' /\ Follow(j)
<1> SUFFICES ASSUME NEW i \in Transfers,
               \/ Create(u, i) \/ ListingFails(u, i)
               \/ \E known \in Listings : Enqueue(u, i, known)
               \/ Spawn(u, i)
               \/ \E verb \in {"resume", "retry"} : Respawn(u, i, verb) \/ Requeue(u, i, verb)
               \/ Cancel(u, i) \/ CancelSettles(u, i) \/ CancelForgets(u, i)
             PROVE  \A j \in Transfers : WorkInv(j)' /\ Follow(j)
  BY DEF UserStep
<1>1. /\ task \in [Transfers -> UNION {Entries(j) : j \in Transfers}] /\ task[i] \in Entries(i)
      /\ worker \in [Transfers -> Seq(Workers)]
      /\ call \in [Users -> CallStates]
  BY DEF TypeOK
(* Steps that neither list nor start anything.                                *)
<1>2. ASSUME NEW c, call' = [call EXCEPT ![u] = c],
             \A j \in Transfers : /\ c # At("spawn", j) /\ c # At("listing", j)
                                  /\ call[u] # At("spawn", j),
             UNCHANGED <<task, worker>>
      PROVE  \A j \in Transfers : WorkInv(j)' /\ Follow(j)
  <2>1. \A j \in Transfers, v \in Users :
           /\ (call'[v] = At("spawn", j) <=> call[v] = At("spawn", j))
           /\ call'[v] = At("listing", j) => call[v] = At("listing", j)
    BY <1>1, <1>2
  <2>2. QED
    BY <1>2, <2>1, WorkFrame DEF Follow, StatusOf
<1>3. /\ \A j \in Transfers : Idle # At("spawn", j) /\ Idle # At("listing", j)
      /\ \A verb \in {"resume", "retry", "cancel", "forget"}, j \in Transfers :
            At(verb, i) # At("spawn", j) /\ At(verb, i) # At("listing", j)
      /\ \A j \in Transfers : At("listing", i) # At("spawn", j)
      /\ \A j, k \in Transfers : /\ At("spawn", j) = At("spawn", k) => j = k
                                 /\ At("listing", j) = At("listing", k) => j = k
  BY DEF Idle, At
<1>4. CASE ListingFails(u, i)
  <2>1. /\ call[u] = At("listing", i) /\ call' = [call EXCEPT ![u] = Idle]
        /\ UNCHANGED <<task, worker>>
    BY <1>4 DEF ListingFails, Calls
  <2>2. \A j \in Transfers : /\ Idle # At("spawn", j) /\ Idle # At("listing", j)
                             /\ call[u] # At("spawn", j)
    BY <1>3, <2>1
  <2>3. QED
    BY <1>2, <2>1, <2>2
<1>5. CASE \E verb \in {"resume", "retry"} : Respawn(u, i, verb)
  BY <1>2, <1>3, <1>5 DEF Respawn, Calls
<1>6. CASE Cancel(u, i)
  BY <1>2, <1>3, <1>6 DEF Cancel, Calls
<1>7. CASE CancelForgets(u, i)
  <2>1. /\ call[u] = At("forget", i) /\ call' = [call EXCEPT ![u] = Idle]
        /\ UNCHANGED <<task, worker>>
    BY <1>7 DEF CancelForgets, Calls
  <2>2. \A j \in Transfers : /\ Idle # At("spawn", j) /\ Idle # At("listing", j)
                             /\ call[u] # At("spawn", j)
    BY <1>3, <2>1
  <2>3. QED
    BY <1>2, <2>1, <2>2
<1>8. \A j \in Transfers : StatusOf(j) \notin Active => Moving(j) = {} /\ Spawning(j) = {}
  BY DEF WorkInv, Active
<1>9. CASE Create(u, i)
  <2>1. /\ StatusOf(i) = "new" /\ call[u] = Idle /\ UNCHANGED <<task, worker>>
        /\ call' = [call EXCEPT ![u] = At("listing", i)]
        /\ \A v \in Users : call[v] # At("listing", i)
    BY <1>9 DEF Create, Calls
  <2>2. \A j \in Transfers, v \in Users :
           /\ (call'[v] = At("spawn", j) <=> call[v] = At("spawn", j))
           /\ (j # i \/ v # u) /\ call'[v] = At("listing", j) => call[v] = At("listing", j)
    BY <1>1, <1>3, <2>1
  <2>3. \A j \in Transfers : j # i => WorkInv(j)'
    BY <2>1, <2>2, WorkFrame
  <2>4. Moving(i)' = Moving(i) /\ Spawning(i)' = Spawning(i) /\ StatusOf(i)' = StatusOf(i)
    BY <2>1, <2>2 DEF Moving, Spawning, StatusOf, WorkerAt
  <2>5. WorkInv(i)'
    BY <2>1, <2>2, <2>4 DEF WorkInv
  <2>6. QED
    BY <2>1, <2>3, <2>5 DEF Follow, StatusOf
<1>10. ASSUME NEW known \in Listings, Enqueue(u, i, known)
       PROVE  \A j \in Transfers : WorkInv(j)' /\ Follow(j)
  <2> DEFINE entry == [status |-> "Queued", sent |-> Zeros(i), size |-> Listed(i, known)]
             tasks == [task EXCEPT ![i] = entry]
  <2>1. /\ call[u] = At("listing", i) /\ call' = [call EXCEPT ![u] = At("spawn", i)]
        /\ task' = Prune(tasks, Append(order, i)).task /\ worker' = worker
    BY <1>10 DEF Enqueue, Calls
  <2>2. StatusOf(i) = "new" /\ Spawning(i) = {} /\ Moving(i) = {} /\ worker[i] = <<>>
    BY <1>8, <2>1 DEF WorkInv, Active
  <2>3. tasks[i] = entry /\ \A j \in Transfers : j # i => tasks[j] = task[j]
    BY <1>1
  <2> HIDE DEF tasks
  <2>4. StatusOf(i)' = "Queued"
    <3>1. tasks[i].status \notin Terminal
      BY <2>3 DEF Terminal
    <3>2. task'[i] = entry
      BY <2>1, <2>3, <3>1, PruneEntry
    <3>3. QED
      BY <3>2 DEF StatusOf
  <2>5. \A j \in Transfers, v \in Users :
           /\ (j # i \/ v # u) => (call'[v] = At("spawn", j) <=> call[v] = At("spawn", j))
           /\ call'[v] = At("listing", j) => call[v] = At("listing", j) /\ v # u
    <3>1. call'[u] = At("spawn", i) /\ \A v \in Users : v # u => call'[v] = call[v]
      BY <1>1, <2>1
    <3>2. \A j \in Transfers : At("spawn", i) # At("listing", j)
      BY DEF At
    <3>3. QED
      BY <1>3, <2>1, <3>1, <3>2
  <2>6. ASSUME NEW j \in Transfers, j # i PROVE WorkInv(j)' /\ Follow(j)
    <3>1. CASE task'[j] = task[j]
      BY <2>1, <2>5, <2>6, <3>1, WorkFrame DEF Follow, StatusOf
    <3>2. CASE task[j].status \in Terminal /\ task'[j] = [task[j] EXCEPT !.status = "gone"]
      <4>1. task'[j].status = "gone"
        BY <3>2 DEF TypeOK, Entries
      <4>2. WorkInv(j)'
        BY <2>1, <2>5, <2>6, <3>2, <4>1, GoneFrame
      <4>3. Follow(j)
        BY <3>2, <4>1 DEF Follow, Follows, StatusOf, Terminal
      <4>4. QED
        BY <4>2, <4>3
    <3>3. QED
      BY <2>1, <2>3, <2>6, <3>1, <3>2, PruneEntry
  <2>7. Spawning(i)' = {u} /\ Moving(i)' = {}
    BY <1>1, <2>1, <2>2, <2>5 DEF Spawning, Moving, WorkerAt
  <2>8. Len(worker'[i]) < MaxRuns[i]
    BY <2>1, <2>2, TransferAssumption
  <2>9. \A v \in Users : call'[v] # At("listing", i)
    BY <2>1, <2>5 DEF WorkInv
  <2>10. WorkInv(i)'
    BY <2>4, <2>7, <2>8, <2>9 DEF WorkInv
  <2>11. QED
    BY <2>2, <2>4, <2>6, <2>10 DEF Follow, Follows
<1>11. CASE Spawn(u, i)
  <2> DEFINE w == [pc |-> "start", file |-> 1, at |-> 0]
             n == Len(worker[i]) + 1
  <2>1. /\ call[u] = At("spawn", i) /\ call' = [call EXCEPT ![u] = Idle]
        /\ w \in Workers /\ worker' = [worker EXCEPT ![i] = Append(@, w)] /\ task' = task
    BY <1>11 DEF Spawn, Calls, Workers
  <2>2. Spawning(i) = {u} /\ Moving(i) = {} /\ StatusOf(i) = "Queued"
    BY <2>1 DEF Spawning, WorkInv
  <2>3. /\ n \in Nat /\ n \notin DOMAIN worker[i] /\ n \in Runs /\ n # 0
    <3>1. Len(worker[i]) < MaxRuns[i]
      BY <2>2 DEF WorkInv
    <3>2. Len(worker[i]) \in Nat /\ DOMAIN worker[i] = 1..Len(worker[i])
      BY <1>1
    <3>3. QED
      BY <3>1, <3>2, TransferAssumption DEF Runs
  <2>4. /\ DOMAIN worker'[i] = DOMAIN worker[i] \cup {n}
        /\ worker'[i][n] = w /\ worker'[i] # <<>>
        /\ \A m \in DOMAIN worker[i] : worker'[i][m] = worker[i][m]
        /\ \A j \in Transfers : j # i => worker'[j] = worker[j]
    <3>1. /\ DOMAIN worker'[i] = DOMAIN worker[i] \cup {n}
          /\ worker'[i][n] = w /\ Len(worker'[i]) = n
          /\ \A m \in DOMAIN worker[i] : worker'[i][m] = worker[i][m]
          /\ \A j \in Transfers : j # i => worker'[j] = worker[j]
      BY <2>1, AddWorker
    <3>2. worker'[i] # <<>>
      BY <2>3, <3>1
    <3>3. QED
      BY <3>1, <3>2
  <2> HIDE DEF n
  <2>5. Moving(i)' = {n} /\ worker'[i][n].pc = "start"
    BY <2>2, <2>3, <2>4 DEF Moving, WorkerAt
  <2>6. \A j \in Transfers, v \in Users :
           /\ (j # i \/ v # u) => (call'[v] = At("spawn", j) <=> call[v] = At("spawn", j))
           /\ call'[v] = At("listing", j) => call[v] = At("listing", j)
           /\ call'[u] # At("spawn", j)
    BY <1>1, <1>3, <2>1
  <2>7. Spawning(i)' = {}
    BY <2>2, <2>6 DEF Spawning
  <2>8. \A j \in Transfers : j # i => WorkInv(j)'
    BY <2>1, <2>4, <2>6, WorkFrame
  <2>9. StatusOf(i)' = "Queued"
    BY <2>1, <2>2 DEF StatusOf
  <2>10. WorkInv(i)'
    BY <2>2, <2>5, <2>6, <2>7, <2>9 DEF WorkInv
  <2>11. QED
    BY <2>1, <2>8, <2>10 DEF Follow, StatusOf
<1>12. ASSUME NEW verb \in {"resume", "retry"}, Requeue(u, i, verb)
       PROVE  \A j \in Transfers : WorkInv(j)' /\ Follow(j)
  <2>1. CASE StatusOf(i) \in Allowed(verb) /\ Bound(i)
    <3>1. /\ StatusOf(i) \in {"Paused", "Failed", "Cancelled"} /\ Len(worker[i]) < MaxRuns[i]
          /\ task' = [task EXCEPT ![i].status = "Queued"] /\ worker' = worker
          /\ call[u] = At(verb, i) /\ call' = [call EXCEPT ![u] = At("spawn", i)]
      BY <1>12, <2>1 DEF Requeue, Allowed, Bound, SetStatus
    <3>2. StatusOf(i)' = "Queued" /\ \A j \in Transfers : j # i => task'[j] = task[j]
      BY <1>1, <3>1 DEF StatusOf, Entries
    <3>3. Moving(i) = {} /\ Spawning(i) = {} /\ StatusOf(i) # "new"
      BY <1>8, <3>1 DEF Active
    <3>4. \A j \in Transfers, v \in Users :
             /\ (j # i \/ v # u) => (call'[v] = At("spawn", j) <=> call[v] = At("spawn", j))
             /\ call'[v] = At("listing", j) => call[v] = At("listing", j)
      <4>1. call'[u] = At("spawn", i) /\ \A v \in Users : v # u => call'[v] = call[v]
        BY <1>1, <3>1
      <4>2. \A j \in Transfers : At("spawn", i) # At("listing", j)
        BY DEF At
      <4>3. QED
        BY <1>3, <3>1, <4>1, <4>2
    <3>5. Spawning(i)' = {u} /\ Moving(i)' = {}
      BY <1>1, <3>1, <3>3, <3>4 DEF Spawning, Moving, WorkerAt
    <3>6. \A j \in Transfers : j # i => WorkInv(j)' /\ Follow(j)
      BY <3>1, <3>2, <3>4, WorkFrame DEF Follow, StatusOf
    <3>7. \A v \in Users : call'[v] # At("listing", i)
      BY <3>3, <3>4 DEF WorkInv
    <3>8. WorkInv(i)'
      BY <3>1, <3>2, <3>5, <3>7 DEF WorkInv
    <3>9. QED
      BY <3>1, <3>2, <3>6, <3>8 DEF Follow, Follows
  <2>2. CASE ~(StatusOf(i) \in Allowed(verb) /\ Bound(i))
    <3>1. /\ call[u] = At(verb, i) /\ call' = [call EXCEPT ![u] = Idle]
          /\ UNCHANGED <<task, worker>>
      BY <1>12, <2>2 DEF Requeue
    <3>2. \A j \in Transfers : /\ Idle # At("spawn", j) /\ Idle # At("listing", j)
                               /\ call[u] # At("spawn", j)
      BY <1>3, <3>1
    <3>3. QED
      BY <1>2, <3>1, <3>2
  <2>3. QED
    BY <2>1, <2>2
<1>13. CASE CancelSettles(u, i)
  <2>1. CASE StatusOf(i) = "Paused"
    <3>1. /\ task' = [task EXCEPT ![i].status = "Cancelled"] /\ worker' = worker
          /\ call[u] = At("cancel", i) /\ call' = [call EXCEPT ![u] = At("forget", i)]
      BY <1>13, <2>1 DEF CancelSettles, SetStatus
    <3>2. StatusOf(i)' = "Cancelled" /\ \A j \in Transfers : j # i => task'[j] = task[j]
      BY <1>1, <3>1 DEF StatusOf, Entries
    <3>3. Moving(i) = {} /\ Spawning(i) = {}
      BY <1>8, <2>1 DEF Active
    <3>4. \A j \in Transfers, v \in Users :
             /\ (call'[v] = At("spawn", j) <=> call[v] = At("spawn", j))
             /\ call'[v] = At("listing", j) => call[v] = At("listing", j)
      BY <1>1, <1>3, <3>1
    <3>5. Spawning(i)' = {} /\ Moving(i)' = {}
      BY <3>1, <3>3, <3>4 DEF Spawning, Moving, WorkerAt
    <3>6. \A j \in Transfers : j # i => WorkInv(j)' /\ Follow(j)
      BY <3>1, <3>2, <3>4, WorkFrame DEF Follow, StatusOf
    <3>7. \A v \in Users : call'[v] # At("listing", i)
      BY <2>1, <3>4 DEF WorkInv
    <3>8. WorkInv(i)'
      BY <3>1, <3>2, <3>5, <3>7 DEF WorkInv, Active
    <3>9. QED
      BY <2>1, <3>2, <3>6, <3>8 DEF Follow, Follows
  <2>2. CASE StatusOf(i) # "Paused"
    BY <1>2, <1>3, <1>13, <2>2 DEF CancelSettles
  <2>3. QED
    BY <2>1, <2>2
<1>14. QED
  BY <1>4, <1>5, <1>6, <1>7, <1>9, <1>10, <1>11, <1>12, <1>13

LEMMA WorkOfTable ==
  ASSUME TypeOK, \A j \in Transfers : WorkInv(j), TableStep
  PROVE  \A j \in Transfers : WorkInv(j)' /\ Follow(j)
<1>1. ASSUME NEW i \in Transfers, Pause(i)
      PROVE  \A j \in Transfers : WorkInv(j)' /\ Follow(j)
  BY <1>1, WorkFrame DEF Pause, Follow, StatusOf
<1>2. ASSUME NEW ids, Clear(ids)
      PROVE  \A j \in Transfers : WorkInv(j)' /\ Follow(j)
  <2> SUFFICES ASSUME NEW j \in Transfers PROVE WorkInv(j)' /\ Follow(j)
    OBVIOUS
  <2>1. /\ worker' = worker /\ call' = call
        /\ task'[j] = IF j \in ids THEN [task[j] EXCEPT !.status = "gone"] ELSE task[j]
        /\ j \in ids => StatusOf(j) \in Terminal
    BY <1>2 DEF Clear
  <2>2. CASE j \in ids
    <3>1. task[j].status \in Terminal /\ task'[j].status = "gone"
      BY <2>1, <2>2 DEF StatusOf, TypeOK, Entries
    <3>2. WorkInv(j)'
      BY <2>1, <3>1, GoneFrame
    <3>3. QED
      BY <3>1, <3>2 DEF Follow, Follows, StatusOf, Terminal
  <2>3. CASE j \notin ids
    BY <2>1, <2>3, WorkFrame DEF Follow, StatusOf
  <2>4. QED
    BY <2>2, <2>3
<1>3. QED
  BY <1>1, <1>2 DEF TableStep

(* The inductive invariant of the calls and the workers.                      *)
Inv == TypeOK /\ MovesFile /\ \A i \in Transfers : WorkInv(i)

LEMMA InvInit == Init => Inv
<1> SUFFICES ASSUME Init PROVE Inv
  OBVIOUS
<1>0. DOMAIN <<>> = {}
  OBVIOUS
<1>1. \A i \in Transfers :
        /\ task[i] = [status |-> "new", sent |-> Zeros(i), size |-> Zeros(i)]
        /\ worker[i] = <<>> /\ written[i] = Zeros(i) /\ controls[i] = 0
  BY DEF Init
<1>2. ASSUME NEW i \in Transfers
      PROVE  task[i] \in Entries(i) /\ written[i] \in [Files(i) -> Nat]
  <2>1. Zeros(i) \in [Files(i) -> Nat] /\ "new" \in Statuses
    BY SizeTypes DEF Statuses
  <2>2. [status |-> "new", sent |-> Zeros(i), size |-> Zeros(i)] \in Entries(i)
    BY <2>1 DEF Entries
  <2>3. task[i] = [status |-> "new", sent |-> Zeros(i), size |-> Zeros(i)] /\ written[i] = Zeros(i)
    BY <1>1
  <2>4. QED
    BY <2>1, <2>2, <2>3
<1>3. TypeOK
  <2>1. task \in [Transfers -> UNION {Entries(i) : i \in Transfers}]
    BY <1>2 DEF Init
  <2>2. written \in [Transfers -> UNION {[Files(i) -> Nat] : i \in Transfers}]
    BY <1>2 DEF Init
  <2>3. worker \in [Transfers -> Seq(Workers)] /\ controls \in [Transfers -> {0} \cup Runs]
    BY DEF Init
  <2>4. call \in [Users -> CallStates] /\ flags = {} /\ late = {}
    BY DEF Init, CallStates
  <2>5. QED
    BY <1>2, <2>1, <2>2, <2>3, <2>4 DEF TypeOK
<1>4. ASSUME NEW i \in Transfers PROVE WorkInv(i)
  <2>0. worker[i] = <<>> /\ task[i].status = "new"
    BY DEF Init
  <2>1. StatusOf(i) = "new" /\ Moving(i) = {} /\ worker[i] = <<>>
    BY <1>0, <2>0 DEF StatusOf, Moving, WorkerAt
  <2>2. \A u \in Users, pc \in {"spawn", "listing"} : call[u] # At(pc, i)
    BY DEF Init, Idle, At
  <2>3. QED
    BY <2>1, <2>2 DEF WorkInv, Spawning, Active
<1>5. QED
  BY <1>0, <1>1, <1>3, <1>4 DEF Inv, MovesFile

LEMMA InvStep == Inv /\ [Next]_vars => Inv' /\ \A i \in Transfers : Follow(i)
<1> SUFFICES ASSUME Inv, [Next]_vars PROVE Inv' /\ \A i \in Transfers : Follow(i)
  OBVIOUS
<1>0. SpawnBound
  BY DEF Inv, WorkInv, Spawning, SpawnBound
<1>1. ASSUME NEW u \in Users, UserStep(u) PROVE Inv' /\ \A i \in Transfers : Follow(i)
  BY <1>0, <1>1, CallTypes, WorkOfCalls DEF Inv
<1>2. CASE TableStep
  BY <1>2, TableTypes, WorkOfTable DEF Inv
<1>3. ASSUME NEW i \in Transfers, NEW n \in Runs, WorkerStep(i, n)
      PROVE  Inv' /\ \A j \in Transfers : Follow(j)
  BY <1>3, WorkerTypes, WorkOfWorkers DEF Inv
<1>3a. ASSUME NEW w \in late, Lands(w) \/ IsLost(w)
       PROVE  Inv' /\ \A j \in Transfers : Follow(j)
  <2>1. TypeOK' /\ MovesFile' /\ UNCHANGED <<task, worker, call>>
    BY <1>3a, LateTypes DEF Inv
  <2>2. \A j \in Transfers : WorkInv(j)' /\ Follow(j)
    BY <2>1, WorkFrame DEF Inv, Follow, StatusOf
  <2>3. QED
    BY <2>1, <2>2 DEF Inv
<1>4. CASE UNCHANGED vars
  <2>1. TypeOK' /\ MovesFile'
    BY <1>4 DEF vars, Inv, TypeOK, MovesFile
  <2>2. \A i \in Transfers : WorkInv(i)' /\ Follow(i)
    BY <1>4, WorkFrame DEF vars, Inv, Follow, StatusOf
  <2>3. QED
    BY <2>1, <2>2 DEF Inv
<1>5. QED
  BY <1>1, <1>2, <1>3, <1>3a, <1>4 DEF Next

(* The table, the workers, the targets and the calls have their types in      *)
(* every reachable state.                                                     *)
THEOREM TransferTypeCorrect == Spec => []TypeOK
<1>1. Inv => TypeOK
  BY DEF Inv
<1>2. QED
  BY <1>1, InvInit, InvStep, PTL DEF Spec

(* However resume, retry, cancel and the ends of workers meet, a transfer     *)
(* that is queued or running has exactly one worker, or one call about to     *)
(* start it, and any other has none.                                          *)
THEOREM OneWorkerCorrect == Spec => []ActiveHasOneWorker
<1>1. Inv => ActiveHasOneWorker
  <2> SUFFICES ASSUME Inv, NEW i \in Transfers
               PROVE  Cardinality(Moving(i)) + Cardinality(Spawning(i))
                        = (IF StatusOf(i) \in Active THEN 1 ELSE 0)
    BY DEF ActiveHasOneWorker, Spawning
  <2>1. ASSUME NEW S, \A x, y \in S : x = y
        PROVE  Cardinality(S) = IF S = {} THEN 0 ELSE 1
    <3>1. CASE S = {}
      BY <3>1, FS_EmptySet
    <3>2. CASE S # {}
      <4>1. PICK x \in S : S = {x}
        BY <2>1, <3>2
      <4>2. QED
        BY <4>1, FS_Singleton
    <3>3. QED
      BY <3>1, <3>2
  <2>2. WorkInv(i)
    BY DEF Inv
  <2>3. /\ Cardinality(Moving(i)) = IF Moving(i) = {} THEN 0 ELSE 1
        /\ Cardinality(Spawning(i)) = IF Spawning(i) = {} THEN 0 ELSE 1
    BY <2>1, <2>2 DEF WorkInv
  <2>4. CASE StatusOf(i) \in Active
    BY <2>2, <2>3, <2>4 DEF WorkInv
  <2>5. CASE StatusOf(i) \notin Active
    <3>1. Moving(i) = {} /\ Spawning(i) = {}
      BY <2>2, <2>5 DEF WorkInv, Active
    <3>2. QED
      BY <2>3, <2>5, <3>1
  <2>6. QED
    BY <2>4, <2>5
<1>2. QED
  BY <1>1, InvInit, InvStep, PTL DEF Spec

(* A last status is only left by a retry, and no worker of an earlier run     *)
(* overwrites what a later one has set.                                       *)
THEOREM FollowsCorrect == Spec => StatusFollows
<1>1. Inv /\ [Next]_vars =>
        [\A i \in Transfers : StatusOf(i)' # StatusOf(i)
            => StatusOf(i)' \in Follows[StatusOf(i)]]_vars
  BY InvStep DEF Follow
<1>2. QED
  BY <1>1, InvInit, InvStep, PTL DEF Spec, StatusFollows

-----------------------------------------------------------------------------
(* What the target of upload i holds: at least what is recorded, and at least *)
(* what the worker that is moving a file has moved; the files before the one  *)
(* that is moved are whole, and all are at the end.                           *)
DataInv(i) ==
  /\ \A f \in Files(i) : /\ task[i].sent[f] <= written[i][f]
                         /\ written[i][f] <= FileSizes[i][f]
  /\ \A n \in Moving(i) :
       worker[i][n].pc = "moving" => worker[i][n].at <= written[i][worker[i][n].file]
  /\ Present(i) => task[i].size = FileSizes[i]
  /\ \A n \in Moving(i), g \in Files(i) :
       g < worker[i][n].file => written[i][g] = FileSizes[i][g]
  /\ StatusOf(i) = "Done" => \A g \in Files(i) : written[i][g] = FileSizes[i][g]

LEMMA DataFrame ==
  ASSUME NEW i \in Transfers, DataInv(i), worker'[i] = worker[i], written'[i] = written[i],
         task'[i].sent = task[i].sent, task'[i].size = task[i].size,
         \/ task'[i].status = task[i].status
         \/ task'[i].status # "Done" /\ (Present(i) \/ task'[i].status = "gone")
  PROVE  DataInv(i)'
<1>1. Moving(i)' = Moving(i)
  BY DEF Moving, WorkerAt
<1>2. Present(i)' => Present(i)
  BY DEF Present, StatusOf
<1>3. StatusOf(i)' = "Done" => StatusOf(i) = "Done"
  BY DEF StatusOf
<1>4. QED
  BY <1>1, <1>2, <1>3 DEF DataInv

LEMMA DataOfWorkers ==
  ASSUME Inv, \A j \in Uploads : DataInv(j), NEW i \in Transfers, i \in Uploads,
         NEW n \in Runs, WorkerStep(i, n)
  PROVE  \A j \in Uploads : DataInv(j)'
<1> DEFINE w == worker[i][n]
           f == File(i, n)
<1>1. /\ n \in DOMAIN worker[i] /\ w \in Workers /\ f \in Nat \ {0} /\ w.at \in Nat
  <2>1. n \in DOMAIN worker[i]
    BY DEF WorkerStep, Starts, StopsBetween, MkdirFails, Skips, Opens, Moves,
           Finishes, Breaks, Leaves, WorkerAt
  <2>2. worker[i] \in Seq(Workers)
    BY DEF Inv, TypeOK
  <2>3. w \in Workers
    BY <2>1, <2>2
  <2>4. QED
    BY <2>1, <2>3 DEF Workers, File
<1>2. /\ task \in [Transfers -> UNION {Entries(j) : j \in Transfers}]
      /\ task[i] \in Entries(i) /\ task[i].sent \in [Files(i) -> Nat]
      /\ written[i] \in [Files(i) -> Nat]
      /\ Files(i) = 1..Len(FileSizes[i]) /\ Len(FileSizes[i]) \in Nat
      /\ FileSizes[i] \in [Files(i) -> Nat]
      /\ f <= Len(FileSizes[i]) => f \in Files(i)
  <2>1. task[i] \in Entries(i) /\ written[i] \in [Files(i) -> Nat]
        /\ task \in [Transfers -> UNION {Entries(j) : j \in Transfers}]
    BY DEF Inv, TypeOK
  <2>2. /\ Files(i) = 1..Len(FileSizes[i]) /\ Len(FileSizes[i]) \in Nat
        /\ FileSizes[i] \in [Files(i) -> Nat]
    BY SizeTypes
  <2>3. task[i].sent \in [Files(i) -> Nat]
    BY <2>1 DEF Entries
  <2>4. f <= Len(FileSizes[i]) => f \in Files(i)
    BY <1>1, <2>2
  <2>5. QED
    BY <2>1, <2>2, <2>3, <2>4
<1>3. Inv /\ DataInv(i) /\ WorkInv(i)
  BY DEF Inv
(* The others are not touched.                                                *)
<1>4. ASSUME NEW v \in Workers, worker' = [worker EXCEPT ![i][n] = v],
             \A j \in Transfers : j # i => task'[j] = task[j] /\ written'[j] = written[j]
      PROVE  /\ \A j \in Uploads : j # i => DataInv(j)'
             /\ DOMAIN worker'[i] = DOMAIN worker[i] /\ worker'[i][n] = v
             /\ \A m \in DOMAIN worker[i] : m # n => worker'[i][m] = worker[i][m]
  BY <1>1, <1>3, <1>4, SetWorker, DataFrame, TransferAssumption DEF Inv
(* The one that works on the transfer makes a step.                           *)
<1>5. ASSUME NEW v \in Workers, worker' = [worker EXCEPT ![i][n] = v],
             \A j \in Transfers : j # i => task'[j] = task[j] /\ written'[j] = written[j],
             w.pc \in {"start", "between", "moving"},
             \A g \in Files(i) : /\ task'[i].sent[g] <= written'[i][g]
                                 /\ written'[i][g] <= FileSizes[i][g],
             v.pc = "moving" => v.at <= written'[i][v.file],
             i \in Uploads =>
               /\ Present(i) => task'[i].size = FileSizes[i]
               /\ v.pc \in {"start", "between", "moving"} =>
                    \A g \in Files(i) : g < v.file => written'[i][g] = FileSizes[i][g]
               /\ task'[i].status = "Done" =>
                    \A g \in Files(i) : written'[i][g] = FileSizes[i][g]
      PROVE  \A j \in Uploads : DataInv(j)'
  <2>1. n \in Moving(i) /\ Present(i)
    BY <1>1, <1>3, <1>5 DEF Moving, WorkerAt, WorkInv, Present
  <2>2. worker'[i][n] = v /\ DOMAIN worker'[i] = DOMAIN worker[i]
    BY <1>4, <1>5
  <2>3. \A m \in Moving(i)' : m = n /\ v.pc \in {"start", "between", "moving"}
    <3> SUFFICES ASSUME NEW m \in Moving(i)'
                 PROVE  m = n /\ v.pc \in {"start", "between", "moving"}
      OBVIOUS
    <3>1. m \in Runs /\ m \in DOMAIN worker[i] /\ worker'[i][m].pc \in {"start", "between", "moving"}
      BY <2>2 DEF Moving, WorkerAt
    <3>2. m # n => m \in Moving(i)
      BY <1>4, <1>5, <3>1 DEF Moving, WorkerAt
    <3>3. QED
      BY <1>3, <2>1, <2>2, <3>1, <3>2 DEF WorkInv
  <2>4. DataInv(i)'
    <3>1. \A m \in Moving(i)' :
             worker'[i][m].pc = "moving" => worker'[i][m].at <= written'[i][worker'[i][m].file]
      BY <1>5, <2>2, <2>3
    <3>2. i \in Uploads =>
            /\ task'[i].size = FileSizes[i]
            /\ \A m \in Moving(i)', g \in Files(i) :
                 g < worker'[i][m].file => written'[i][g] = FileSizes[i][g]
            /\ task'[i].status = "Done" => \A g \in Files(i) : written'[i][g] = FileSizes[i][g]
      BY <1>5, <2>1, <2>2, <2>3
    <3>3. QED
      BY <1>5, <3>1, <3>2 DEF DataInv, StatusOf
  <2>5. QED
    BY <1>4, <1>5, <2>4
(* The run is over.                                                           *)
<1>6. ASSUME NEW status \in {"Paused", "Done", "Failed", "Cancelled"}, Stop(i, n, status),
             w.pc \in {"between", "moving"},
             status = "Done" => w.pc = "between" /\ f > Len(FileSizes[i])
      PROVE  \A j \in Uploads : DataInv(j)'
  <2>1. n \in Moving(i) /\ Present(i)
    BY <1>1, <1>3, <1>6 DEF Moving, WorkerAt, WorkInv, Present
  <2>2. /\ task' = [task EXCEPT ![i] = [task[i] EXCEPT !.status = status]]
        /\ worker' = [worker EXCEPT ![i][n] = worker'[i][n]]
        /\ worker'[i][n] \in Workers /\ worker'[i][n].pc \in {"stopped", "gone"}
        /\ written' = written
    BY <1>1, <1>3, <1>6, <2>1, StopFacts DEF Inv
  <2>3. /\ task'[i].sent = task[i].sent /\ task'[i].size = task[i].size
        /\ task'[i].status = status
        /\ \A j \in Transfers : j # i => task'[j] = task[j]
    BY <1>2, <2>2 DEF Entries
  <2>4. /\ i \in Uploads /\ status = "Done" =>
             \A g \in Files(i) : written[i][g] = FileSizes[i][g]
        /\ i \in Uploads => task[i].size = FileSizes[i]
    BY <1>1, <1>2, <1>3, <1>6, <2>1 DEF DataInv, File
  <2>5. \A g \in Files(i) : /\ task'[i].sent[g] <= written'[i][g]
                            /\ written'[i][g] <= FileSizes[i][g]
    BY <1>3, <2>2, <2>3 DEF DataInv
  <2>6. QED
    BY <1>5, <1>6, <2>2, <2>3, <2>4, <2>5
<1>7. CASE Starts(i, n)
  <2> DEFINE v == [w EXCEPT !.pc = "between"]
  <2>1. /\ v \in Workers /\ v.pc = "between" /\ v.file = w.file /\ w.pc = "start"
        /\ worker' = [worker EXCEPT ![i][n] = v] /\ written' = written
    BY <1>1, <1>7 DEF Starts, Workers, WorkerAt
  <2>2. n \in Moving(i)
    BY <1>1, <1>7 DEF Starts, Moving, WorkerAt
  <2>3. /\ task'[i].sent = task[i].sent /\ task'[i].size = task[i].size
        /\ task'[i].status = "Running"
        /\ \A j \in Transfers : j # i => task'[j] = task[j]
    <3>1. Present(i)
      BY <1>3, <2>2 DEF WorkInv, Present
    <3>2. task' = [task EXCEPT ![i].status = "Running"]
      BY <1>7, <3>1 DEF Starts, SetStatus
    <3>3. QED
      BY <1>2, <3>2 DEF Entries
  <2>4. QED
    BY <1>3, <1>5, <2>1, <2>2, <2>3 DEF DataInv
<1>8. CASE StopsBetween(i, n)
  BY <1>1, <1>6, <1>8 DEF StopsBetween, WorkerAt
<1>9. CASE MkdirFails(i, n)
  BY <1>6, <1>9 DEF MkdirFails, WorkerAt
<1>10. CASE Breaks(i, n)
  BY <1>6, <1>10 DEF Breaks, WorkerAt
(* The file that is skipped is as long as was recorded.                       *)
<1>11. CASE Skips(i, n)
  <2> DEFINE v == [w EXCEPT !.file = @ + 1]
  <2>1. /\ v \in Workers /\ v.pc = "between" /\ w.pc = "between" /\ v.file = f + 1
        /\ worker' = [worker EXCEPT ![i][n] = v] /\ written' = written
    BY <1>1, <1>11 DEF Skips, Workers, WorkerAt, File
  <2>2. n \in Moving(i) /\ f \in Files(i) /\ Complete(i, f)
    BY <1>1, <1>2, <1>11 DEF Skips, Moving, WorkerAt
  <2>3. /\ task'[i].sent = [task[i].sent EXCEPT ![f] = task[i].size[f]]
        /\ task'[i].size = task[i].size /\ task'[i].status = task[i].status
        /\ \A j \in Transfers : j # i => task'[j] = task[j]
    <3>1. task' = [task EXCEPT ![i].sent[f] = task[i].size[f]]
      BY <1>11 DEF Skips
    <3>2. QED
      BY <1>2, <3>1 DEF Entries
  <2>4. /\ task[i].size[f] \in Nat /\ task[i].size[f] <= task[i].sent[f]
        /\ task[i].sent[f] \in Nat /\ written[i][f] \in Nat /\ FileSizes[i][f] \in Nat
    BY <1>2, <2>2 DEF Complete, Offset, Entries
  <2>5. \A g \in Files(i) : task'[i].sent[g] <= written[i][g]
    <3>1. task'[i].sent[f] <= written[i][f]
      BY <1>2, <1>3, <2>2, <2>3, <2>4 DEF DataInv
    <3>2. QED
      BY <1>2, <1>3, <2>3, <3>1 DEF DataInv
  <2>6. i \in Uploads => \A g \in Files(i) : g < f + 1 => written[i][g] = FileSizes[i][g]
    <3> SUFFICES ASSUME i \in Uploads, NEW g \in Files(i), g < f + 1
                 PROVE  written[i][g] = FileSizes[i][g]
      OBVIOUS
    <3>1. CASE g < f
      BY <1>3, <2>2, <3>1 DEF DataInv, File
    <3>2. CASE g = f
      <4>1. task[i].size[f] = FileSizes[i][f]
        BY <1>3, <2>2 DEF DataInv, WorkInv, Present
      <4>2. task[i].sent[f] <= written[i][f] /\ written[i][f] <= FileSizes[i][f]
        BY <1>3, <2>2 DEF DataInv
      <4>3. QED
        BY <2>4, <3>2, <4>1, <4>2
    <3>3. QED
      BY <1>1, <1>2, <3>1, <3>2
  <2>7. i \in Uploads => (Present(i) => task'[i].size = FileSizes[i]) /\ task'[i].status # "Done"
    BY <1>3, <2>2, <2>3 DEF DataInv, WorkInv, StatusOf
  <2>8. QED
    BY <1>3, <1>5, <2>1, <2>3, <2>5, <2>6, <2>7 DEF DataInv
<1>12. CASE Opens(i, n)
  <2> DEFINE v == [w EXCEPT !.pc = "moving", !.at = Offset(i, f)]
  <2>1. n \in Moving(i) /\ f \in Files(i) /\ Offset(i, f) = task[i].sent[f] /\ Offset(i, f) \in Nat
    BY <1>1, <1>2, <1>12 DEF Opens, Moving, WorkerAt, Offset
  <2>2. /\ v \in Workers /\ v.pc = "moving" /\ w.pc = "between" /\ v.file = f
        /\ v.at = task[i].sent[f]
        /\ worker' = [worker EXCEPT ![i][n] = v] /\ task' = task
    BY <1>1, <1>12, <2>1 DEF Opens, Workers, WorkerAt, File
  <2>3. /\ written'[i] = IF task[i].sent[f] = 0 THEN [written[i] EXCEPT ![f] = 0] ELSE written[i]
        /\ \A j \in Transfers : j # i => written'[j] = written[j]
    <3>1. written' = IF task[i].sent[f] = 0 THEN [written EXCEPT ![i][f] = 0] ELSE written
      BY <1>12, <2>1 DEF Opens
    <3>2. written \in [Transfers -> UNION {[Files(j) -> Nat] : j \in Transfers}]
      BY <1>3 DEF Inv, TypeOK
    <3>3. QED
      BY <3>1, <3>2
  <2>4. \A g \in Files(i) : /\ task[i].sent[g] <= written'[i][g]
                            /\ written'[i][g] <= FileSizes[i][g]
    <3> SUFFICES ASSUME NEW g \in Files(i)
                 PROVE  task[i].sent[g] <= written'[i][g] /\ written'[i][g] <= FileSizes[i][g]
      OBVIOUS
    <3>1. task[i].sent[g] <= written[i][g] /\ written[i][g] <= FileSizes[i][g]
      BY <1>3 DEF DataInv
    <3>2. task[i].sent[g] \in Nat /\ FileSizes[i][g] \in Nat
      BY <1>2
    <3>3. CASE g = f /\ task[i].sent[f] = 0
      BY <1>2, <2>3, <3>2, <3>3
    <3>4. CASE ~(g = f /\ task[i].sent[f] = 0)
      <4>1. written'[i][g] = written[i][g]
        BY <1>2, <2>3, <3>4
      <4>2. QED
        BY <3>1, <4>1
    <3>5. QED
      BY <3>3, <3>4
  <2>5. i \in Uploads =>
          /\ Present(i) => task[i].size = FileSizes[i]
          /\ \A g \in Files(i) : g < f => written'[i][g] = FileSizes[i][g]
          /\ task[i].status # "Done"
    <3>1. \A g \in Files(i) : g < f => written'[i][g] = written[i][g]
      BY <1>1, <1>2, <2>3
    <3>2. i \in Uploads => \A g \in Files(i) : g < f => written[i][g] = FileSizes[i][g]
      BY <1>3, <2>1 DEF DataInv, File
    <3>3. QED
      BY <1>3, <2>1, <3>1, <3>2 DEF DataInv, WorkInv, StatusOf
  <2>6. QED
    BY <1>5, <2>1, <2>2, <2>3, <2>4, <2>5
(* A block goes where the file reaches, and the file reaches that far.        *)
<1>13. ASSUME NEW recorded \in BOOLEAN, Moves(i, n, recorded) PROVE \A j \in Uploads : DataInv(j)'
  <2> DEFINE v == [w EXCEPT !.at = w.at + 1]
             top == Max({written[i][f], w.at + 1})
  <2>1. /\ n \in Moving(i) /\ w.pc = "moving" /\ f \in Files(i) /\ w.at < FileSizes[i][f]
    BY <1>1, <1>3, <1>13 DEF Moves, Moving, WorkerAt, Inv, MovesFile, File
  <2>2. /\ v \in Workers /\ v.pc = "moving" /\ v.file = f /\ v.at = w.at + 1
        /\ worker' = [worker EXCEPT ![i][n] = v]
    BY <1>1, <1>13 DEF Moves, Workers, WorkerAt, File
  <2>3. /\ w.at <= written[i][f] /\ written[i][f] \in Nat /\ FileSizes[i][f] \in Nat
        /\ written[i][f] <= FileSizes[i][f]
    BY <1>2, <1>3, <2>1 DEF DataInv, File
  <2>4. top \in Nat /\ w.at + 1 <= top /\ written[i][f] <= top /\ top <= FileSizes[i][f]
    BY <1>1, <2>1, <2>3, MaxFact
  <2>5. /\ written'[i] = [written[i] EXCEPT ![f] = top]
        /\ \A j \in Transfers : j # i => written'[j] = written[j]
    <3>1. written' = [written EXCEPT ![i][f] = top]
      BY <1>13, <2>3 DEF Moves, Block
    <3>2. written \in [Transfers -> UNION {[Files(j) -> Nat] : j \in Transfers}]
      BY <1>3 DEF Inv, TypeOK
    <3>3. QED
      BY <3>1, <3>2
  <2>6. /\ task'[i].sent \in {task[i].sent, [task[i].sent EXCEPT ![f] = w.at + 1]}
        /\ task'[i].size = task[i].size /\ task'[i].status = task[i].status
        /\ \A j \in Transfers : j # i => task'[j] = task[j]
    <3>1. task' = [task EXCEPT ![i].sent[f] = w.at + 1] \/ task' = task
      BY <1>13 DEF Moves
    <3>2. QED
      BY <1>2, <3>1 DEF Entries
  <2> HIDE DEF top
  <2>7. \A g \in Files(i) : /\ task'[i].sent[g] <= written'[i][g]
                            /\ written'[i][g] <= FileSizes[i][g]
    <3> SUFFICES ASSUME NEW g \in Files(i)
                 PROVE  task'[i].sent[g] <= written'[i][g] /\ written'[i][g] <= FileSizes[i][g]
      OBVIOUS
    <3>1. task[i].sent[g] <= written[i][g] /\ written[i][g] <= FileSizes[i][g]
      BY <1>3 DEF DataInv
    <3>2. task[i].sent[g] \in Nat /\ FileSizes[i][g] \in Nat /\ written[i][g] \in Nat
      BY <1>2
    <3>3. CASE g = f
      <4>1. written'[i][g] = top /\ task'[i].sent[g] \in {task[i].sent[g], w.at + 1}
        BY <1>2, <2>5, <2>6, <3>3
      <4>2. QED
        BY <1>1, <2>4, <3>1, <3>2, <3>3, <4>1
    <3>4. CASE g # f
      <4>1. written'[i][g] = written[i][g] /\ task'[i].sent[g] = task[i].sent[g]
        BY <1>2, <2>5, <2>6, <3>4
      <4>2. QED
        BY <3>1, <4>1
    <3>5. QED
      BY <3>3, <3>4
  <2>8. v.at <= written'[i][v.file]
    BY <1>2, <2>1, <2>2, <2>4, <2>5
  <2>9. i \in Uploads =>
          /\ Present(i) => task'[i].size = FileSizes[i]
          /\ \A g \in Files(i) : g < f => written'[i][g] = FileSizes[i][g]
          /\ task'[i].status # "Done"
    <3>1. \A g \in Files(i) : g < f => written'[i][g] = written[i][g]
      BY <1>1, <1>2, <2>5
    <3>2. i \in Uploads => \A g \in Files(i) : g < f => written[i][g] = FileSizes[i][g]
      BY <1>3, <2>1 DEF DataInv, File
    <3>3. QED
      BY <1>3, <2>1, <2>6, <3>1, <3>2 DEF DataInv, WorkInv, StatusOf
  <2>10. QED
    BY <1>5, <2>1, <2>2, <2>5, <2>6, <2>7, <2>8, <2>9
(* The file that is done is whole.                                            *)
<1>14. CASE Finishes(i, n)
  <2> DEFINE v == [pc |-> "between", file |-> f + 1, at |-> 0]
  <2>1. /\ n \in Moving(i) /\ w.pc = "moving" /\ f \in Files(i) /\ w.at >= FileSizes[i][f]
    BY <1>1, <1>3, <1>14 DEF Finishes, Moving, WorkerAt, Inv, MovesFile, File
  <2>2. /\ v \in Workers /\ worker' = [worker EXCEPT ![i][n] = v] /\ written' = written
    BY <1>1, <1>14 DEF Finishes, Workers
  <2>3. written[i][f] = FileSizes[i][f]
    <3>1. w.at <= written[i][f] /\ written[i][f] <= FileSizes[i][f]
      BY <1>3, <2>1 DEF DataInv, File
    <3>2. written[i][f] \in Nat /\ FileSizes[i][f] \in Nat
      BY <1>2, <2>1
    <3>3. QED
      BY <1>1, <2>1, <3>1, <3>2
  <2>4. /\ task'[i].sent = [task[i].sent EXCEPT ![f] = FileSizes[i][f]]
        /\ i \in Uploads => task'[i].size = task[i].size
        /\ task'[i].status = task[i].status
        /\ \A j \in Transfers : j # i => task'[j] = task[j]
    <3>1. task' = [task EXCEPT ![i] =
             [task[i] EXCEPT !.sent = [task[i].sent EXCEPT ![f] = FileSizes[i][f]],
                !.size = [task[i].size EXCEPT ![f] = IF i \in Uploads THEN task[i].size[f]
                                                     ELSE FileSizes[i][f]]]]
      BY <1>14 DEF Finishes
    <3>2. task[i].size \in [Files(i) -> Nat]
      BY <1>2 DEF Entries
    <3>3. i \in Uploads =>
             [task[i].size EXCEPT ![f] = IF i \in Uploads THEN task[i].size[f]
                                         ELSE FileSizes[i][f]] = task[i].size
      BY <2>1, <3>2
    <3>4. QED
      BY <1>2, <3>1, <3>3 DEF Entries
  <2>5. \A g \in Files(i) : task'[i].sent[g] <= written[i][g]
    <3>1. task'[i].sent[f] <= written[i][f]
      BY <1>2, <2>1, <2>3, <2>4
    <3>2. QED
      BY <1>2, <1>3, <2>4, <3>1 DEF DataInv
  <2>6. i \in Uploads =>
          /\ Present(i) => task'[i].size = FileSizes[i]
          /\ \A g \in Files(i) : g < f + 1 => written[i][g] = FileSizes[i][g]
          /\ task'[i].status # "Done"
    <3>1. i \in Uploads => \A g \in Files(i) : g < f => written[i][g] = FileSizes[i][g]
      BY <1>3, <2>1 DEF DataInv, File
    <3>2. \A g \in Files(i) : g < f + 1 => g < f \/ g = f
      BY <1>1, <1>2
    <3>3. QED
      BY <1>3, <2>1, <2>3, <2>4, <3>1, <3>2 DEF DataInv, WorkInv, StatusOf
  <2>7. QED
    BY <1>3, <1>5, <2>1, <2>2, <2>4, <2>5, <2>6 DEF DataInv
<1>15. CASE Leaves(i, n)
  <2> DEFINE v == [w EXCEPT !.pc = "gone"]
  <2>1. /\ v \in Workers /\ v.pc = "gone" /\ w.pc = "stopped"
        /\ worker' = [worker EXCEPT ![i][n] = v] /\ task' = task /\ written' = written
    BY <1>1, <1>15 DEF Leaves, Workers, WorkerAt
  <2>2. Moving(i)' = Moving(i) /\ \A m \in Moving(i) : worker'[i][m] = worker[i][m]
    BY <1>1, <1>4, <2>1 DEF Moving, WorkerAt
  <2>3. DataInv(i)'
    BY <1>3, <2>1, <2>2 DEF DataInv, Present, StatusOf
  <2>4. QED
    BY <1>4, <2>1, <2>3
<1>16. QED
  BY <1>7, <1>8, <1>9, <1>10, <1>11, <1>12, <1>13, <1>14, <1>15 DEF WorkerStep

(* What the worker of a download does leaves the uploads alone.               *)
LEMMA DataOfDownloads ==
  ASSUME Inv, \A j \in Uploads : DataInv(j), NEW i \in Transfers, i \notin Uploads,
         NEW n \in Runs, WorkerStep(i, n)
  PROVE  \A j \in Uploads : DataInv(j)'
<1> SUFFICES ASSUME NEW j \in Uploads PROVE DataInv(j)'
  OBVIOUS
<1>1. j \in Transfers /\ j # i
  BY TransferAssumption
<1>2. \A k \in Transfers : k # i => task'[k] = task[k] /\ written'[k] = written[k] /\ worker'[k] = worker[k]
  <2>1. /\ task \in [Transfers -> UNION {Entries(k) : k \in Transfers}]
        /\ written \in [Transfers -> UNION {[Files(k) -> Nat] : k \in Transfers}]
        /\ worker \in [Transfers -> Seq(Workers)]
    BY DEF Inv, TypeOK
  <2>2. CASE StopsBetween(i, n) \/ MkdirFails(i, n) \/ Breaks(i, n)
    BY <2>1, <2>2 DEF StopsBetween, MkdirFails, Breaks, Stop, SetStatus
  <2>3. CASE Starts(i, n) \/ Skips(i, n) \/ Opens(i, n) \/ Finishes(i, n) \/ Leaves(i, n)
    BY <2>1, <2>3 DEF Starts, SetStatus, Skips, Opens, Finishes, Leaves
  <2>4. CASE \E recorded \in BOOLEAN : Moves(i, n, recorded)
    BY <2>1, <2>4 DEF Moves
  <2>5. QED
    BY <2>2, <2>3, <2>4 DEF WorkerStep
<1>3. QED
  BY <1>1, <1>2, DataFrame

LEMMA DataOfCalls ==
  ASSUME Inv, \A j \in Uploads : DataInv(j), NEW u \in Users, UserStep(u)
  PROVE  \A j \in Uploads : DataInv(j)'
<1> SUFFICES ASSUME NEW i \in Transfers,
               \/ Create(u, i) \/ ListingFails(u, i)
               \/ \E known \in Listings : Enqueue(u, i, known)
               \/ Spawn(u, i)
               \/ \E verb \in {"resume", "retry"} : Respawn(u, i, verb) \/ Requeue(u, i, verb)
               \/ Cancel(u, i) \/ CancelSettles(u, i) \/ CancelForgets(u, i)
             PROVE  \A j \in Uploads : DataInv(j)'
  BY DEF UserStep
<1>1. /\ task \in [Transfers -> UNION {Entries(j) : j \in Transfers}]
      /\ \A j \in Transfers : task[j] \in Entries(j)
      /\ \A j \in Transfers : WorkInv(j)
  BY DEF Inv, TypeOK
<1>2. ASSUME UNCHANGED <<task, worker, written>> PROVE \A j \in Uploads : DataInv(j)'
  BY <1>2, DataFrame, TransferAssumption
<1>3. ASSUME NEW status \in {"Queued", "Cancelled"}, SetStatus(i, status), Present(i),
             UNCHANGED <<worker, written>>
      PROVE  \A j \in Uploads : DataInv(j)'
  <2>1. /\ task'[i].sent = task[i].sent /\ task'[i].size = task[i].size
        /\ task'[i].status = status /\ \A j \in Transfers : j # i => task'[j] = task[j]
    BY <1>1, <1>3 DEF SetStatus, Entries
  <2>2. QED
    BY <1>3, <2>1, DataFrame, TransferAssumption
<1>4. ASSUME NEW known \in Listings, Enqueue(u, i, known) PROVE \A j \in Uploads : DataInv(j)'
  <2> DEFINE entry == [status |-> "Queued", sent |-> Zeros(i), size |-> Listed(i, known)]
             tasks == [task EXCEPT ![i] = entry]
  <2>1. /\ task' = Prune(tasks, Append(order, i)).task
        /\ worker' = worker /\ written' = written
        /\ i \in Uploads => known
        /\ call[u] = At("listing", i)
    BY <1>4 DEF Enqueue, Calls
  <2>2. tasks[i] = entry /\ \A j \in Transfers : j # i => tasks[j] = task[j]
    BY <1>1
  <2> HIDE DEF tasks
  <2>3. task'[i] = entry
    <3>1. tasks[i].status \notin Terminal
      BY <2>2 DEF Terminal
    <3>2. QED
      BY <2>1, <2>2, <3>1, PruneEntry
  <2>4. Moving(i) = {} /\ Moving(i)' = {}
    BY <1>1, <2>1 DEF WorkInv, Moving, WorkerAt, Active
  <2>5. i \in Uploads => \A f \in Files(i) : /\ task'[i].sent[f] <= written'[i][f]
                                             /\ written'[i][f] <= FileSizes[i][f]
    <3> SUFFICES ASSUME i \in Uploads, NEW f \in Files(i)
                 PROVE  task'[i].sent[f] <= written'[i][f] /\ written'[i][f] <= FileSizes[i][f]
      OBVIOUS
    <3>1. task'[i].sent[f] = 0 /\ written'[i][f] = written[i][f]
      BY <2>1, <2>3 DEF Zeros
    <3>2. written[i][f] \in Nat /\ written[i][f] <= FileSizes[i][f]
      BY DEF DataInv, Inv, TypeOK
    <3>3. QED
      BY <3>1, <3>2
  <2>6. i \in Uploads => DataInv(i)'
    BY <2>1, <2>3, <2>4, <2>5 DEF DataInv, Listed, StatusOf
  <2>7. ASSUME NEW j \in Uploads, j \in Transfers, j # i PROVE DataInv(j)'
    <3>1. /\ task'[j].sent = task[j].sent /\ task'[j].size = task[j].size
          /\ task'[j].status \in {task[j].status, "gone"}
      <4>1. task'[j] = task[j] \/ task'[j] = [task[j] EXCEPT !.status = "gone"]
        <5>1. tasks[j] = task[j]
          BY <2>2, <2>7
        <5>2. \/ Prune(tasks, Append(order, i)).task[j] = tasks[j]
              \/ Prune(tasks, Append(order, i)).task[j] = [tasks[j] EXCEPT !.status = "gone"]
          BY <2>7, PruneEntry
        <5>3. QED
          BY <2>1, <5>1, <5>2
      <4>2. QED
        BY <1>1, <2>7, <4>1 DEF Entries
    <3>2. QED
      BY <2>1, <2>7, <3>1, DataFrame
  <2>8. QED
    BY <2>6, <2>7, TransferAssumption
<1>5. CASE Spawn(u, i)
  <2> DEFINE v == [pc |-> "start", file |-> 1, at |-> 0]
  <2>1. /\ v \in Workers /\ worker' = [worker EXCEPT ![i] = Append(@, v)]
        /\ task' = task /\ written' = written /\ call[u] = At("spawn", i)
    BY <1>5 DEF Spawn, Workers, Calls
  <2>2. /\ DOMAIN worker'[i] = DOMAIN worker[i] \cup {Len(worker[i]) + 1}
        /\ worker'[i][Len(worker[i]) + 1] = v
        /\ \A m \in DOMAIN worker[i] : worker'[i][m] = worker[i][m]
        /\ \A j \in Transfers : j # i => worker'[j] = worker[j]
    BY <2>1, AddWorker DEF Inv
  <2>3. \A m \in Moving(i)' : worker'[i][m].pc # "moving" /\ worker'[i][m].file = 1
    <3>1. Moving(i) = {}
      BY <1>1, <2>1 DEF WorkInv, Spawning
    <3>2. QED
      BY <2>2, <3>1 DEF Moving, WorkerAt
  <2>4. \A g \in Files(i) : ~(g < 1)
    BY SizeTypes
  <2>5. i \in Uploads => DataInv(i)'
    BY <2>1, <2>3, <2>4 DEF DataInv, Present, StatusOf
  <2>6. QED
    BY <2>1, <2>2, <2>5, DataFrame, TransferAssumption
<1>6. ASSUME NEW verb \in {"resume", "retry"}, Requeue(u, i, verb)
      PROVE  \A j \in Uploads : DataInv(j)'
  BY <1>2, <1>3, <1>6 DEF Requeue, Allowed, Present
<1>7. CASE CancelSettles(u, i)
  BY <1>2, <1>3, <1>7 DEF CancelSettles, Present
<1>8. QED
  BY <1>2, <1>4, <1>5, <1>6, <1>7 DEF Create, ListingFails, Respawn, Cancel, CancelForgets

LEMMA DataOfTable ==
  ASSUME Inv, \A j \in Uploads : DataInv(j), TableStep
  PROVE  \A j \in Uploads : DataInv(j)'
<1>1. ASSUME NEW i \in Transfers, Pause(i) PROVE \A j \in Uploads : DataInv(j)'
  BY <1>1, DataFrame, TransferAssumption DEF Pause
<1>2. ASSUME NEW ids, Clear(ids) PROVE \A j \in Uploads : DataInv(j)'
  <2> SUFFICES ASSUME NEW j \in Uploads, j \in Transfers PROVE DataInv(j)'
    BY TransferAssumption
  <2>1. task[j] \in Entries(j)
    BY DEF Inv, TypeOK
  <2>2. /\ task'[j].sent = task[j].sent /\ task'[j].size = task[j].size
        /\ task'[j].status \in {task[j].status, "gone"}
        /\ worker' = worker /\ written' = written
    BY <1>2, <2>1 DEF Clear, Entries
  <2>3. QED
    BY <2>2, DataFrame
<1>3. QED
  BY <1>1, <1>2 DEF TableStep

DataInvs == Inv /\ \A i \in Uploads : DataInv(i)

LEMMA DataInit == Init => DataInvs
<1> SUFFICES ASSUME Init PROVE DataInvs
  OBVIOUS
<1>1. ASSUME NEW i \in Uploads PROVE DataInv(i)
  <2>0. i \in Transfers
    BY TransferAssumption
  <2>1. task[i].sent = Zeros(i) /\ written[i] = Zeros(i) /\ StatusOf(i) = "new"
    BY <2>0 DEF Init, StatusOf
  <2>2. Moving(i) = {}
    BY InvInit, <2>0, <2>1 DEF Inv, WorkInv, Active
  <2>3. \A f \in Files(i) : Zeros(i)[f] = 0 /\ FileSizes[i][f] \in Nat
    BY <2>0, SizeTypes DEF Zeros
  <2>4. \A f \in Files(i) : task[i].sent[f] <= written[i][f] /\ written[i][f] <= FileSizes[i][f]
    BY <2>1, <2>3
  <2>5. QED
    BY <2>1, <2>2, <2>4 DEF DataInv, Present
<1>2. QED
  BY <1>1, InvInit, TransferAssumption DEF DataInvs

LEMMA DataStep == DataInvs /\ [Next]_vars => DataInvs'
<1> SUFFICES ASSUME DataInvs, [Next]_vars PROVE DataInvs'
  OBVIOUS
<1>1. Inv'
  BY InvStep DEF DataInvs
<1>2. CASE UNCHANGED vars
  BY <1>1, <1>2, DataFrame, TransferAssumption DEF DataInvs, vars
<1>2a. ASSUME NEW w \in late, Lands(w) \/ IsLost(w) PROVE DataInvs'
  <2>1. UNCHANGED <<task, worker>> /\ \A j \in Uploads : written'[j] = written[j]
    BY <1>2a, LateTypes DEF DataInvs, Inv
  <2>2. QED
    BY <1>1, <2>1, DataFrame, TransferAssumption DEF DataInvs
<1>3. CASE Next
  BY <1>1, <1>2a, <1>3, DataOfCalls, DataOfTable, DataOfWorkers, DataOfDownloads DEF DataInvs, Next
<1>4. QED
  BY <1>2, <1>3

(* An offset from which an upload would go on is never beyond what the target *)
(* holds, whatever is recorded and what is not: no gap is left.               *)
THEOREM NoHoleCorrect == Spec => []NoHole
<1>1. DataInvs => NoHole
  BY TransferAssumption DEF DataInvs, DataInv, NoHole, NoHoleIn
<1>2. QED
  BY <1>1, DataInit, DataStep, PTL DEF Spec

(* An upload that is reported complete is complete, for any number of files   *)
(* and blocks and however often it is interrupted and gone on with.           *)
THEOREM UploadsCorrect == Spec => []UploadsAreWhole
<1>1. DataInvs => UploadsAreWhole
  <2> SUFFICES ASSUME DataInvs, NEW i \in Uploads, Reported(i) = "complete"
               PROVE  written[i] = FileSizes[i]
    BY DEF UploadsAreWhole, Whole
  <2>1. i \in Transfers /\ DataInv(i) /\ Inv
    BY TransferAssumption DEF DataInvs
  <2>2. StatusOf(i) = "Done"
    BY DEF Reported
  <2>3. written[i] \in [Files(i) -> Nat] /\ FileSizes[i] \in [Files(i) -> Nat]
    BY <2>1, SizeTypes DEF Inv, TypeOK
  <2>4. \A g \in Files(i) : written[i][g] = FileSizes[i][g]
    BY <2>1, <2>2 DEF DataInv
  <2>5. QED
    BY <2>3, <2>4
<1>2. QED
  BY <1>1, DataInit, DataStep, PTL DEF Spec
=============================================================================
