------------------------------- MODULE Transfer -------------------------------
(* The SFTP transfers (starhub-domain-ssh/src/sftp/transfer.rs, ops.rs): a     *)
(* table of tasks that calls of panels and tools change, and one worker task   *)
(* per start of a transfer that moves its files block by block.  Calls and     *)
(* workers meet in the table, in the table of controls and in the offsets from *)
(* which an interrupted transfer goes on.                                      *)
EXTENDS Naturals, Sequences, SequencesExt, FiniteSets, FiniteSetsExt

CONSTANTS Transfers,   \* ids of transfers
          Uploads,     \* those among them that are uploads
          Users,       \* calls that may be under way at the same time
          FileSizes,   \* FileSizes[i]: the blocks of each file of i, in order
          Listings,    \* whether the size of a remote file is known when listed
          MaxRuns,     \* bound: MaxRuns[i] is how often transfer i is started
          MaxRetained  \* terminal tasks that are kept (100)

ASSUME TransferAssumption ==
  /\ Uploads \subseteq Transfers
  /\ IsFiniteSet(Transfers)
  /\ FileSizes \in [Transfers -> Seq(Nat)]
  /\ Listings \subseteq BOOLEAN
  /\ MaxRuns \in [Transfers -> Nat \ {0}]
  /\ MaxRetained \in Nat

VARIABLES task,        \* task[i]: the entry of transfer i
          order,       \* task_order
          controls,    \* controls[i]: the run whose control is in the table, or 0
          flags,       \* the tokens that were cancelled: <<transfer, run, which>>
          worker,      \* worker[i]: the workers of i, in the order of their start
          written,     \* written[i][f]: blocks of file f that the target is
                       \* sure to hold, counted from its beginning
          late,        \* blocks of downloads that are still to be written, or
                       \* could not be while their worker does not know
          call         \* call[u]: the call u is making

vars == <<task, order, controls, flags, worker, written, late, call>>

Files(i) == DOMAIN FileSizes[i]
Zeros(i) == [f \in Files(i) |-> 0]
Runs == UNION {1..MaxRuns[i] : i \in Transfers}
Terminal == {"Done", "Failed", "Cancelled"}
Active == {"Queued", "Running"}
Statuses == {"new", "gone", "Paused"} \cup Active \cup Terminal
Idle == [pc |-> "idle"]

Entries(i) == [status : Statuses, sent : [Files(i) -> Nat], size : [Files(i) -> Nat]]
Workers == [pc : {"start", "between", "moving", "stopped", "gone"}, file : Nat \ {0}, at : Nat]
LateWrites == [of : Transfers \ Uploads, run : Runs, file : Nat, block : Nat, lost : BOOLEAN]
CallStates ==
  {Idle} \cup [pc : {"listing", "spawn", "resume", "retry", "cancel", "forget"}, id : Transfers]

TypeOK ==
  /\ task \in [Transfers -> UNION {Entries(i) : i \in Transfers}]
  /\ worker \in [Transfers -> Seq(Workers)]
  /\ written \in [Transfers -> UNION {[Files(i) -> Nat] : i \in Transfers}]
  /\ \A i \in Transfers : task[i] \in Entries(i) /\ written[i] \in [Files(i) -> Nat]
  /\ controls \in [Transfers -> {0} \cup Runs]
  /\ flags \subseteq Transfers \X Runs \X {"cancel", "pause"}
  /\ late \subseteq LateWrites
  /\ call \in [Users -> CallStates]

Init ==
  /\ task = [i \in Transfers |-> [status |-> "new", sent |-> Zeros(i), size |-> Zeros(i)]]
  /\ order = <<>>
  /\ controls = [i \in Transfers |-> 0]
  /\ flags = {}
  /\ worker = [i \in Transfers |-> <<>>]
  /\ written = [i \in Transfers |-> Zeros(i)]
  /\ late = {}
  /\ call = [u \in Users |-> Idle]

-----------------------------------------------------------------------------
(* The table of tasks                                                        *)
StatusOf(i) == task[i].status
Present(i) == StatusOf(i) \notin {"new", "gone"}
SetStatus(i, s) == task' = [task EXCEPT ![i].status = s]

(* prune_terminal_tasks walks the order from its oldest entry until few       *)
(* enough terminal tasks are left, or it has looked at as many entries as the *)
(* order then has: terminal tasks go, tasks that go on are moved to the end,  *)
(* and what is no longer in the table is only dropped.                        *)
Prune(tasks, ids) ==
  LET Is(k, some) == tasks[ids[k]].status \in some
      GoesOn == {"Paused"} \cup Active
      Removed(k) == {j \in 1..k : Is(j, Terminal)}
      Dropped(k) == {j \in 1..k : ~Is(j, GoesOn)}
      terminal == {i \in Transfers : tasks[i].status \in Terminal}
      Enough(k) == \/ Cardinality(terminal) <= MaxRetained + Cardinality(Removed(k))
                   \/ Len(ids) <= k + Cardinality(Dropped(k))
      last == CHOOSE k \in 0..Len(ids) : Enough(k) /\ \A j \in 0..k : Enough(j) => j = k
      gone == {ids[k] : k \in Removed(last)}
  IN [order |-> SubSeq(ids, last + 1, Len(ids))
                  \o SelectSeq(SubSeq(ids, 1, last), LAMBDA i : tasks[i].status \in GoesOn),
      task |-> [i \in Transfers |-> IF i \in gone
                                    THEN [tasks[i] EXCEPT !.status = "gone"] ELSE tasks[i]]]

-----------------------------------------------------------------------------
(* The calls                                                                 *)
Calls(u, now, next) == call[u] = now /\ call' = [call EXCEPT ![u] = next]
At(pc, i) == [pc |-> pc, id |-> i]

(* upload, download: the channel is looked up and the files are listed (a     *)
(* call that finds no channel, no task or another status changes nothing) ... *)
Create(u, i) ==
  /\ StatusOf(i) = "new"
  /\ \A v \in Users : call[v] # At("listing", i)
  /\ Calls(u, Idle, At("listing", i))
  /\ UNCHANGED <<task, order, controls, flags, worker, written, late>>

ListingFails(u, i) ==
  /\ Calls(u, At("listing", i), Idle)
  /\ UNCHANGED <<task, order, controls, flags, worker, written, late>>

(* A remote file whose size cannot be asked for is listed with size 0.       *)
Listed(i, known) == IF known THEN FileSizes[i] ELSE Zeros(i)

(* ... the task is entered and old ones are pruned.                          *)
Enqueue(u, i, known) ==
  /\ known \/ i \notin Uploads
  /\ LET entry == [status |-> "Queued", sent |-> Zeros(i), size |-> Listed(i, known)]
         pruned == Prune([task EXCEPT ![i] = entry], Append(order, i))
     IN task' = pruned.task /\ order' = pruned.order
  /\ Calls(u, At("listing", i), At("spawn", i))
  /\ UNCHANGED <<controls, flags, worker, written, late>>

(* Each start has a control of its own, entered just before its worker.      *)
Spawn(u, i) ==
  /\ Calls(u, At("spawn", i), Idle)
  /\ controls' = [controls EXCEPT ![i] = Len(worker[i]) + 1]
  /\ worker' = [worker EXCEPT ![i] = Append(@, [pc |-> "start", file |-> 1, at |-> 0])]
  /\ UNCHANGED <<task, order, flags, written, late>>

(* respawn, for resume and for retry: the status is read, the channel looked *)
(* up, and the status read again when it is changed.                         *)
Allowed(verb) == IF verb = "resume" THEN {"Paused"} ELSE {"Failed", "Cancelled"}

(* The bound on runs: a call beyond it is refused.                           *)
Bound(i) == Len(worker[i]) < MaxRuns[i]

Respawn(u, i, verb) ==
  /\ StatusOf(i) \in Allowed(verb) /\ Bound(i)
  /\ Calls(u, Idle, At(verb, i))
  /\ UNCHANGED <<task, order, controls, flags, worker, written, late>>

(* Mutant: the status is not read again.                                     *)
RequeueUnread(u, i, verb) ==
  /\ Calls(u, At(verb, i), At("spawn", i))
  /\ SetStatus(i, "Queued")
  /\ UNCHANGED <<order, controls, flags, worker, written, late>>

Requeue(u, i, verb) ==
  /\ call[u] = At(verb, i)
  /\ IF StatusOf(i) \in Allowed(verb) /\ Bound(i)
     THEN SetStatus(i, "Queued") /\ call' = [call EXCEPT ![u] = At("spawn", i)]
     ELSE call' = [call EXCEPT ![u] = Idle] /\ UNCHANGED task
  /\ UNCHANGED <<order, controls, flags, worker, written, late>>

(* A token is only worth noting while a worker looks at it.                  *)
Watched(i, n) == n # 0 /\ worker[i][n].pc \in {"start", "between", "moving"}
Flag(i, which) ==
  flags' = IF Watched(i, controls[i])
           THEN flags \cup {<<i, controls[i], which>>} ELSE flags

Pause(i) ==
  /\ Present(i)
  /\ Flag(i, "pause")
  /\ UNCHANGED <<task, order, controls, worker, written, late, call>>

(* cancel: the token first, then, for a paused task, the status ...          *)
Cancel(u, i) ==
  /\ Present(i)
  /\ Calls(u, Idle, At("cancel", i))
  /\ Flag(i, "cancel")
  /\ UNCHANGED <<task, order, controls, worker, written, late>>

(* Mutant: an active task is given its last status at once.                  *)
CancelSettlesAny(u, i) ==
  /\ call[u] = At("cancel", i)
  /\ IF StatusOf(i) \in {"Paused"} \cup Active
     THEN SetStatus(i, "Cancelled") /\ call' = [call EXCEPT ![u] = At("forget", i)]
     ELSE call' = [call EXCEPT ![u] = Idle] /\ UNCHANGED task
  /\ UNCHANGED <<order, controls, flags, worker, written, late>>

CancelSettles(u, i) ==
  /\ call[u] = At("cancel", i)
  /\ IF StatusOf(i) = "Paused"
     THEN SetStatus(i, "Cancelled") /\ call' = [call EXCEPT ![u] = At("forget", i)]
     ELSE call' = [call EXCEPT ![u] = Idle] /\ UNCHANGED task
  /\ UNCHANGED <<order, controls, flags, worker, written, late>>

(* ... and then its control, whichever that is by now.                       *)
CancelForgets(u, i) ==
  /\ Calls(u, At("forget", i), Idle)
  /\ controls' = [controls EXCEPT ![i] = 0]
  /\ UNCHANGED <<task, order, flags, worker, written, late>>

(* clear_terminal, of one task or of all.                                    *)
Clear(ids) ==
  /\ ids # {} /\ ids \subseteq {i \in Transfers : StatusOf(i) \in Terminal}
  /\ task' = [i \in Transfers |-> IF i \in ids THEN [task[i] EXCEPT !.status = "gone"] ELSE task[i]]
  /\ order' = SelectSeq(order, LAMBDA i : i \notin ids)
  /\ UNCHANGED <<controls, flags, worker, written, late, call>>

-----------------------------------------------------------------------------
(* The worker of run n of transfer i                                         *)
Flagged(i, n, which) == <<i, n, which>> \in flags
Interrupted(i, n) == Flagged(i, n, "cancel") \/ Flagged(i, n, "pause")
WorkerAt(i, n, pc) == n \in DOMAIN worker[i] /\ worker[i][n].pc = pc
File(i, n) == worker[i][n].file

Starts(i, n) ==
  /\ WorkerAt(i, n, "start")
  /\ worker' = [worker EXCEPT ![i][n].pc = "between"]
  /\ IF Present(i) THEN SetStatus(i, "Running") ELSE UNCHANGED task
  /\ UNCHANGED <<order, controls, flags, written, late, call>>

(* The run is over: its last status is written to the table.  One that was    *)
(* paused leaves its control where it is.                                    *)
Stop(i, n, status) ==
  /\ worker' = [worker EXCEPT ![i][n] =
       [pc |-> IF status = "Paused" THEN "gone" ELSE "stopped", file |-> 1, at |-> 0]]
  /\ flags' = {x \in flags : ~(x[1] = i /\ x[2] = n)}
  /\ late' = {w \in late : ~(w.of = i /\ w.run = n /\ w.lost)}
  /\ IF Present(i) THEN SetStatus(i, status) ELSE UNCHANGED task
  /\ UNCHANGED <<order, controls, written, call>>

(* Between two files, and after the last, a cancel goes before a pause.      *)
StopsBetween(i, n) ==
  /\ WorkerAt(i, n, "between")
  /\ IF Flagged(i, n, "cancel") THEN Stop(i, n, "Cancelled")
     ELSE IF Flagged(i, n, "pause") THEN Stop(i, n, "Paused")
     ELSE File(i, n) > Len(FileSizes[i]) /\ Stop(i, n, "Done")

MkdirFails(i, n) ==
  /\ WorkerAt(i, n, "between")
  /\ i \in Uploads
  /\ File(i, n) <= Len(FileSizes[i]) /\ ~Interrupted(i, n)
  /\ Stop(i, n, "Failed")

(* The offset that is recorded for a file.                                   *)
Offset(i, f) == task[i].sent[f]

(* Mutant: any offset counts as the whole file.                              *)
CompleteAny(i, f) == Offset(i, f) > 0

(* A file whose offset has reached its size as it is known was moved before. *)
Complete(i, f) == Offset(i, f) > 0 /\ Offset(i, f) >= task[i].size[f]

Skips(i, n) ==
  LET f == File(i, n) IN
  /\ WorkerAt(i, n, "between")
  /\ f <= Len(FileSizes[i]) /\ ~Interrupted(i, n)
  /\ Complete(i, f)
  /\ worker' = [worker EXCEPT ![i][n].file = @ + 1]
  /\ task' = [task EXCEPT ![i].sent[f] = task[i].size[f]]
  /\ UNCHANGED <<order, controls, flags, written, late, call>>

(* A file without an offset is made anew, one with an offset is gone on with. *)
Opens(i, n) ==
  LET f == File(i, n) IN
  /\ WorkerAt(i, n, "between")
  /\ f <= Len(FileSizes[i]) /\ ~Interrupted(i, n)
  /\ ~Complete(i, f)
  /\ worker' = [worker EXCEPT ![i][n].pc = "moving", ![i][n].at = Offset(i, f)]
  /\ written' = IF Offset(i, f) = 0 THEN [written EXCEPT ![i][f] = 0] ELSE written
  /\ UNCHANGED <<task, order, controls, flags, late, call>>

(* A block at an offset is written where the file already reaches; a later    *)
(* one leaves a hole, and is not counted.                                     *)
Block(i, f, at) ==
  written' = IF at <= written[i][f]
             THEN [written EXCEPT ![i][f] = Max({@, at + 1})] ELSE written

Late(i, n) == {w \in late : w.of = i /\ w.run = n}

(* One block, of an upload.  Its offset is recorded only when nobody holds    *)
(* the table.  That of a download is handed to a thread of tokio::fs, and its *)
(* offset recorded while it may still be written; the next block waits for    *)
(* it and reports its error.                                                  *)
Moves(i, n, recorded) ==
  LET f == File(i, n)
      at == worker[i][n].at
  IN
  /\ WorkerAt(i, n, "moving")
  /\ ~Interrupted(i, n)
  /\ at < FileSizes[i][f]
  /\ Late(i, n) = {}
  /\ worker' = [worker EXCEPT ![i][n].at = at + 1]
  /\ IF i \in Uploads THEN Block(i, f, at) /\ UNCHANGED late
     ELSE /\ late' = late \cup {[of |-> i, run |-> n, file |-> f, block |-> at, lost |-> FALSE]}
          /\ UNCHANGED written
  /\ task' = IF recorded THEN [task EXCEPT ![i].sent[f] = at + 1] ELSE task
  /\ UNCHANGED <<order, controls, flags, call>>

(* The block is written, or is not; a worker that has gone is not told.       *)
Lands(w) ==
  /\ w \in late /\ ~w.lost
  /\ late' = late \ {w}
  /\ Block(w.of, w.file, w.block)
  /\ UNCHANGED <<task, order, controls, flags, worker, call>>

IsLost(w) ==
  /\ w \in late /\ ~w.lost
  /\ late' = (late \ {w}) \cup
       IF WorkerAt(w.of, w.run, "moving") THEN {[w EXCEPT !.lost = TRUE]} ELSE {}
  /\ UNCHANGED <<task, order, controls, flags, worker, written, call>>

(* The end of the file, which is flushed: a download has learned its size.    *)
Finishes(i, n) ==
  LET f == File(i, n) IN
  /\ WorkerAt(i, n, "moving")
  /\ ~Interrupted(i, n)
  /\ worker[i][n].at >= FileSizes[i][f]
  /\ Late(i, n) = {}
  /\ worker' = [worker EXCEPT ![i][n] = [pc |-> "between", file |-> f + 1, at |-> 0]]
  /\ task' = [task EXCEPT ![i].sent[f] = FileSizes[i][f],
                          ![i].size[f] = IF i \in Uploads THEN @ ELSE FileSizes[i][f]]
  /\ UNCHANGED <<order, controls, flags, written, late, call>>

(* An interrupt or an error: here a pause goes before a cancel.              *)
Breaks(i, n) ==
  /\ WorkerAt(i, n, "moving")
  /\ Stop(i, n, IF Flagged(i, n, "pause") THEN "Paused"
                ELSE IF Flagged(i, n, "cancel") THEN "Cancelled" ELSE "Failed")

(* The others remove the control of their transfer, whichever it is by now.   *)
Leaves(i, n) ==
  /\ WorkerAt(i, n, "stopped")
  /\ worker' = [worker EXCEPT ![i][n].pc = "gone"]
  /\ controls' = [controls EXCEPT ![i] = 0]
  /\ UNCHANGED <<task, order, flags, written, late, call>>

-----------------------------------------------------------------------------
UserStep(u) ==
  \E i \in Transfers :
    \/ Create(u, i) \/ ListingFails(u, i)
    \/ \E known \in Listings : Enqueue(u, i, known)
    \/ Spawn(u, i)
    \/ \E verb \in {"resume", "retry"} : Respawn(u, i, verb) \/ Requeue(u, i, verb)
    \/ Cancel(u, i) \/ CancelSettles(u, i) \/ CancelForgets(u, i)

TableStep ==
  \/ \E i \in Transfers : Pause(i) \/ Clear({i})
  \/ Clear({i \in Transfers : StatusOf(i) \in Terminal})

WorkerStep(i, n) ==
  \/ Starts(i, n) \/ StopsBetween(i, n) \/ MkdirFails(i, n)
  \/ Skips(i, n) \/ Opens(i, n)
  \/ \E recorded \in BOOLEAN : Moves(i, n, recorded)
  \/ Finishes(i, n) \/ Breaks(i, n) \/ Leaves(i, n)

Next ==
  \/ \E u \in Users : UserStep(u)
  \/ TableStep
  \/ \E i \in Transfers, n \in Runs : WorkerStep(i, n)
  \/ \E w \in late : Lands(w) \/ IsLost(w)

Spec == Init /\ [][Next]_vars

-----------------------------------------------------------------------------
Moving(i) == {n \in Runs : WorkerAt(i, n, "start") \/ WorkerAt(i, n, "between")
                             \/ WorkerAt(i, n, "moving")}

(* However resume, retry, cancel and the ends of workers meet, two workers    *)
(* never move the files of one transfer at a time, and what is shown as       *)
(* queued or running has a worker or is about to get one.                     *)
ActiveHasOneWorker ==
  \A i \in Transfers :
    Cardinality(Moving(i)) + Cardinality({u \in Users : call[u] = At("spawn", i)})
      = (IF StatusOf(i) \in Active THEN 1 ELSE 0)

NoHoleIn(i) == \A f \in Files(i) : Present(i) => task[i].sent[f] <= written[i][f]

(* An offset from which an upload would go on is never beyond what the target *)
(* holds: going on leaves no hole.                                            *)
NoHole == \A i \in Uploads : NoHoleIn(i)

(* The same claim for downloads, whose last block may be on its way or lost.  *)
NoHoleAtAll == \A i \in Transfers : NoHoleIn(i)

(* wait_for_transfer: what a tool that waits for the transfer reports.        *)
Reported(i) ==
  CASE StatusOf(i) = "Done" -> "complete"
    [] StatusOf(i) \in {"Failed", "Cancelled", "Paused"} -> "failed"
    [] OTHER -> "waiting"

Whole(i) == Reported(i) = "complete" => written[i] = FileSizes[i]

(* An upload that is reported complete is: however often it was interrupted   *)
(* and gone on with, each file is at the target as a whole.                   *)
UploadsAreWhole == \A i \in Uploads : Whole(i)

(* The same claim for downloads, the sizes of whose files may be unknown.     *)
DoneIsComplete == \A i \in Transfers : Whole(i)

(* A last status is only left by a retry, so no worker of an earlier run      *)
(* overwrites what a later one has set.                                       *)
Follows == [new |-> {"Queued"}, Queued |-> {"Running"},
            Running |-> {"Paused", "Done", "Failed", "Cancelled"},
            Paused |-> {"Queued", "Cancelled"}, Failed |-> {"Queued", "gone"},
            Cancelled |-> {"Queued", "gone"}, Done |-> {"gone"}, gone |-> {}]
StatusFollows ==
  [][\A i \in Transfers : StatusOf(i)' # StatusOf(i)
        => StatusOf(i)' \in Follows[StatusOf(i)]]_vars

(* The claim that a transfer which was cancelled while it ran does not stay   *)
(* behind as a paused one: what cancel means to its callers.                  *)
CancelIsFinal ==
  [][\A i \in Transfers, n \in Runs :
        Flagged(i, n, "cancel") => StatusOf(i)' # "Paused"]_vars
=============================================================================
