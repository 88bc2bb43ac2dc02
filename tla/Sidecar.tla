------------------------------- MODULE Sidecar -------------------------------
(* The stdio server of starhub-sidecar (main.rs, registry.rs, bindings.rs,    *)
(* bridge.rs): one thread reads frames and gives each a thread of its own,    *)
(* tool calls find their asset through the binding of the session, and leave  *)
(* a domain event, a recent execution and an audit row behind.  One session   *)
(* is modelled: sessions share no binding, and nothing in the program records *)
(* a subagent's parent, so a lookup never gets past its first step.           *)
EXTENDS Naturals, FiniteSets

CONSTANTS Tools,     \* calls of a domain tool (ssh_, db_, android_, ...)
          Asks,      \* those that may put an interactive prompt to the peer
          Binds,     \* calls of bind_asset_context
          Strays,    \* requests of a method that is not registered
          Silent,    \* notifications, responses and lines that are no frame
          Assets,
          None

(* The peer's reply to the prompt of tool call t is a request of its own.     *)
Reply(t) == <<"reply", t>>
Replies == {Reply(t) : t \in Asks}
Requests == Tools \cup Binds \cup Strays \cup Replies
Frames == Requests \cup Silent

ASSUME SidecarAssumption ==
  /\ Asks \subseteq Tools
  /\ Tools \cap (Binds \cup Strays \cup Replies \cup Silent) = {}
  /\ Binds \cap (Strays \cup Replies \cup Silent) = {}
  /\ None \notin Assets

VARIABLES stdin,    \* the lines in the pipe, a request once at most
          open,     \* the peer still holds its end of the pipe
          up,       \* the process runs
          pc,       \* pc[f]: how far the thread of frame f is
          bound,    \* bindings: the asset the session is bound to
          names,    \* names[f]: the assetId among the parameters of f
          acted,    \* acted[t]: the asset tool call t resolved to
          outcome,  \* outcome[t]: what its handler returned
          told,     \* told[t]: the asset its domain event was filed under
          recent,   \* recent_execs: the latest tool call of an asset
          audit,    \* the audit rows
          written,  \* what has been written to stdout
          before    \* before[f]: the bindings answered when f was sent (history)

pipeVars == <<stdin, open, up>>
toolVars == <<acted, outcome, told, recent, audit>>
vars == <<stdin, open, up, pc, bound, names, acted, outcome, told, recent,
          audit, written, before>>

Targets == Assets \cup {None}

TypeOK ==
  /\ stdin \subseteq Frames
  /\ open \in BOOLEAN /\ up \in BOOLEAN
  /\ pc \in [Frames -> {"unsent", "piped", "read", "acting", "asking",
                        "acted", "told", "finished", "answering", "over"}]
  /\ bound \in Targets
  /\ names \in [Tools \cup Binds -> Targets]
  /\ acted \in [Tools -> Targets]
  /\ told \in [Tools -> Targets]
  /\ outcome \in [Requests -> {"none", "ok", "soft", "failed"}]
  /\ recent \in [Assets -> Tools \cup {None}]
  /\ audit \subseteq [call : Tools, target : Targets, ok : BOOLEAN]
  /\ written \subseteq [what : {"prompt", "event", "answer"}, of : Requests]
  /\ before \in [Tools \cup Binds -> SUBSET Binds]

Init ==
  /\ stdin = {}
  /\ open = TRUE /\ up = TRUE
  /\ pc = [f \in Frames |-> "unsent"]
  /\ bound = None
  /\ names \in {n \in [Tools \cup Binds -> Targets] : \A b \in Binds : n[b] # None}
  /\ acted = [t \in Tools |-> None]
  /\ told = [t \in Tools |-> None]
  /\ outcome = [r \in Requests |-> "none"]
  /\ recent = [a \in Assets |-> None]
  /\ audit = {}
  /\ written = {}
  /\ before = [f \in Tools \cup Binds |-> {}]

Wrote(what, f) == [what |-> what, of |-> f] \in written
Answered == {r \in Requests : Wrote("answer", r)}
GoTo(f, to) == pc' = [pc EXCEPT ![f] = to]
Write(what, f) == written' = written \cup {[what |-> what, of |-> f]}

-----------------------------------------------------------------------------
(* The peer writes a frame; its reply to a prompt, once it has seen it.       *)
Send(f) ==
  /\ up /\ open
  /\ pc[f] = "unsent"
  /\ \A t \in Asks : f = Reply(t) => Wrote("prompt", t)
  /\ stdin' = stdin \cup {f}
  /\ GoTo(f, "piped")
  /\ before' = [g \in DOMAIN before |-> IF g = f THEN Answered \cap Binds ELSE before[g]]
  /\ UNCHANGED <<open, up, bound, names, toolVars, written>>

(* Mutant: the reader waits for the thread it started.                        *)
ReadAndWait(f) ==
  /\ up
  /\ f \in stdin
  /\ \A g \in Requests : pc[g] \in {"unsent", "piped", "over"}
  /\ stdin' = stdin \ {f}
  /\ GoTo(f, IF f \in Silent THEN "over" ELSE "read")
  /\ UNCHANGED <<open, up, bound, names, toolVars, written, before>>

(* Lines are taken in the order in which they were written, but each goes to *)
(* a thread of its own and nothing orders the threads: which line is taken    *)
(* makes no odds.  What is not a request leaves no trace.                     *)
Read(f) ==
  /\ up
  /\ f \in stdin
  /\ stdin' = stdin \ {f}
  /\ GoTo(f, IF f \in Silent THEN "over" ELSE "read")
  /\ UNCHANGED <<open, up, bound, names, toolVars, written, before>>

Hang ==
  /\ open
  /\ open' = FALSE
  /\ UNCHANGED <<stdin, up, pc, bound, names, toolVars, written, before>>

(* A line that is not UTF-8, or a pipe that cannot be read, ends the loop.    *)
Misread ==
  /\ up
  /\ up' = FALSE
  /\ UNCHANGED <<stdin, open, pc, bound, names, toolVars, written, before>>

(* The end of the input ends the process, whatever its threads are doing.     *)
Exit ==
  /\ up
  /\ ~open
  /\ stdin = {}
  /\ up' = FALSE
  /\ UNCHANGED <<stdin, open, pc, bound, names, toolVars, written, before>>

-----------------------------------------------------------------------------
(* bind_asset_context                                                         *)
At(f, where) == up /\ pc[f] = where

(* Mutant: a session that is bound stays bound to its first asset.            *)
BindOnce(b) ==
  /\ At(b, "read")
  /\ bound' = IF bound = None THEN names[b] ELSE bound
  /\ outcome' = [outcome EXCEPT ![b] = "ok"]
  /\ GoTo(b, "answering")
  /\ UNCHANGED <<pipeVars, names, acted, told, recent, audit, written, before>>

Bind(b) ==
  /\ At(b, "read")
  /\ bound' = names[b]
  /\ outcome' = [outcome EXCEPT ![b] = "ok"]
  /\ GoTo(b, "answering")
  /\ UNCHANGED <<pipeVars, names, acted, told, recent, audit, written, before>>

(* The asset does not exist, or a method is not registered; a prompt is       *)
(* gone.                                                                      *)
Refuse(f) ==
  /\ f \in Binds \cup Strays
  /\ At(f, "read")
  /\ outcome' = [outcome EXCEPT ![f] = "failed"]
  /\ GoTo(f, "answering")
  /\ UNCHANGED <<pipeVars, bound, names, acted, told, recent, audit, written, before>>

-----------------------------------------------------------------------------
(* A tool call                                                                *)
(* resolve_asset_id and bound_asset_id: the asset that is named, else the one *)
(* the session is bound to now.                                               *)
Resolved(t) == IF names[t] # None THEN names[t] ELSE bound

Resolve(t) ==
  /\ At(t, "read")
  /\ Resolved(t) # None
  /\ acted' = [acted EXCEPT ![t] = Resolved(t)]
  /\ GoTo(t, "acting")
  /\ UNCHANGED <<pipeVars, bound, names, outcome, told, recent, audit, written, before>>

(* Nothing is bound: an error, but for the tools of the databases, which put  *)
(* the hint into a text of success.                                           *)
Unbound(t) ==
  /\ At(t, "read")
  /\ Resolved(t) = None
  /\ \E how \in {"soft", "failed"} :
       /\ outcome' = [outcome EXCEPT ![t] = how]
       /\ GoTo(t, IF how = "failed" THEN "finished" ELSE "acted")
  /\ UNCHANGED <<pipeVars, bound, names, acted, told, recent, audit, written, before>>

(* A prompt is written at once; the handler waits for the reply's thread to   *)
(* hand over the answer ...                                                   *)
Prompt(t) ==
  /\ t \in Asks
  /\ At(t, "acting")
  /\ ~Wrote("prompt", t)
  /\ Write("prompt", t)
  /\ GoTo(t, "asking")
  /\ UNCHANGED <<pipeVars, bound, names, toolVars, before>>

Deliver(t) ==
  /\ At(Reply(t), "read")
  /\ pc' = [pc EXCEPT ![Reply(t)] = "answering",
                      ![t] = IF @ = "asking" THEN "acting" ELSE @]
  /\ outcome' = [outcome EXCEPT ![Reply(t)] =
                   IF pc[t] = "asking" THEN "ok" ELSE "failed"]
  /\ UNCHANGED <<pipeVars, bound, names, acted, told, recent, audit, written, before>>

(* ... or gives up.                                                           *)
GiveUp(t) ==
  /\ At(t, "asking")
  /\ outcome' = [outcome EXCEPT ![t] = "failed"]
  /\ GoTo(t, "finished")
  /\ UNCHANGED <<pipeVars, bound, names, acted, told, recent, audit, written, before>>

(* The tool has done its work; it declines with a hint, which is a success to *)
(* everyone but its reader; it fails, or panics, which is caught.             *)
Return(t) ==
  /\ At(t, "acting")
  /\ \E how \in {"ok", "soft", "failed"} :
       /\ outcome' = [outcome EXCEPT ![t] = how]
       /\ GoTo(t, IF how = "failed" THEN "finished" ELSE "acted")
  /\ UNCHANGED <<pipeVars, bound, names, acted, told, recent, audit, written, before>>

(* after_tool_success looks the asset up again ...                            *)
Tell(t) ==
  /\ At(t, "acted")
  /\ told' = [told EXCEPT ![t] = Resolved(t)]
  /\ Write("event", t)
  /\ GoTo(t, "told")
  /\ UNCHANGED <<pipeVars, bound, names, acted, outcome, recent, audit, before>>

(* ... and files the call under it.                                           *)
Note(t) ==
  /\ At(t, "told")
  /\ recent' = IF told[t] # None THEN [recent EXCEPT ![told[t]] = t] ELSE recent
  /\ GoTo(t, "finished")
  /\ UNCHANGED <<pipeVars, bound, names, acted, outcome, told, audit, written, before>>

Row(t) == [call |-> t, target |-> bound, ok |-> outcome[t] # "failed"]

(* record_tool_audit: the row names the asset the session is bound to by now. *)
(* If it cannot be stored there is only a warning, and storing it may cost    *)
(* the rows of other calls (JsonStore says which).                            *)
Audit(t) ==
  /\ At(t, "finished")
  /\ \E kept \in SUBSET audit, row \in SUBSET {Row(t)} : audit' = kept \cup row
  /\ GoTo(t, "answering")
  /\ UNCHANGED <<pipeVars, bound, names, acted, outcome, told, recent, written, before>>

Answer(f) ==
  /\ At(f, "answering")
  /\ Write("answer", f)
  /\ GoTo(f, "over")
  /\ UNCHANGED <<pipeVars, bound, names, toolVars, before>>

-----------------------------------------------------------------------------
ToolStep(t) ==
  \/ Resolve(t) \/ Unbound(t) \/ Prompt(t) \/ GiveUp(t) \/ Return(t)
  \/ Tell(t) \/ Note(t) \/ Audit(t)

Next ==
  \/ \E f \in Frames : Send(f) \/ Read(f)
  \/ Hang \/ Misread \/ Exit
  \/ \E t \in Tools : ToolStep(t)
  \/ \E t \in Asks : Deliver(t)
  \/ \E b \in Binds : Bind(b)
  \/ \E f \in Binds \cup Strays : Refuse(f)
  \/ \E r \in Requests : Answer(r)

(* Threads run, and a peer that is shown a prompt replies to it.  A tool need *)
(* not return, and no one relies on the patience of a prompt to run out.      *)
Fairness ==
  /\ WF_vars(Exit)
  /\ \A f \in Frames : WF_vars(Read(f))
  /\ \A t \in Tools : WF_vars(Resolve(t) \/ Unbound(t) \/ Tell(t) \/ Note(t) \/ Audit(t))
  /\ \A t \in Asks : WF_vars(Send(Reply(t))) /\ WF_vars(Deliver(t))
  /\ \A f \in Binds \cup Strays : WF_vars(Refuse(f) \/ (f \in Binds /\ Bind(f)))
  /\ \A r \in Requests : WF_vars(Answer(r))

Spec == Init /\ [][Next]_vars
FairSpec == Spec /\ Fairness

-----------------------------------------------------------------------------
(* A tool call that names no asset acts on the asset of a binding that was    *)
(* not known to be outdated when the call was sent: the peer had not sent a   *)
(* later binding, after the answer to this one, and seen that one answered.   *)
BindingsAreCurrent ==
  \A t \in Tools : names[t] = None /\ acted[t] # None =>
    \E b \in Binds :
      /\ names[b] = acted[t]
      /\ outcome[b] = "ok"
      /\ ~\E c \in Binds : outcome[c] = "ok" /\ b \in before[c] /\ c \in before[t]

(* Whoever reads the answer of a tool call has its event on the wire before,  *)
(* unless it failed; and the audit log, which may have lost the row of any    *)
(* call, holds at most one of each, which says how the call ended.            *)
TracesPrecedeAnswer ==
  /\ \A t \in Tools \cap Answered : Wrote("event", t) = (outcome[t] # "failed")
  /\ \A row, other \in audit :
       /\ row.call = other.call => row = other
       /\ row.ok = (outcome[row.call] # "failed")
       /\ row.ok => Wrote("event", row.call)

(* While the process runs, a request in the pipe is answered, or else its     *)
(* tool is at work and may be for ever; a prompt is replied to while its call *)
(* waits, a call whose tool has returned is answered, and no request waits    *)
(* for a tool but the one that called it.                                     *)
RequestsAnswered ==
  \A r \in Requests :
    pc[r] \notin {"unsent", "acting", "over"} ~> pc[r] \in {"acting", "over"} \/ ~up

-----------------------------------------------------------------------------
(* What the sources say and the code does not do.                             *)
(* main.rs:9-10: malformed lines are ignored without killing the process, and *)
(* the end of the input ends it.                                              *)
LinesAreHarmless == open => up
=============================================================================
