---------------------------- MODULE SidecarProofs ----------------------------
(* Proofs about the stdio server: tool calls act on the asset of a binding    *)
(* that is not outdated, and their traces are there before their answer.      *)
(* And about the stores its methods write: what was recorded stays recorded,  *)
(* and records find their secrets.                                            *)
EXTENDS Sidecar, JsonStore, AssetStore, FiniteSetTheorems, TLAPS

LEMMA Kinds ==
  /\ Tools \subseteq Requests /\ Binds \subseteq Requests /\ Strays \subseteq Requests
  /\ Requests \subseteq Frames
  /\ \A t \in Asks : t \in Tools /\ Reply(t) \in Requests /\ Reply(t) \notin Tools \cup Binds
  /\ \A b \in Binds : b \notin Tools /\ b \notin Strays
  /\ \A t \in Tools : t \notin Strays
  BY SidecarAssumption DEF Requests, Frames, Replies

LEMMA TypeInit == Init => TypeOK
  BY DEF Init, TypeOK, Targets

LEMMA TypeStep == TypeOK /\ [Next]_vars => TypeOK'
<1> SUFFICES ASSUME TypeOK, [Next]_vars PROVE TypeOK'
  OBVIOUS
<1> USE DEF TypeOK, GoTo, At
<1>1. ASSUME NEW f \in Frames, Send(f) PROVE TypeOK'
  <2>1. before' \in [Tools \cup Binds -> SUBSET Binds]
    BY <1>1 DEF Send
  <2>2. QED
    BY <1>1, <2>1 DEF Send, toolVars
<1>2. ASSUME NEW f \in Frames, Read(f) PROVE TypeOK'
  BY <1>2 DEF Read, toolVars
<1>3. CASE Hang \/ Misread \/ Exit
  BY <1>3 DEF Hang, Misread, Exit, pipeVars, toolVars
<1>4. ASSUME NEW t \in Tools, ToolStep(t) PROVE TypeOK'
  <2>0. t \in Requests /\ t \in Frames /\ names[t] \in Targets /\ t \in Tools \cup Binds
    BY Kinds
  <2>1. CASE Resolve(t)
    BY <2>0, <2>1 DEF Resolve, Resolved, pipeVars
  <2>2. CASE Unbound(t) \/ GiveUp(t)
    BY <2>0, <2>2 DEF Unbound, GiveUp, pipeVars
  <2>3. CASE Prompt(t)
    BY <2>0, <2>3 DEF Prompt, Write, pipeVars, toolVars
  <2>4. CASE Return(t)
    BY <2>0, <2>4 DEF Return, pipeVars
  <2>5. CASE Tell(t)
    BY <2>0, <2>5 DEF Tell, Write, Resolved, pipeVars
  <2>6. CASE Note(t)
    <3>1. told[t] # None => told[t] \in Assets
      BY DEF Targets
    <3>2. QED
      BY <2>0, <2>6, <3>1 DEF Note, pipeVars
  <2>7. CASE Audit(t)
    <3>1. Row(t) \in [call : Tools, target : Targets, ok : BOOLEAN]
      BY DEF Row
    <3>2. audit' \subseteq audit \cup {Row(t)}
      BY <2>7 DEF Audit
    <3>3. audit' \subseteq [call : Tools, target : Targets, ok : BOOLEAN]
      BY <3>1, <3>2
    <3>4. QED
      BY <2>0, <2>7, <3>3 DEF Audit, pipeVars
  <2>8. QED
    BY <1>4, <2>1, <2>2, <2>3, <2>4, <2>5, <2>6, <2>7 DEF ToolStep
<1>5. ASSUME NEW t \in Asks, Deliver(t) PROVE TypeOK'
  BY <1>5, Kinds DEF Deliver, pipeVars
<1>6. ASSUME NEW b \in Binds, Bind(b) PROVE TypeOK'
  BY <1>6, Kinds DEF Bind, pipeVars
<1>7. ASSUME NEW f \in Binds \cup Strays, Refuse(f) PROVE TypeOK'
  BY <1>7, Kinds DEF Refuse, pipeVars
<1>8. ASSUME NEW r \in Requests, Answer(r) PROVE TypeOK'
  BY <1>8, Kinds DEF Answer, Write, pipeVars, toolVars
<1>9. CASE UNCHANGED vars
  BY <1>9 DEF vars
<1>10. QED
  BY <1>1, <1>2, <1>3, <1>4, <1>5, <1>6, <1>7, <1>8, <1>9 DEF Next

-----------------------------------------------------------------------------
(* What waits in the pipe has not been read.                                  *)
Piped == \A f \in stdin : pc[f] = "piped"

LEMMA PipedStep == TypeOK /\ Piped /\ [Next]_vars => Piped'
<1> SUFFICES ASSUME TypeOK, Piped, [Next]_vars PROVE Piped'
  OBVIOUS
<1>0. /\ stdin \subseteq Frames /\ Tools \subseteq Frames /\ Requests \subseteq Frames
      /\ Binds \cup Strays \subseteq Frames
      /\ pc \in [Frames -> {"unsent", "piped", "read", "acting", "asking",
                            "acted", "told", "finished", "answering", "over"}]
  BY Kinds DEF TypeOK
<1>1. ASSUME NEW f \in Frames, Send(f) \/ Read(f) PROVE Piped'
  BY <1>0, <1>1 DEF Send, Read, GoTo, Piped
<1>2. ASSUME stdin' = stdin, NEW f \in Frames, pc[f] # "piped",
             NEW to, pc' = [pc EXCEPT ![f] = to]
      PROVE  Piped'
  BY <1>0, <1>2 DEF Piped
<1>3. ASSUME NEW t \in Tools, ToolStep(t) PROVE Piped'
  BY <1>0, <1>2, <1>3 DEF ToolStep, Resolve, Unbound, Prompt, GiveUp, Return, Tell, Note,
                          Audit, At, GoTo, pipeVars
<1>4. ASSUME NEW u \in Asks, Deliver(u) PROVE Piped'
  <2>1. /\ stdin' = stdin /\ pc[Reply(u)] = "read"
        /\ Reply(u) # u /\ u \in Frames /\ Reply(u) \in Frames
        /\ pc' = [pc EXCEPT ![Reply(u)] = "answering",
                            ![u] = IF @ = "asking" THEN "acting" ELSE @]
    BY <1>0, <1>4, Kinds DEF Deliver, At, pipeVars
  <2>2. \A f \in Frames : pc[f] = "piped" => pc'[f] = "piped"
    BY <1>0, <2>1
  <2>3. QED
    BY <1>0, <2>1, <2>2 DEF Piped
<1>5. ASSUME NEW f \in Requests, Answer(f) \/ (f \in Binds /\ Bind(f))
                                    \/ (f \in Binds \cup Strays /\ Refuse(f))
      PROVE  Piped'
  BY <1>0, <1>2, <1>5 DEF Answer, Bind, Refuse, At, GoTo, pipeVars
<1>6. CASE Hang \/ Misread \/ Exit \/ UNCHANGED vars
  BY <1>6 DEF Hang, Misread, Exit, vars, pipeVars, Piped
<1>7. QED
  BY <1>1, <1>3, <1>4, <1>5, <1>6, Kinds DEF Next

-----------------------------------------------------------------------------
(* How far a tool call is says which traces it has left.                      *)
Rows(t) == {row \in audit : row.call = t}

Traces(t) ==
  /\ pc[t] \in {"unsent", "piped", "read", "acting", "asking", "acted"} => ~Wrote("event", t)
  /\ pc[t] \in {"acted", "told"} => outcome[t] \in {"ok", "soft"}
  /\ pc[t] = "told" => Wrote("event", t)
  /\ pc[t] \in {"finished", "answering", "over"} =>
       (Wrote("event", t) <=> outcome[t] # "failed")
  /\ \A row, other \in Rows(t) : row = other
  /\ \A row \in Rows(t) : row.ok = (outcome[t] # "failed")
  /\ pc[t] \notin {"answering", "over"} => Rows(t) = {}
  /\ Wrote("answer", t) => pc[t] = "over"

TracesFrame(t) == pc'[t] = pc[t] /\ outcome'[t] = outcome[t] /\ Rows(t)' \subseteq Rows(t)
                  /\ (Wrote("event", t)' <=> Wrote("event", t))
                  /\ (Wrote("answer", t)' <=> Wrote("answer", t))

LEMMA TracesKeep == ASSUME NEW t \in Tools, Traces(t), TracesFrame(t) PROVE Traces(t)'
  BY DEF Traces, TracesFrame

LEMMA TracesStep ==
  ASSUME TypeOK, Piped, NEW t \in Tools, Traces(t), [Next]_vars
  PROVE  Traces(t)'
<1>0. /\ t \in Requests /\ t \in Frames /\ t \notin Binds /\ t \notin Strays
      /\ \A u \in Asks : Reply(u) # t /\ u \in Requests /\ Reply(u) \in Requests
      /\ pc \in [Frames -> {"unsent", "piped", "read", "acting", "asking",
                            "acted", "told", "finished", "answering", "over"}]
      /\ outcome \in [Requests -> {"none", "ok", "soft", "failed"}]
      /\ Requests \subseteq Frames
  BY Kinds DEF TypeOK
<1>1. ASSUME audit' = audit, written' = written, outcome' = outcome,
             NEW f \in Frames, NEW to, pc' = [pc EXCEPT ![f] = to],
             pc[f] \in {"unsent", "piped", "read", "acting"},
             to \in {"piped", "read", "acting", "asking"} \/ f \in Silent
      PROVE  Traces(t)'
  <2>1. CASE f = t
    <3>1. t \notin Silent
      BY SidecarAssumption
    <3>2. pc[t] \in {"unsent", "piped", "read", "acting"}
          /\ pc'[t] \in {"piped", "read", "acting", "asking"}
      BY <1>0, <1>1, <2>1, <3>1
    <3>3. QED
      BY <1>1, <3>2 DEF Traces, Rows, Wrote
  <2>2. CASE f # t
    BY <1>0, <1>1, <2>2, TracesKeep DEF TracesFrame, Rows, Wrote
  <2>3. QED
    BY <2>1, <2>2
<1>2. ASSUME NEW f \in Frames, Send(f) \/ Read(f) PROVE Traces(t)'
  <2>1. CASE Send(f)
    BY <1>1, <2>1 DEF Send, GoTo, toolVars
  <2>2. CASE Read(f)
    <3>1. /\ audit' = audit /\ written' = written /\ outcome' = outcome
          /\ pc[f] = "piped"
          /\ \E to \in {"over", "read"} :
                pc' = [pc EXCEPT ![f] = to] /\ (to = "read" \/ f \in Silent)
      BY <2>2 DEF Read, GoTo, toolVars, Piped
    <3>2. CASE f = t
      <4>1. t \notin Silent
        BY SidecarAssumption
      <4>2. pc'[t] = "read" /\ pc[t] = "piped"
        BY <1>0, <3>1, <3>2, <4>1
      <4>3. QED
        BY <3>1, <4>2 DEF Traces, Rows, Wrote
    <3>3. CASE f # t
      <4>1. pc'[t] = pc[t]
        BY <1>0, <3>1, <3>3
      <4>2. QED
        BY <3>1, <4>1, TracesKeep DEF TracesFrame, Rows, Wrote
    <3>4. QED
      BY <3>2, <3>3
  <2>3. QED
    BY <1>2, <2>1, <2>2
<1>3. CASE Hang \/ Misread \/ Exit
  BY <1>3, TracesKeep DEF Hang, Misread, Exit, toolVars, TracesFrame, Rows, Wrote
(* A thread of another request.                                               *)
<1>4. ASSUME NEW f \in Requests, f # t, NEW to, pc' = [pc EXCEPT ![f] = to],
             audit' = audit, written' \ written \subseteq [what : {"prompt", "event", "answer"}, of : {f}],
             written \subseteq written',
             \A r \in Requests : r # f => outcome'[r] = outcome[r]
      PROVE  Traces(t)'
  <2>1. \A x : Wrote(x, t)' <=> Wrote(x, t)
    BY <1>4 DEF Wrote
  <2>2. QED
    BY <1>0, <1>4, <2>1, TracesKeep DEF TracesFrame, Rows
<1>5. ASSUME NEW b \in Binds, Bind(b) PROVE Traces(t)'
  <2>1. b \in Requests /\ b # t
    BY <1>0, Kinds
  <2>2. QED
    BY <1>0, <1>4, <1>5, <2>1 DEF Bind, GoTo, TypeOK
<1>6. ASSUME NEW f \in Binds \cup Strays, Refuse(f) PROVE Traces(t)'
  <2>1. f \in Requests /\ f # t
    BY <1>0, Kinds
  <2>2. QED
    BY <1>0, <1>4, <1>6, <2>1 DEF Refuse, GoTo
<1>7. ASSUME NEW r \in Requests, Answer(r) PROVE Traces(t)'
  <2>1. /\ pc[r] = "answering" /\ pc' = [pc EXCEPT ![r] = "over"]
        /\ written' = written \cup {[what |-> "answer", of |-> r]}
        /\ audit' = audit /\ outcome' = outcome
    BY <1>7 DEF Answer, At, GoTo, Write, toolVars
  <2>2. CASE r # t
    <3>1. written' \ written \subseteq [what : {"prompt", "event", "answer"}, of : {r}]
          /\ written \subseteq written'
      BY <2>1
    <3>2. QED
      BY <1>4, <2>1, <2>2, <3>1
  <2>3. CASE r = t
    <3>1. pc[t] = "answering" /\ pc'[t] = "over" /\ Rows(t)' = Rows(t)
      BY <1>0, <2>1, <2>3 DEF Rows
    <3>2. Wrote("event", t)' <=> Wrote("event", t)
      BY <2>1 DEF Wrote
    <3>3. QED
      BY <2>1, <3>1, <3>2 DEF Traces
  <2>4. QED
    BY <2>2, <2>3
<1>8. ASSUME NEW u \in Asks, Deliver(u) PROVE Traces(t)'
  <2>1. /\ pc' = [pc EXCEPT ![Reply(u)] = "answering",
                            ![u] = IF @ = "asking" THEN "acting" ELSE @]
        /\ audit' = audit /\ written' = written /\ outcome'[t] = outcome[t]
    BY <1>0, <1>8 DEF Deliver
  <2>2. pc'[t] = pc[t] \/ (pc[t] = "asking" /\ pc'[t] = "acting")
    <3>1. /\ Reply(u) # t /\ Reply(u) # u /\ u \in Frames /\ t \in Frames
          /\ pc' = [pc EXCEPT ![Reply(u)] = "answering",
                              ![u] = IF @ = "asking" THEN "acting" ELSE @]
      BY <1>0, <2>1, Kinds
    <3>2. CASE u = t
      BY <1>0, <3>1, <3>2
    <3>3. CASE u # t
      BY <1>0, <3>1, <3>3
    <3>4. QED
      BY <3>2, <3>3
  <2>3. QED
    BY <2>1, <2>2 DEF Traces, Rows, Wrote
(* The thread of a tool call.                                                 *)
<1>9. ASSUME NEW u \in Tools, ToolStep(u), u # t PROVE Traces(t)'
  <2>1. u \in Requests
    BY Kinds
  <2>2. Rows(t)' \subseteq Rows(t)
    <3>1. audit' \subseteq audit \cup {Row(u)}
      BY <1>9 DEF ToolStep, Resolve, Unbound, Prompt, GiveUp, Return, Tell, Note, Audit,
                  toolVars
    <3>2. Row(u).call # t
      BY <1>9 DEF Row
    <3>3. QED
      BY <3>1, <3>2 DEF Rows
  <2>3. \A x \in {"event", "answer"} : Wrote(x, t)' <=> Wrote(x, t)
    BY <1>9 DEF ToolStep, Resolve, Unbound, Prompt, GiveUp, Return, Tell, Note, Audit,
                Write, Wrote
  <2>4. pc'[t] = pc[t] /\ outcome'[t] = outcome[t]
    BY <1>0, <1>9, <2>1 DEF ToolStep, Resolve, Unbound, Prompt, GiveUp, Return, Tell, Note, Audit,
                GoTo, toolVars
  <2>5. QED
    BY <2>2, <2>3, <2>4, TracesKeep DEF TracesFrame
<1>10. CASE ToolStep(t)
  <2>1. CASE Resolve(t)
    BY <1>0, <1>1, <2>1 DEF Resolve, At, GoTo
  <2>2. CASE Unbound(t) \/ GiveUp(t)
    <3>1. /\ pc[t] \in {"read", "asking"}
          /\ \/ pc'[t] = "finished" /\ outcome'[t] = "failed"
             \/ pc'[t] = "acted" /\ outcome'[t] = "soft"
          /\ audit' = audit /\ written' = written
      BY <1>0, <2>2 DEF Unbound, GiveUp, At, GoTo
    <3>2. QED
      BY <3>1 DEF Traces, Rows, Wrote
  <2>3. CASE Prompt(t)
    <3>1. /\ pc[t] = "acting" /\ pc'[t] = "asking" /\ outcome' = outcome /\ audit' = audit
          /\ \A x \in {"event", "answer"} : Wrote(x, t)' <=> Wrote(x, t)
      BY <1>0, <2>3 DEF Prompt, At, GoTo, Write, Wrote, toolVars
    <3>2. QED
      BY <3>1 DEF Traces, Rows
  <2>4. CASE Return(t)
    <3>1. /\ pc[t] = "acting" /\ audit' = audit /\ written' = written
          /\ \/ outcome'[t] = "failed" /\ pc'[t] = "finished"
             \/ outcome'[t] \in {"ok", "soft"} /\ pc'[t] = "acted"
      BY <1>0, <2>4 DEF Return, At, GoTo
    <3>2. QED
      BY <3>1 DEF Traces, Rows, Wrote
  <2>5. CASE Tell(t)
    <3>1. /\ pc[t] = "acted" /\ pc'[t] = "told" /\ outcome' = outcome /\ audit' = audit
          /\ Wrote("event", t)' /\ (Wrote("answer", t)' <=> Wrote("answer", t))
      BY <1>0, <2>5 DEF Tell, At, GoTo, Write, Wrote
    <3>2. QED
      BY <3>1 DEF Traces, Rows
  <2>6. CASE Note(t)
    <3>1. /\ pc[t] = "told" /\ pc'[t] = "finished" /\ outcome' = outcome /\ audit' = audit
          /\ written' = written
      BY <1>0, <2>6 DEF Note, At, GoTo
    <3>2. QED
      BY <3>1 DEF Traces, Rows, Wrote
  <2>7. CASE Audit(t)
    <3>1. /\ pc[t] = "finished" /\ pc'[t] = "answering" /\ outcome' = outcome
          /\ audit' \subseteq audit \cup {Row(t)} /\ written' = written
      BY <1>0, <2>7 DEF Audit, At, GoTo
    <3>2. Row(t).call = t /\ Row(t).ok = (outcome[t] # "failed")
      BY DEF Row
    <3>3. Rows(t)' \subseteq {Row(t)}
      <4>1. Rows(t) = {}
        BY <3>1 DEF Traces
      <4>2. QED
        BY <3>1, <3>2, <4>1 DEF Rows
    <3>4. QED
      BY <3>1, <3>2, <3>3 DEF Traces, Wrote
  <2>8. QED
    BY <1>10, <2>1, <2>2, <2>3, <2>4, <2>5, <2>6, <2>7 DEF ToolStep
<1>11. CASE UNCHANGED vars
  BY <1>11, TracesKeep DEF vars, toolVars, TracesFrame, Rows, Wrote
<1>12. QED
  BY <1>2, <1>3, <1>5, <1>6, <1>7, <1>8, <1>9, <1>10, <1>11 DEF Next

-----------------------------------------------------------------------------
(* No binding is known to be outdated by the binding of today: a binding      *)
(* whose answer was seen is over, and one that is not has no outcome.         *)
Latest(b, known) ==
  /\ outcome[b] = "ok"
  /\ ~\E c \in Binds : outcome[c] = "ok" /\ b \in before[c] /\ c \in known

Bindings ==
  /\ \A f \in Tools \cup Binds : \A b \in before[f] : pc[b] = "over"
  /\ \A b \in Binds : /\ Wrote("answer", b) => pc[b] = "over"
                      /\ pc[b] \in {"unsent", "piped", "read"} => outcome[b] = "none"
  /\ bound # None => \E b \in Binds : names[b] = bound /\ Latest(b, Binds)
  /\ \A t \in Tools : pc[t] \in {"unsent", "piped", "read"} => acted[t] = None
  /\ \A t \in Tools : names[t] = None /\ acted[t] # None =>
       \E b \in Binds : names[b] = acted[t] /\ Latest(b, before[t])

LEMMA BindingsKeep ==
  ASSUME TypeOK, Bindings, UNCHANGED <<bound, acted, names, before>>,
         \A b \in Binds :
           /\ outcome'[b] = outcome[b]
           /\ pc[b] = "over" => pc'[b] = "over"
           /\ pc'[b] \in {"unsent", "piped", "read"} => pc[b] \in {"unsent", "piped", "read"}
           /\ Wrote("answer", b)' => Wrote("answer", b) \/ pc'[b] = "over",
         \A t \in Tools :
           pc'[t] \in {"unsent", "piped", "read"} => pc[t] \in {"unsent", "piped", "read"}
  PROVE  Bindings'
<1>1. \A f \in Tools \cup Binds : before[f] \subseteq Binds
  BY DEF TypeOK
<1>2. \A b \in Binds, known \in SUBSET Binds : Latest(b, known)' <=> Latest(b, known)
  BY DEF Latest
<1>3. /\ \A f \in Tools \cup Binds : \A b \in before'[f] : pc'[b] = "over"
      /\ \A b \in Binds : /\ Wrote("answer", b)' => pc'[b] = "over"
                          /\ pc'[b] \in {"unsent", "piped", "read"} => outcome'[b] = "none"
      /\ \A t \in Tools : pc'[t] \in {"unsent", "piped", "read"} => acted'[t] = None
  BY <1>1 DEF Bindings
<1>4. bound' # None => \E b \in Binds : names'[b] = bound' /\ Latest(b, Binds)'
  BY DEF Bindings, Latest
<1>5. \A t \in Tools : names'[t] = None /\ acted'[t] # None =>
         \E b \in Binds : names'[b] = acted'[t] /\ Latest(b, before[t])'
  BY DEF Bindings, Latest
<1>6. QED
  BY <1>3, <1>4, <1>5 DEF Bindings, Latest

LEMMA BindingsStep == ASSUME TypeOK, Piped, Bindings, [Next]_vars PROVE Bindings'
<1>0. /\ Binds \subseteq Requests /\ Tools \subseteq Requests /\ Requests \subseteq Frames
      /\ \A b \in Binds : b \notin Tools /\ b \notin Strays /\ b \notin Silent
      /\ \A t \in Tools : t \notin Silent
      /\ \A u \in Asks : Reply(u) \notin Tools \cup Binds /\ u \in Tools /\ Reply(u) \in Frames
      /\ pc \in [Frames -> {"unsent", "piped", "read", "acting", "asking",
                            "acted", "told", "finished", "answering", "over"}]
      /\ outcome \in [Requests -> {"none", "ok", "soft", "failed"}]
      /\ before \in [Tools \cup Binds -> SUBSET Binds]
      /\ acted \in [Tools -> Targets]
  BY Kinds, SidecarAssumption DEF TypeOK
<1>1. ASSUME NEW f \in Frames, Send(f) PROVE Bindings'
  <2>1. /\ pc[f] = "unsent" /\ pc' = [pc EXCEPT ![f] = "piped"]
        /\ before' = [g \in Tools \cup Binds |->
                        IF g = f THEN Answered \cap Binds ELSE before[g]]
        /\ UNCHANGED <<bound, names, acted, outcome, written>>
    BY <1>0, <1>1 DEF Send, GoTo, toolVars
  <2>2. \A b \in Answered \cap Binds : pc[b] = "over"
    BY DEF Answered, Bindings
  <2>3. \A g \in Tools \cup Binds : \A b \in before'[g] : pc'[b] = "over"
    <3> SUFFICES ASSUME NEW g \in Tools \cup Binds, NEW b \in before'[g] PROVE pc'[b] = "over"
      OBVIOUS
    <3>1. b \in Binds /\ pc[b] = "over"
      BY <1>0, <2>1, <2>2 DEF Bindings
    <3>2. QED
      BY <1>0, <2>1, <3>1
  <2>4. \A b \in Binds : /\ Wrote("answer", b)' => pc'[b] = "over"
                         /\ pc'[b] \in {"unsent", "piped", "read"} => outcome'[b] = "none"
    BY <1>0, <2>1 DEF Bindings, Wrote
  <2>5. \A t \in Tools : pc'[t] \in {"unsent", "piped", "read"} => acted'[t] = None
    BY <1>0, <2>1 DEF Bindings
  <2>6. \A c \in Binds : outcome[c] = "ok" => before'[c] = before[c]
    <3>1. f \in Binds => outcome[f] = "none"
      BY <2>1 DEF Bindings
    <3>2. QED
      BY <1>0, <2>1, <3>1
  <2>7. bound' # None => \E b \in Binds : names'[b] = bound' /\ Latest(b, Binds)'
    BY <2>1, <2>6 DEF Bindings, Latest
  <2>8. ASSUME NEW t \in Tools, names'[t] = None, acted'[t] # None
        PROVE  \E b \in Binds : names'[b] = acted'[t] /\ Latest(b, before[t])'
    <3>1. t # f
      BY <2>1, <2>8 DEF Bindings
    <3>2. before'[t] = before[t]
      BY <1>0, <2>1, <3>1
    <3>3. QED
      BY <2>1, <2>6, <2>8, <3>2 DEF Bindings, Latest
  <2>9. QED
    BY <2>3, <2>4, <2>5, <2>7, <2>8 DEF Bindings, Latest
<1>2. ASSUME NEW f \in Frames, Read(f) PROVE Bindings'
  <2>1. /\ pc[f] = "piped"
        /\ UNCHANGED <<bound, names, acted, outcome, written, before>>
        /\ \E to \in {"over", "read"} : pc' = [pc EXCEPT ![f] = to]
    BY <1>2 DEF Read, GoTo, toolVars, Piped
  <2>2. \A g \in Frames : pc'[g] = pc[g] \/ (pc[g] = "piped" /\ pc'[g] \in {"over", "read"})
    BY <1>0, <2>1
  <2>3. QED
    BY <1>0, <2>1, <2>2, BindingsKeep DEF Wrote
<1>3. CASE Hang \/ Misread \/ Exit
  BY <1>3, BindingsKeep DEF Hang, Misread, Exit, toolVars, Wrote
<1>4. ASSUME NEW t \in Tools, ToolStep(t) PROVE Bindings'
  <2>1. CASE Resolve(t)
    <3>1. /\ pc' = [pc EXCEPT ![t] = "acting"] /\ acted' = [acted EXCEPT ![t] = Resolved(t)]
          /\ UNCHANGED <<bound, names, outcome, written, before>>
      BY <2>1 DEF Resolve, GoTo
    <3>2. \A b \in Binds : pc'[b] = pc[b]
      BY <1>0, <3>1
    <3>3. /\ \A f \in Tools \cup Binds : \A b \in before'[f] : pc'[b] = "over"
          /\ \A b \in Binds : /\ Wrote("answer", b)' => pc'[b] = "over"
                              /\ pc'[b] \in {"unsent", "piped", "read"} => outcome'[b] = "none"
      BY <1>0, <3>1, <3>2 DEF Bindings, Wrote
    <3>4. \A s \in Tools : pc'[s] \in {"unsent", "piped", "read"} => acted'[s] = None
      BY <1>0, <3>1 DEF Bindings
    <3>5. bound' # None => \E b \in Binds : names'[b] = bound' /\ Latest(b, Binds)'
      BY <3>1 DEF Bindings, Latest
    <3>6. ASSUME NEW s \in Tools, names'[s] = None, acted'[s] # None
          PROVE  \E b \in Binds : names'[b] = acted'[s] /\ Latest(b, before[s])'
      <4>1. CASE s = t
        <5>1. acted'[s] = bound /\ bound # None
          BY <1>0, <3>1, <3>6, <4>1 DEF Resolved
        <5>2. PICK b \in Binds : names[b] = bound /\ Latest(b, Binds)
          BY <5>1 DEF Bindings
        <5>3. before[s] \subseteq Binds
          BY <1>0
        <5>4. QED
          BY <3>1, <5>1, <5>2, <5>3 DEF Latest
      <4>2. CASE s # t
        <5>1. acted'[s] = acted[s]
          BY <1>0, <3>1, <4>2
        <5>2. QED
          BY <3>1, <3>6, <5>1 DEF Bindings, Latest
      <4>3. QED
        BY <4>1, <4>2
    <3>7. QED
      BY <3>3, <3>4, <3>5, <3>6 DEF Bindings, Latest
  <2>2. CASE ~Resolve(t)
    <3>1. /\ UNCHANGED <<bound, names, acted, before>>
          /\ \A b \in Binds : outcome'[b] = outcome[b]
          /\ \E to \in {"finished", "asking", "acted", "told", "answering"} :
               pc' = [pc EXCEPT ![t] = to]
      BY <1>0, <1>4, <2>2 DEF ToolStep, Unbound, Prompt, GiveUp, Return, Tell, Note, Audit,
                              GoTo, toolVars
    <3>2. \A b \in Binds : Wrote("answer", b)' <=> Wrote("answer", b)
      BY <1>4, <2>2 DEF ToolStep, Unbound, Prompt, GiveUp, Return, Tell, Note, Audit,
                        Write, Wrote
    <3>3. QED
      BY <1>0, <3>1, <3>2, BindingsKeep
  <2>3. QED
    BY <2>1, <2>2
<1>5. ASSUME NEW u \in Asks, Deliver(u) PROVE Bindings'
  <2>1. /\ UNCHANGED <<bound, names, acted, before, written>>
        /\ \A b \in Binds : outcome'[b] = outcome[b] /\ pc'[b] = pc[b]
    BY <1>0, <1>5 DEF Deliver
  <2>2. \A t \in Tools : pc'[t] = pc[t] \/ pc'[t] = "acting"
    <3> SUFFICES ASSUME NEW t \in Tools PROVE pc'[t] = pc[t] \/ pc'[t] = "acting"
      OBVIOUS
    <3>1. /\ Reply(u) # t /\ Reply(u) # u /\ u \in Frames /\ t \in Frames
          /\ pc' = [pc EXCEPT ![Reply(u)] = "answering",
                              ![u] = IF @ = "asking" THEN "acting" ELSE @]
      BY <1>0, <1>5 DEF Deliver
    <3>2. CASE u = t
      BY <1>0, <3>1, <3>2
    <3>3. CASE u # t
      BY <1>0, <3>1, <3>3
    <3>4. QED
      BY <3>2, <3>3
  <2>3. QED
    BY <2>1, <2>2, BindingsKeep DEF Wrote
<1>6. ASSUME NEW x \in Binds, Bind(x) PROVE Bindings'
  <2>1. /\ pc[x] = "read" /\ pc' = [pc EXCEPT ![x] = "answering"] /\ bound' = names[x]
        /\ outcome' = [outcome EXCEPT ![x] = "ok"]
        /\ UNCHANGED <<names, acted, before, written>>
    BY <1>6 DEF Bind, At, GoTo
  <2>2. outcome[x] = "none" /\ \A f \in Tools \cup Binds : x \notin before[f]
    BY <2>1 DEF Bindings
  <2>3. \A b \in Binds : outcome'[b] = IF b = x THEN "ok" ELSE outcome[b]
    BY <1>0, <2>1
  <2>4. /\ \A f \in Tools \cup Binds : \A b \in before'[f] : pc'[b] = "over"
        /\ \A b \in Binds : /\ Wrote("answer", b)' => pc'[b] = "over"
                            /\ pc'[b] \in {"unsent", "piped", "read"} => outcome'[b] = "none"
        /\ \A t \in Tools : pc'[t] \in {"unsent", "piped", "read"} => acted'[t] = None
    <3>1. \A b \in Binds : b # x => pc'[b] = pc[b]
      BY <1>0, <2>1
    <3>2. \A t \in Tools : pc'[t] = pc[t]
      BY <1>0, <2>1
    <3>3. pc'[x] = "answering" /\ ~Wrote("answer", x)
      BY <1>0, <2>1 DEF Bindings
    <3>4. QED
      BY <1>0, <2>1, <2>2, <2>3, <3>1, <3>2, <3>3 DEF Bindings, Wrote
  <2>5. names'[x] = bound' /\ Latest(x, Binds)'
    BY <2>1, <2>2, <2>3 DEF Latest
  <2>6. ASSUME NEW t \in Tools, names'[t] = None, acted'[t] # None
        PROVE  \E b \in Binds : names'[b] = acted'[t] /\ Latest(b, before[t])'
    <3>1. PICK b \in Binds : names[b] = acted[t] /\ Latest(b, before[t])
      BY <2>1, <2>6 DEF Bindings
    <3>2. x \notin before[t]
      BY <2>2
    <3>3. QED
      BY <2>1, <2>3, <3>1, <3>2 DEF Latest
  <2>7. QED
    BY <2>4, <2>5, <2>6 DEF Bindings, Latest
<1>7. ASSUME NEW x \in Binds \cup Strays, Refuse(x) PROVE Bindings'
  <2>1. /\ pc[x] = "read" /\ pc' = [pc EXCEPT ![x] = "answering"]
        /\ outcome' = [outcome EXCEPT ![x] = "failed"]
        /\ UNCHANGED <<bound, names, acted, before, written>>
    BY <1>7 DEF Refuse, At, GoTo
  <2>2. x \notin Tools /\ x \in Frames /\ x \in Requests
    BY Kinds
  <2>3. \A b \in Binds : /\ outcome'[b] = "ok" <=> outcome[b] = "ok"
                         /\ b # x => outcome'[b] = outcome[b] /\ pc'[b] = pc[b]
                         /\ b = x => pc'[b] = "answering"
    BY <1>0, <2>1, <2>2 DEF Bindings
  <2>4. \A t \in Tools : pc'[t] = pc[t]
    BY <1>0, <2>1, <2>2
  <2>5. /\ \A f \in Tools \cup Binds : \A b \in before'[f] : pc'[b] = "over"
        /\ \A b \in Binds : /\ Wrote("answer", b)' => pc'[b] = "over"
                            /\ pc'[b] \in {"unsent", "piped", "read"} => outcome'[b] = "none"
        /\ \A t \in Tools : pc'[t] \in {"unsent", "piped", "read"} => acted'[t] = None
    BY <1>0, <2>1, <2>3, <2>4 DEF Bindings, Wrote
  <2>6. bound' # None => \E b \in Binds : names'[b] = bound' /\ Latest(b, Binds)'
    BY <2>1, <2>3 DEF Bindings, Latest
  <2>7. \A t \in Tools : names'[t] = None /\ acted'[t] # None =>
           \E b \in Binds : names'[b] = acted'[t] /\ Latest(b, before[t])'
    BY <2>1, <2>3 DEF Bindings, Latest
  <2>8. QED
    BY <2>5, <2>6, <2>7 DEF Bindings, Latest
<1>8. ASSUME NEW r \in Requests, Answer(r) PROVE Bindings'
  <2>1. /\ pc' = [pc EXCEPT ![r] = "over"]
        /\ written' = written \cup {[what |-> "answer", of |-> r]}
        /\ UNCHANGED <<bound, names, acted, before, outcome>>
    BY <1>8 DEF Answer, GoTo, Write, toolVars
  <2>2. \A f \in Frames : pc'[f] = IF f = r THEN "over" ELSE pc[f]
    BY <1>0, <2>1
  <2>3. \A b \in Binds : Wrote("answer", b)' => Wrote("answer", b) \/ b = r
    BY <2>1 DEF Wrote
  <2>4. QED
    BY <1>0, <2>1, <2>2, <2>3, BindingsKeep
<1>9. CASE UNCHANGED vars
  BY <1>9, BindingsKeep DEF vars, toolVars, Wrote
<1>10. QED
  BY <1>1, <1>2, <1>3, <1>4, <1>5, <1>6, <1>7, <1>8, <1>9 DEF Next

-----------------------------------------------------------------------------
Inv == TypeOK /\ Piped /\ Bindings /\ \A t \in Tools : Traces(t)

LEMMA InvInit == Init => Inv
<1> SUFFICES ASSUME Init PROVE Inv
  OBVIOUS
<1>1. TypeOK
  BY TypeInit
<1>2. \A f \in Frames : pc[f] = "unsent"
  BY DEF Init
<1>3. Bindings
  BY <1>1, Kinds DEF Init, Bindings, Wrote, TypeOK
<1>4. \A t \in Tools : Traces(t)
  BY <1>2, Kinds DEF Init, Traces, Wrote, Rows
<1>5. QED
  BY <1>1, <1>3, <1>4 DEF Inv, Init, Piped

LEMMA InvStep == Inv /\ [Next]_vars => Inv'
  BY TypeStep, PipedStep, BindingsStep, TracesStep DEF Inv

(* A tool call that names no asset acts on the asset of a binding that its    *)
(* sender did not know to be outdated, whatever the threads' order.           *)
THEOREM BindingsCorrect == Spec => []BindingsAreCurrent
<1>1. Inv => BindingsAreCurrent
  BY DEF Inv, Bindings, Latest, BindingsAreCurrent
<1>2. QED
  BY <1>1, InvInit, InvStep, PTL DEF Spec

(* Whoever reads the answer of a tool call has its event on the wire before,  *)
(* unless it failed; and the audit log, which may have lost any row, holds at *)
(* most one of each call, which says how it ended.                            *)
THEOREM TracesCorrect == Spec => []TracesPrecedeAnswer
<1>1. Inv => TracesPrecedeAnswer
  <2> SUFFICES ASSUME Inv PROVE TracesPrecedeAnswer
    OBVIOUS
  <2>1. \A t \in Tools : Traces(t)
    BY DEF Inv
  <2>2. ASSUME NEW t \in Tools \cap Answered
        PROVE  Wrote("event", t) = (outcome[t] # "failed")
    <3>1. Wrote("event", t) <=> outcome[t] # "failed"
      BY <2>1, <2>2 DEF Traces, Answered
    <3>2. Wrote("event", t) \in BOOLEAN
      BY DEF Wrote
    <3>3. QED
      BY <3>1, <3>2
  <2>3. ASSUME NEW row \in audit, NEW other \in audit
        PROVE  /\ row.call = other.call => row = other
               /\ row.ok = (outcome[row.call] # "failed")
               /\ row.ok => Wrote("event", row.call)
    <3>1. row.call \in Tools /\ row \in Rows(row.call)
      BY DEF Inv, TypeOK, Rows
    <3>2. Traces(row.call)
      BY <2>1, <3>1
    <3>3. row.call = other.call => other \in Rows(row.call)
      BY DEF Rows
    <3>4. row.ok = (outcome[row.call] # "failed")
      BY <3>1, <3>2 DEF Traces
    <3>5. pc[row.call] \in {"answering", "over"}
      BY <3>1, <3>2 DEF Traces
    <3>6. row.ok => Wrote("event", row.call)
      BY <3>2, <3>4, <3>5 DEF Traces
    <3>7. row.call = other.call => row = other
      BY <3>1, <3>2, <3>3 DEF Traces
    <3>8. QED
      BY <3>4, <3>6, <3>7
  <2>4. QED
    BY <2>2, <2>3 DEF TracesPrecedeAnswer
<1>2. QED
  BY <1>1, InvInit, InvStep, PTL DEF Spec

-----------------------------------------------------------------------------
(* The stores of one document.                                                *)

(* An audit log does not have Keep rows that are younger.                     *)
Young(o) ==
  store = "audit" => Cardinality({r \in Adds : stamp[r] > stamp[o]}) < Keep

(* The calls that hold a copy of the document.                                *)
Copying == {"change", "open", "fill", "cache"}

(* A call that nobody clashed with runs alone, finds the file it fills        *)
(* emptied, and has a stamp once it has begun.                                *)
StoreOrder ==
  /\ \A o \in Ops \ clashed : o \in Running => Running = {o}
  /\ clashed = {} => \A o, q \in Running : o = q
  /\ clashed = {} => \A o \in Ops : at[o] = "fill" => broken = "empty"
  /\ \A r \in Adds : at[r] = "idle" => stamp[r] = 0
  /\ store \notin Cached => ~loaded /\ \A o \in Ops : at[o] # "cache"

FileReadable ==
  broken # "no" => crashed \/ clashed # {} \/ \E o \in Ops : at[o] \in {"fill", "cut"}

(* The row of a call that is still running is in its own copy, and then in    *)
(* the file; that of one that has succeeded is wherever a later call could    *)
(* take the document from.                                                    *)
OwnRow(o) ==
  Young(o) =>
    /\ at[o] \in {"open", "fill", "cache"} => o \in doc[o]
    /\ at[o] = "cache" => broken # "no" \/ o \in file

KeptRow(o) ==
  Due(o) =>
    /\ broken # "no" \/ o \in file
    /\ loaded => o \in cache
    /\ \A c \in Ops : at[c] \in Copying => o \in doc[c]

RowInv ==
  /\ FileReadable
  /\ \A o \in Adds \ clashed : OwnRow(o) /\ KeptRow(o)

(* The changes a call may make to its copy, together.                         *)
Change(o, rows) == at[o] = "change" /\ rows \in Documents /\ Put(o, rows)

LEMMA StoreCases ==
  ASSUME StoreTypeOK, [StoreNext]_storeVars
  PROVE  \/ \E o \in Ops : \/ Begin(o) \/ LoadCache(o) \/ LoadFile(o) \/ LoadFails(o)
                          \/ NotFound(o) \/ Open(o) \/ Fill(o) \/ FillFails(o) \/ Cache(o)
         \/ \E o \in Adds, rows \in Documents :
              /\ Change(o, rows)
              /\ \/ rows = doc[o] \cup {o}
                 \/ store = "audit" /\ rows = Newest(doc[o] \cup {o})
         \/ \E o \in Drops, rows \in Documents : Change(o, rows)
         \/ Crash
         \/ UNCHANGED storeVars
<1> USE DEF Change, Documents
<1>1. ASSUME NEW o \in Ops, Insert(o) \/ CreateRule(o) \/ AddHost(o) \/ Set(o)
      PROVE  \E rows \in Documents :
               /\ o \in Adds /\ Change(o, rows)
               /\ \/ rows = doc[o] \cup {o}
                  \/ store = "audit" /\ rows = Newest(doc[o] \cup {o})
  <2>1. o \in Adds /\ doc[o] \cup {o} \in Documents /\ Newest(doc[o] \cup {o}) \in Documents
    BY <1>1 DEF StoreTypeOK, Insert, CreateRule, AddHost, Set, Newest
  <2> DEFINE All == doc[o] \cup {o}
             Last == Newest(All)
  <2>2. (store = "audit" /\ Put(o, Last)) \/ Put(o, All)
    BY <1>1 DEF Insert, CreateRule, AddHost, Set, Trimmed
  <2>3. Put(o, Last) \/ Put(o, All) => at[o] = "change"
    BY DEF Put
  <2>4. o \in Adds /\ All \in SUBSET Adds /\ Last \in SUBSET Adds
    BY <2>1
  <2>5. CASE Put(o, All)
    <3>1. o \in Adds /\ Change(o, All) /\ All = doc[o] \cup {o}
      BY <2>3, <2>4, <2>5
    <3>2. QED
      BY <2>4, <3>1
  <2>6. CASE store = "audit" /\ Put(o, Last)
    <3>1. o \in Adds /\ Change(o, Last) /\ store = "audit" /\ Last = Newest(doc[o] \cup {o})
      BY <2>3, <2>4, <2>6
    <3> HIDE DEF Last, All, Change
    <3>2. QED
      BY <2>4, <3>1
  <2>7. QED
    BY <2>2, <2>5, <2>6
<1>2. ASSUME NEW o \in Ops, ClearLog(o) \/ Remove(o) \/ Delete(o) \/ Update(o)
      PROVE  \E rows \in Documents : o \in Drops /\ Change(o, rows)
  <2>1. doc[o] \in Documents /\ {} \in Documents /\ \A r : doc[o] \ {r} \in Documents
    BY DEF StoreTypeOK
  <2>2. \E rows \in Documents : o \in Drops /\ Put(o, rows)
    BY <1>2, <2>1 DEF ClearLog, Remove, Delete, Update
  <2>3. QED
    BY <2>2 DEF Put
<1>3. QED
  BY <1>1, <1>2 DEF StoreNext

(* Every variable of the stores keeps its type.                               *)
THEOREM StoreTypeCorrect == StoreSpec => []StoreTypeOK
<1>1. StoreInit => StoreTypeOK
  <2> SUFFICES ASSUME StoreInit PROVE StoreTypeOK
    OBVIOUS
  <2>1. /\ at \in [Ops -> {"idle", "load", "change", "open", "fill", "cache", "ok", "failed", "cut"}]
        /\ doc \in [Ops -> Documents] /\ stamp \in [Adds -> Nat]
    BY DEF StoreInit, Documents
  <2>2. file \in Documents /\ cache \in Documents /\ clashed \subseteq Ops
    BY DEF StoreInit, Documents
  <2>3. store \in Stores /\ broken \in {"no", "empty", "mixed"}
        /\ loaded \in BOOLEAN /\ crashed \in BOOLEAN
    BY DEF StoreInit
  <2>4. QED
    BY <2>1, <2>2, <2>3 DEF StoreTypeOK
<1>2. StoreTypeOK /\ [StoreNext]_storeVars => StoreTypeOK'
  <2> SUFFICES ASSUME StoreTypeOK, [StoreNext]_storeVars PROVE StoreTypeOK'
    OBVIOUS
  <2> USE DEF StoreTypeOK, Go, diskVars, cacheVars
  <2>1. ASSUME NEW o \in Ops, Begin(o) PROVE StoreTypeOK'
    <3>1. IsFiniteSet({r \in Adds : stamp[r] > 0})
      BY StoreAssumption, FS_Subset
    <3>2. Cardinality({r \in Adds : stamp[r] > 0}) \in Nat
      BY <3>1, FS_CardinalityType
    <3>3. stamp' \in [Adds -> Nat]
      BY <2>1, <3>2 DEF Begin
    <3>4. clashed' \subseteq Ops
      BY <2>1 DEF Begin, Running
    <3>5. QED
      BY <2>1, <3>3, <3>4 DEF Begin
  <2>2. ASSUME NEW o \in Ops, LoadCache(o) \/ LoadFile(o) \/ LoadFails(o) PROVE StoreTypeOK'
    BY <2>2 DEF LoadCache, LoadFile, LoadFails, Documents
  <2>3. ASSUME NEW o \in Ops, NotFound(o) PROVE StoreTypeOK'
    BY <2>3 DEF NotFound
  <2>4. ASSUME NEW o \in Ops, Open(o) PROVE StoreTypeOK'
    BY <2>4 DEF Open, Documents
  <2>5. ASSUME NEW o \in Ops, Fill(o) PROVE StoreTypeOK'
    BY <2>5 DEF Fill, Documents
  <2>5a. ASSUME NEW o \in Ops, FillFails(o) PROVE StoreTypeOK'
    BY <2>5a DEF FillFails, Documents
  <2>6. ASSUME NEW o \in Ops, Cache(o) PROVE StoreTypeOK'
    BY <2>6 DEF Cache, Documents
  <2>7. ASSUME NEW o \in Ops, NEW rows \in Documents, Change(o, rows) PROVE StoreTypeOK'
    BY <2>7 DEF Change, Put
  <2>8. CASE Crash
    BY <2>8 DEF Crash, Documents
  <2>9. CASE UNCHANGED storeVars
    BY <2>9 DEF storeVars
  <2>10. QED
    BY <2>1, <2>2, <2>3, <2>4, <2>5, <2>5a, <2>6, <2>7, <2>8, <2>9, StoreCases DEF Ops
<1>3. QED
  BY <1>1, <1>2, PTL DEF StoreSpec

(* What a step of call o does to where calls are.                             *)
Moves(o, from, to) == at[o] = from /\ at' = [at EXCEPT ![o] = to]

LEMMA MovesOn ==
  ASSUME StoreTypeOK, NEW o \in Ops, NEW from, from \notin {"idle", "ok", "failed", "cut"}, NEW to,
         Moves(o, from, to)
  PROVE  /\ o \in Running /\ Running' \subseteq Running
         /\ at'[o] = to /\ \A q \in Ops : q # o => at'[q] = at[q]
  BY DEF StoreTypeOK, Moves, Running

(* Rows that are younger stay younger, and a removal that began has begun.    *)
LEMMA DueOn ==
  ASSUME StoreTypeOK, StoreOrder, [StoreNext]_storeVars, NEW o \in Adds, at[o] # "idle"
  PROVE  /\ Young(o)' => Young(o)
         /\ Dropped => Dropped'
         /\ at'[o] # "idle" /\ store' = store
<1> DEFINE Y == {r \in Adds : stamp[r] > stamp[o]}
           Z == {r \in Adds : stamp'[r] > stamp'[o]}
<1>1. /\ store' = store
      /\ \A q \in Ops : at[q] # "idle" => at'[q] # "idle"
      /\ UNCHANGED stamp \/ \E q \in Ops : Begin(q)
  BY StoreCases DEF StoreTypeOK, Begin, LoadCache, LoadFile, LoadFails, NotFound, Open, Fill,
     FillFails, Cache, Change, Put, Crash, Go, storeVars
<1>2. Y \subseteq Z
  <2>1. CASE UNCHANGED stamp
    BY <2>1
  <2>2. ASSUME NEW q \in Ops, Begin(q) PROVE Y \subseteq Z
    <3>1. CASE q \in Adds
      <4>1. /\ stamp[q] = 0 /\ q # o
            /\ stamp' = [stamp EXCEPT ![q] = Cardinality({r \in Adds : stamp[r] > 0}) + 1]
        BY <2>2, <3>1 DEF Begin, StoreOrder
      <4>2. \A r \in Adds : r = q \/ stamp'[r] = stamp[r]
        BY <4>1 DEF StoreTypeOK
      <4>3. QED
        BY <4>1, <4>2 DEF StoreTypeOK
    <3>2. CASE q \notin Adds
      BY <2>2, <3>2 DEF Begin
    <3>3. QED
      BY <3>1, <3>2
  <2>3. QED
    BY <1>1, <2>1, <2>2
<1>3. IsFiniteSet(Z) /\ IsFiniteSet(Y)
  BY StoreAssumption, FS_Subset
<1>4. Cardinality(Y) <= Cardinality(Z) /\ Cardinality(Y) \in Nat /\ Cardinality(Z) \in Nat
  BY <1>2, <1>3, FS_Subset, FS_CardinalityType
<1>5. Cardinality(Z) < Keep => Cardinality(Y) < Keep
  BY <1>4, StoreAssumption
<1> HIDE DEF Y, Z
<1>6. Young(o)' => Young(o)
  BY <1>1, <1>5 DEF Young, Y, Z
<1>7. QED
  BY <1>1, <1>6 DEF Dropped, Ops

LEMMA StoreOrderInvariant == StoreSpec => []StoreOrder
<1>1. StoreInit => StoreOrder
  BY DEF StoreInit, StoreOrder, Running, Ops
<1>2. StoreTypeOK /\ StoreOrder /\ [StoreNext]_storeVars => StoreOrder'
  <2> SUFFICES ASSUME StoreTypeOK, StoreOrder, [StoreNext]_storeVars PROVE StoreOrder'
    OBVIOUS
  <2>0. /\ \A o \in Ops \ clashed : o \in Running => Running = {o}
        /\ clashed = {} => \A o, q \in Running : o = q
        /\ clashed = {} => \A o \in Ops : at[o] = "fill" => broken = "empty"
        /\ \A r \in Adds : at[r] = "idle" => stamp[r] = 0
        /\ store \notin Cached => ~loaded /\ \A o \in Ops : at[o] # "cache"
    BY DEF StoreOrder
  <2>1. ASSUME NEW o \in Ops, NEW from \in {"load", "change", "open", "fill", "cache"},
               NEW to \in {"change", "open", "fill", "cache", "ok", "failed", "cut"},
               Moves(o, from, to), UNCHANGED <<store, stamp, clashed>>,
               to = "fill" => broken' = "empty",
               \A q \in Ops : q # o /\ at[q] = "fill" /\ broken = "empty" /\ clashed = {}
                 => broken' = "empty",
               loaded' => loaded \/ store \in Cached,
               to = "cache" => store \in Cached
        PROVE  StoreOrder'
    <3>1. /\ o \in Running /\ Running' \subseteq Running
          /\ at'[o] = to /\ \A q \in Ops : q # o => at'[q] = at[q]
      BY <2>1, MovesOn
    <3>2. \A q \in Ops \ clashed' : q \in Running' => Running' = {q}
      BY <2>0, <2>1, <3>1
    <3>3. clashed' = {} => \A p, q \in Running' : p = q
      BY <2>0, <2>1, <3>1
    <3>4. clashed' = {} => \A q \in Ops : at'[q] = "fill" => broken' = "empty"
      BY <2>0, <2>1, <3>1
    <3>5. \A r \in Adds : at'[r] = "idle" => stamp'[r] = 0
      BY <2>0, <2>1, <3>1 DEF Ops
    <3>6. store' \notin Cached => ~loaded' /\ \A q \in Ops : at'[q] # "cache"
      BY <2>0, <2>1, <3>1
    <3>7. QED
      BY <3>2, <3>3, <3>4, <3>5, <3>6 DEF StoreOrder
  <2>2. ASSUME NEW o \in Ops, Begin(o) PROVE StoreOrder'
    <3>1. /\ at[o] = "idle" /\ at' = [at EXCEPT ![o] = "load"]
          /\ clashed' = IF Running = {} THEN clashed ELSE clashed \cup Running \cup {o}
          /\ UNCHANGED <<store, broken, loaded>>
      BY <2>2 DEF Begin, Go, diskVars, cacheVars
    <3>2. \A r \in Adds : r # o => stamp'[r] = stamp[r]
      BY <2>2 DEF Begin, StoreTypeOK
    <3>3. /\ Running' = Running \cup {o} /\ at'[o] = "load"
          /\ \A q \in Ops : q # o => at'[q] = at[q]
      BY <3>1 DEF StoreTypeOK, Running
    <3>4. \A q \in Ops \ clashed' : q \in Running' => Running' = {q}
      BY <2>0, <3>1, <3>3
    <3>5. clashed' = {} => \A p, q \in Running' : p = q
      BY <3>1, <3>3
    <3>6. clashed' = {} => \A q \in Ops : at'[q] = "fill" => broken' = "empty"
      BY <2>0, <3>1, <3>3
    <3>7. \A r \in Adds : at'[r] = "idle" => stamp'[r] = 0
      BY <2>0, <3>2, <3>3 DEF Ops
    <3>8. QED
      BY <2>0, <3>1, <3>3, <3>4, <3>5, <3>6, <3>7 DEF StoreOrder
  <2>3. ASSUME NEW o \in Ops, LoadCache(o) \/ LoadFile(o) \/ LoadFails(o) PROVE StoreOrder'
    <3>1. /\ \E to \in {"change", "failed"} : Moves(o, "load", to)
          /\ UNCHANGED <<store, stamp, clashed, broken>>
          /\ loaded' => loaded \/ store \in Cached
      BY <2>3 DEF LoadCache, LoadFile, LoadFails, Moves, Go, diskVars, cacheVars
    <3>2. QED
      BY <2>1, <3>1
  <2>4. ASSUME NEW o \in Ops, NotFound(o) \/ \E rows \in Documents : Change(o, rows)
        PROVE  StoreOrder'
    <3>1. /\ \E to \in {"open", "failed"} : Moves(o, "change", to)
          /\ UNCHANGED <<store, stamp, clashed, broken, loaded>>
      BY <2>4 DEF NotFound, Change, Put, Moves, Go, diskVars, cacheVars
    <3>2. QED
      BY <2>1, <3>1
  <2>5. ASSUME NEW o \in Ops, Open(o) PROVE StoreOrder'
    <3>1. /\ \/ Moves(o, "open", "fill") /\ broken' = "empty"
             \/ Moves(o, "open", "failed") /\ broken' = broken
          /\ UNCHANGED <<store, stamp, clashed, loaded>>
      BY <2>5 DEF Open, Moves, Go, diskVars, cacheVars
    <3>2. QED
      BY <2>1, <3>1
  <2>6. ASSUME NEW o \in Ops, Fill(o) PROVE StoreOrder'
    <3>1. /\ Moves(o, "fill", IF store \in Cached THEN "cache" ELSE "ok")
          /\ UNCHANGED <<store, stamp, clashed, loaded>>
      BY <2>6 DEF Fill, Moves, Go, cacheVars
    <3>2. \A q \in Ops : q # o /\ at[q] = "fill" => clashed # {}
      <4>1. o \in Running
        BY <3>1 DEF Moves, Running
      <4>2. QED
        BY <2>0, <4>1 DEF Running
    <3>3. CASE store \in Cached
      BY <2>1, <3>1, <3>2, <3>3
    <3>4. CASE store \notin Cached
      BY <2>1, <3>1, <3>2, <3>4
    <3>5. QED
      BY <3>3, <3>4
  <2>6a. ASSUME NEW o \in Ops, FillFails(o) PROVE StoreOrder'
    <3>1. /\ Moves(o, "fill", "cut")
          /\ UNCHANGED <<store, stamp, clashed, loaded>>
      BY <2>6a DEF FillFails, Moves, Go, cacheVars
    <3>2. \A q \in Ops : q # o /\ at[q] = "fill" => clashed # {}
      <4>1. o \in Running
        BY <3>1 DEF Moves, Running
      <4>2. QED
        BY <2>0, <4>1 DEF Running
    <3>3. QED
      BY <2>1, <3>1, <3>2
  <2>7. ASSUME NEW o \in Ops, Cache(o) PROVE StoreOrder'
    <3>1. /\ Moves(o, "cache", "ok")
          /\ UNCHANGED <<store, stamp, clashed, broken>>
      BY <2>7 DEF Cache, Moves, Go, diskVars
    <3>2. store \in Cached
      BY <2>0, <3>1 DEF Moves
    <3>3. QED
      BY <2>1, <3>1, <3>2
  <2>8. CASE Crash
    <3>1. /\ \A o \in Ops : at'[o] \in {"idle", "ok", "failed", "cut"} /\ (at'[o] = "idle" => at[o] = "idle")
          /\ Running' = {} /\ ~loaded' /\ UNCHANGED <<store, stamp, clashed>>
      BY <2>8 DEF Crash, StoreTypeOK, Running
    <3>2. QED
      BY <2>0, <3>1 DEF StoreOrder, Ops
  <2>9. CASE UNCHANGED storeVars
    BY <2>9 DEF storeVars, StoreOrder, Running
  <2>10. QED
    BY <2>2, <2>3, <2>4, <2>5, <2>6, <2>6a, <2>7, <2>8, <2>9, StoreCases DEF Ops
<1>3. QED
  BY <1>1, <1>2, StoreTypeCorrect, PTL DEF StoreSpec

(* A row that is not outnumbered by younger ones survives the trimming.       *)
LEMMA NewestKeeps ==
  ASSUME NEW o \in Adds, NEW rows \in SUBSET Adds, store = "audit", Young(o), o \in rows
  PROVE  o \in Newest(rows)
<1> DEFINE Y == {r \in Adds : stamp[r] > stamp[o]}
           Z == {r \in rows : stamp[r] > stamp[o]}
<1>1. IsFiniteSet(Y) /\ Z \subseteq Y
  BY StoreAssumption, FS_Subset
<1>2. IsFiniteSet(Z) /\ Cardinality(Z) <= Cardinality(Y)
      /\ Cardinality(Y) \in Nat /\ Cardinality(Z) \in Nat
  BY <1>1, FS_Subset, FS_CardinalityType
<1>3. Cardinality(Y) < Keep
  BY DEF Young
<1>4. Cardinality(Z) < Keep
  BY <1>2, <1>3, StoreAssumption
<1> HIDE DEF Y
<1>5. QED
  BY <1>4 DEF Newest

LEMMA FileReadableStep ==
  ASSUME StoreTypeOK, StoreOrder, FileReadable, [StoreNext]_storeVars
  PROVE  FileReadable'
<1> SUFFICES ASSUME broken' # "no", ~crashed', clashed' = {}
             PROVE  \E q \in Ops : at'[q] \in {"fill", "cut"}
  BY DEF FileReadable
<1> USE DEF diskVars, cacheVars, Go, Moves
<1>1. clashed = {} /\ ~crashed /\ ~Crash
  <2>1. clashed \subseteq clashed' /\ (crashed => crashed')
    BY StoreCases DEF StoreTypeOK, Begin, LoadCache, LoadFile, LoadFails, NotFound, Open,
       Fill, FillFails, Cache, Change, Put, Crash, storeVars
  <2>2. QED
    BY <2>1 DEF Crash
<1>2. ASSUME NEW o \in Ops, NEW to, Moves(o, at[o], to), at[o] \notin {"fill", "cut"}, UNCHANGED broken
      PROVE  \E q \in Ops : at'[q] \in {"fill", "cut"}
  BY <1>1, <1>2 DEF FileReadable, StoreTypeOK
<1>3. ASSUME NEW o \in Ops, Open(o) PROVE \E q \in Ops : at'[q] \in {"fill", "cut"}
  <2>1. \/ Moves(o, at[o], "fill")
        \/ Moves(o, at[o], "failed") /\ at[o] \notin {"fill", "cut"} /\ broken' = broken
    BY <1>3 DEF Open
  <2>2. QED
    BY <1>2, <2>1 DEF StoreTypeOK
<1>4. ASSUME NEW o \in Ops, Fill(o) PROVE FALSE
  BY <1>1, <1>4 DEF Fill, StoreOrder
<1>4a. ASSUME NEW o \in Ops, FillFails(o) PROVE \E q \in Ops : at'[q] \in {"fill", "cut"}
  BY <1>4a DEF FillFails, StoreTypeOK
<1>5. CASE UNCHANGED storeVars
  BY <1>1, <1>5 DEF storeVars, FileReadable
<1>6. ASSUME NEW o \in Ops,
             \/ Begin(o) \/ LoadCache(o) \/ LoadFile(o) \/ LoadFails(o) \/ NotFound(o)
             \/ Cache(o) \/ \E rows \in Documents : Change(o, rows)
      PROVE  \E q \in Ops : at'[q] \in {"fill", "cut"}
  <2>1. (\E to : Moves(o, at[o], to)) /\ at[o] \notin {"fill", "cut"} /\ broken' = broken
    BY <1>6 DEF Begin, LoadCache, LoadFile, LoadFails, NotFound, Cache, Change, Put
  <2>2. QED
    BY <1>2, <2>1
<1>7. QED
  BY <1>1, <1>3, <1>4, <1>4a, <1>5, <1>6, StoreCases DEF Ops

(* While a call that nobody clashes with runs, only it takes steps.           *)
LEMMA Alone ==
  ASSUME StoreTypeOK, StoreOrder, NEW o \in Ops, o \notin clashed', o \in Running,
         clashed \subseteq clashed', NEW q \in Ops, q # o
  PROVE  q \notin Running /\ ~Begin(q)
<1>1. Running = {o}
  BY DEF StoreOrder
<1>2. q \notin Running
  BY <1>1
<1>3. Begin(q) => o \in clashed'
  BY <1>1 DEF Begin
<1>4. QED
  BY <1>2, <1>3

LEMMA ClashedGrows ==
  ASSUME StoreTypeOK, [StoreNext]_storeVars PROVE clashed \subseteq clashed'
BY StoreCases DEF Begin, LoadCache, LoadFile, LoadFails, NotFound, Open, Fill, FillFails, Cache,
   Change, Put, Crash, storeVars

LEMMA OwnRowStep ==
  ASSUME StoreTypeOK, StoreOrder, [StoreNext]_storeVars, NEW o \in Adds \ clashed', OwnRow(o)
  PROVE  OwnRow(o)'
<1> SUFFICES ASSUME Young(o)', at'[o] \in {"open", "fill", "cache"}
             PROVE  o \in doc'[o] /\ (at'[o] = "cache" => broken' # "no" \/ o \in file')
  BY DEF OwnRow
<1> USE DEF Go, diskVars, cacheVars
<1>0. o \in Ops /\ o \notin Drops
  BY StoreAssumption DEF Ops
<1>1. clashed \subseteq clashed'
  BY ClashedGrows
<1>2. ~Crash
  BY <1>0 DEF Crash, Running
<1>3. CASE UNCHANGED storeVars
  BY <1>3 DEF storeVars, OwnRow, Young
<1>4. ASSUME NEW q \in Ops, q # o,
             \/ Begin(q) \/ LoadCache(q) \/ LoadFile(q) \/ LoadFails(q) \/ NotFound(q)
             \/ Open(q) \/ Fill(q) \/ FillFails(q) \/ Cache(q)
             \/ \E rows \in Documents : Change(q, rows)
      PROVE  FALSE
  <2>0. /\ \E to : at' = [at EXCEPT ![q] = to]
        /\ at[q] \in {"load", "change", "open", "fill", "cache"} \/ Begin(q)
    BY <1>4 DEF Begin, LoadCache, LoadFile, LoadFails, NotFound, Open, Fill, FillFails, Cache,
                Change, Put
  <2>1. at'[o] = at[o] /\ (q \in Running \/ Begin(q))
    BY <1>0, <1>4, <2>0 DEF StoreTypeOK, Running
  <2>2. o \in Running
    BY <1>0, <2>1 DEF Running
  <2>3. QED
    BY <1>0, <1>1, <1>4, <2>1, <2>2, Alone
<1>5. ASSUME at[o] # "idle" PROVE Young(o)
  BY <1>5, DueOn
<1>6. ASSUME \/ Begin(o) \/ LoadCache(o) \/ LoadFile(o) \/ LoadFails(o) \/ NotFound(o)
             \/ FillFails(o) \/ Cache(o)
      PROVE FALSE
  BY <1>0, <1>6 DEF StoreTypeOK, Begin, LoadCache, LoadFile, LoadFails, NotFound, FillFails, Cache
<1>7. CASE Open(o)
  <2>1. at[o] = "open" /\ doc' = doc /\ at'[o] # "cache"
    BY <1>0, <1>7 DEF Open, StoreTypeOK
  <2>2. QED
    BY <1>5, <2>1 DEF OwnRow
<1>8. CASE Fill(o)
  <2>1. at[o] = "fill" /\ doc' = doc /\ (file' = doc[o] \/ broken' = "mixed")
    BY <1>8 DEF Fill
  <2>2. QED
    BY <1>5, <2>1 DEF OwnRow
<1>9. ASSUME NEW rows \in Documents, Change(o, rows),
             rows = doc[o] \cup {o} \/ (store = "audit" /\ rows = Newest(doc[o] \cup {o}))
      PROVE  o \in doc'[o] /\ at'[o] = "open"
  <2>1. at[o] = "change" /\ doc' = [doc EXCEPT ![o] = rows] /\ at' = [at EXCEPT ![o] = "open"]
    BY <1>9 DEF Change, Put
  <2>2. doc'[o] = rows /\ at'[o] = "open" /\ doc[o] \cup {o} \in SUBSET Adds
    BY <1>0, <2>1 DEF StoreTypeOK, Documents
  <2>3. Young(o)
    BY <1>5, <2>1
  <2>4. o \in rows
    BY <1>9, <2>2, <2>3, NewestKeeps
  <2>5. QED
    BY <2>2, <2>4
<1>10. QED
  BY <1>0, <1>2, <1>3, <1>4, <1>6, <1>7, <1>8, <1>9, StoreCases DEF Ops

(* What a step of call q does, as far as the row of a call that has succeeded *)
(* is concerned: it comes from where the row is and goes where it will be.    *)
LEMMA KeptRowOn ==
  ASSUME StoreTypeOK, StoreOrder, [StoreNext]_storeVars, NEW o \in Adds, at[o] = "ok",
         ~Dropped', Young(o), KeptRow(o)
  PROVE  /\ broken' # "no" \/ o \in file'
         /\ loaded' => o \in cache'
         /\ \A c \in Ops : at'[c] \in Copying => o \in doc'[c]
<1> USE DEF Go, diskVars, cacheVars, Copying
<1>1. /\ broken # "no" \/ o \in file
      /\ loaded => o \in cache
      /\ \A c \in Ops : at[c] \in Copying => o \in doc[c]
  <2>1. ~Dropped
    BY DueOn
  <2>2. QED
    BY <2>1 DEF KeptRow, Due, Young
<1>2. ASSUME NEW q \in Ops, Begin(q) \/ LoadFails(q) \/ NotFound(q)
      PROVE  /\ UNCHANGED <<file, broken, cache, loaded, doc>>
             /\ \A c \in Ops : at'[c] \in Copying => at[c] \in Copying
  BY <1>2 DEF Begin, LoadFails, NotFound, StoreTypeOK
<1>3. ASSUME NEW q \in Ops, LoadCache(q) \/ LoadFile(q)
      PROVE  /\ UNCHANGED <<file, broken>>
             /\ loaded' => o \in cache'
             /\ \A c \in Ops : at'[c] \in Copying => o \in doc'[c]
  <2>1. CASE LoadCache(q)
    <3>1. /\ UNCHANGED <<file, broken, cache, loaded>> /\ loaded
          /\ doc' = [doc EXCEPT ![q] = cache] /\ at' = [at EXCEPT ![q] = "change"]
      BY <2>1 DEF LoadCache
    <3>2. QED
      BY <1>1, <3>1 DEF StoreTypeOK
  <2>2. CASE LoadFile(q)
    <3>1. /\ UNCHANGED <<file, broken>> /\ broken = "no" /\ ~loaded
          /\ (cache' = file /\ loaded') \/ UNCHANGED <<cache, loaded>>
          /\ doc' = [doc EXCEPT ![q] = file] /\ at' = [at EXCEPT ![q] = "change"]
      BY <2>2 DEF LoadFile
    <3>2. QED
      BY <1>1, <3>1 DEF StoreTypeOK
  <2>3. QED
    BY <1>3, <2>1, <2>2
<1>4. ASSUME NEW q \in Ops, NEW rows \in Documents, Change(q, rows), q \in Drops \/ o \in rows
      PROVE  /\ UNCHANGED <<file, broken, cache, loaded>>
             /\ \A c \in Ops : at'[c] \in Copying => o \in doc'[c]
  <2>1. /\ UNCHANGED <<file, broken, cache, loaded>> /\ at[q] = "change"
        /\ doc' = [doc EXCEPT ![q] = rows] /\ at' = [at EXCEPT ![q] = "open"]
    BY <1>4 DEF Change, Put
  <2>2. q \notin Drops
    BY <2>1 DEF Dropped, StoreTypeOK
  <2>3. QED
    BY <1>1, <1>4, <2>1, <2>2 DEF StoreTypeOK
<1>5. ASSUME NEW q \in Adds, NEW rows \in Documents, Change(q, rows),
             rows = doc[q] \cup {q} \/ (store = "audit" /\ rows = Newest(doc[q] \cup {q}))
      PROVE  q \in Ops /\ o \in rows
  <2>1. at[q] = "change" /\ q \in Ops
    BY <1>5 DEF Change, Ops
  <2>2. o \in doc[q] \cup {q} /\ doc[q] \cup {q} \in SUBSET Adds
    BY <1>1, <2>1 DEF StoreTypeOK, Documents
  <2>3. QED
    BY <1>5, <2>1, <2>2, NewestKeeps
<1>6. ASSUME NEW q \in Ops, Open(q)
      PROVE  /\ broken' # "no" \/ o \in file'
             /\ UNCHANGED <<cache, loaded, doc>>
             /\ \A c \in Ops : at'[c] \in Copying => at[c] \in Copying
  <2>1. at[q] = "open"
    BY <1>6 DEF Open
  <2>2. CASE Go(q, "fill") /\ broken' = "empty"
    BY <1>6, <2>1, <2>2 DEF Open, StoreTypeOK
  <2>3. CASE Go(q, "failed") /\ UNCHANGED diskVars
    BY <1>1, <1>6, <2>1, <2>3 DEF Open, StoreTypeOK
  <2>4. QED
    BY <1>6, <2>2, <2>3 DEF Open
<1>7. ASSUME NEW q \in Ops, Fill(q)
      PROVE  /\ broken' # "no" \/ o \in file'
             /\ UNCHANGED <<cache, loaded, doc>>
             /\ \A c \in Ops : at'[c] \in Copying => at[c] \in Copying
  <2>1. /\ at[q] = "fill" /\ UNCHANGED <<cache, loaded, doc>>
        /\ file' = doc[q] \/ broken' = "mixed"
        /\ \E to : at' = [at EXCEPT ![q] = to]
    BY <1>7 DEF Fill
  <2>2. QED
    BY <1>1, <2>1 DEF StoreTypeOK
<1>7a. ASSUME NEW q \in Ops, FillFails(q)
      PROVE  /\ broken' # "no" \/ o \in file'
             /\ UNCHANGED <<cache, loaded, doc>>
             /\ \A c \in Ops : at'[c] \in Copying => at[c] \in Copying
  BY <1>1, <1>7a DEF FillFails, StoreTypeOK
<1>8. ASSUME NEW q \in Ops, Cache(q)
      PROVE  /\ UNCHANGED <<file, broken, doc>> /\ o \in cache'
             /\ \A c \in Ops : at'[c] \in Copying => at[c] \in Copying
  BY <1>1, <1>8 DEF Cache, StoreTypeOK
<1>9. CASE Crash
  <2>1. UNCHANGED <<file, broken>> /\ ~loaded' /\ \A c \in Ops : at'[c] \notin Copying
    BY <1>9 DEF Crash, Running
  <2>2. QED
    BY <1>1, <2>1
<1>10. CASE UNCHANGED storeVars
  BY <1>1, <1>10 DEF storeVars
<1>11. ASSUME NEW q \in Ops,
              \/ Begin(q) \/ LoadCache(q) \/ LoadFile(q) \/ LoadFails(q) \/ NotFound(q)
              \/ Open(q) \/ Fill(q) \/ FillFails(q) \/ Cache(q)
       PROVE  /\ broken' # "no" \/ o \in file'
              /\ loaded' => o \in cache'
              /\ \A c \in Ops : at'[c] \in Copying => o \in doc'[c]
  BY <1>1, <1>2, <1>3, <1>6, <1>7, <1>7a, <1>8, <1>11
<1>12. ASSUME NEW q \in Ops, NEW rows \in Documents, Change(q, rows), q \in Drops \/ o \in rows
       PROVE  /\ broken' # "no" \/ o \in file'
              /\ loaded' => o \in cache'
              /\ \A c \in Ops : at'[c] \in Copying => o \in doc'[c]
  BY <1>1, <1>4, <1>12
<1>13. Drops \subseteq Ops
  BY DEF Ops
<1>14. QED
  BY <1>5, <1>9, <1>10, <1>11, <1>12, <1>13, StoreCases

(* The step with which a call that ran alone succeeds.                        *)
LEMMA KeptRowBegins ==
  ASSUME StoreTypeOK, StoreOrder, [StoreNext]_storeVars, NEW o \in Adds \ clashed',
         at[o] # "ok", at'[o] = "ok", Young(o), OwnRow(o)
  PROVE  /\ broken' # "no" \/ o \in file'
         /\ loaded' => o \in cache'
         /\ \A c \in Ops : at'[c] \in Copying => o \in doc'[c]
<1> USE DEF Go, diskVars, cacheVars
<1>1. o \in Ops /\ o \notin clashed
  BY ClashedGrows DEF Ops
<1>2. Cache(o) \/ Fill(o)
  BY <1>1, StoreCases DEF StoreTypeOK, Begin, LoadCache, LoadFile, LoadFails, NotFound, Open,
     Fill, FillFails, Cache, Change, Put, Crash, Running, storeVars, Ops
<1>3. o \in Running
  BY <1>1, <1>2 DEF Cache, Fill, Running
<1>4. /\ \E to : at' = [at EXCEPT ![o] = to]
      /\ Running = {o}
  BY <1>1, <1>2, <1>3 DEF Cache, Fill, StoreOrder
<1>5. \A c \in Ops : at'[c] \notin Copying
  BY <1>4 DEF StoreTypeOK, Running, Copying
<1>6. o \in doc[o] /\ (at[o] = "cache" => broken # "no" \/ o \in file)
  BY <1>2 DEF OwnRow, Cache, Fill
<1>7. CASE Cache(o)
  BY <1>5, <1>6, <1>7 DEF Cache
<1>8. CASE Fill(o)
  <2>1. store \notin Cached
    BY <1>1, <1>8 DEF Fill, StoreTypeOK
  <2>2. ~loaded' /\ (file' = doc[o] \/ broken' = "mixed")
    BY <1>8, <2>1 DEF Fill, StoreOrder
  <2>3. QED
    BY <1>5, <1>6, <2>2
<1>9. QED
  BY <1>2, <1>7, <1>8

LEMMA KeptRowStep ==
  ASSUME StoreTypeOK, StoreOrder, [StoreNext]_storeVars, NEW o \in Adds \ clashed',
         OwnRow(o), KeptRow(o)
  PROVE  KeptRow(o)'
<1> SUFFICES ASSUME at'[o] = "ok", ~Dropped', Young(o)' PROVE KeptRow(o)'
  BY DEF KeptRow, Due, Young
<1>1. at[o] # "idle"
  <2> SUFFICES ASSUME at[o] = "idle" PROVE FALSE
    OBVIOUS
  <2>1. QED
    BY StoreCases DEF StoreTypeOK, Begin, LoadCache, LoadFile, LoadFails, NotFound, Open,
       Fill, FillFails, Cache, Change, Put, Crash, Running, storeVars, Ops, Go
<1>2. Young(o)
  BY <1>1, DueOn
<1>3. /\ broken' # "no" \/ o \in file'
      /\ loaded' => o \in cache'
      /\ \A c \in Ops : at'[c] \in Copying => o \in doc'[c]
  BY <1>2, KeptRowOn, KeptRowBegins
<1>4. QED
  BY <1>3 DEF KeptRow

(* What a call has added while it ran alone stays whatever runs at once later,*)
(* unless the file itself breaks, and the file can be read unless it is being *)
(* written, a write of it failed, two calls wrote it at once or the process   *)
(* ended while it was written.                                                *)
THEOREM RowsCorrect == StoreSpec => []RowsStay
<1> USE DEF RowInv
<1>1. StoreInit => RowInv
  BY DEF StoreInit, FileReadable, OwnRow, KeptRow, Due, Ops
<1>2. StoreTypeOK /\ StoreOrder /\ RowInv /\ [StoreNext]_storeVars => RowInv'
  <2> SUFFICES ASSUME StoreTypeOK, StoreOrder, RowInv, [StoreNext]_storeVars PROVE RowInv'
    OBVIOUS
  <2>1. FileReadable'
    BY FileReadableStep
  <2>2. ASSUME NEW o \in Adds \ clashed' PROVE OwnRow(o)' /\ KeptRow(o)'
    <3>1. OwnRow(o) /\ KeptRow(o)
      BY ClashedGrows
    <3>2. QED
      BY <3>1, OwnRowStep, KeptRowStep
  <2>3. QED
    BY <2>1, <2>2
<1>3. RowInv => RowsStay
  BY DEF FileReadable, KeptRow, RowsStay
<1>4. QED
  BY <1>1, <1>2, <1>3, StoreTypeCorrect, StoreOrderInvariant, PTL DEF StoreSpec

-----------------------------------------------------------------------------
(* The assets.                                                                *)

(* A file that has a name was created by a call that got that far, and no     *)
(* file has both names; a call that nobody overlapped runs alone and writes   *)
(* the file with the temporary name.  A call that only stores a secret has no *)
(* copy of the records.                                                       *)
AssetOrder ==
  /\ \A f \in {main, aside} \ {Nobody} : step[f] \in {"fill", "rename", "ok", "failed"}
  /\ aside # Nobody => aside # main
  /\ Nobody \notin torn
  /\ \A c \in Writers : step[c] \in {"fill", "rename"} => held[c] # Nobody
  /\ \A c \in Writers \ overlap : c \in Busy => Busy = {c}
  /\ \A c \in Writers \ overlap :
       step[c] \in {"fill", "rename"} => held[c] = aside
  /\ overlap = {} => \A c, d \in Busy : c = d
  /\ \A c \in Others :
       /\ step[c] \in {"idle", "keys", "emptyKeys", "fillKeys", "ok", "failed", "cut"}
       /\ copy[c] = Empty

Removing(i) == \E r \in Removes : about[r] = i /\ step[r] # "idle"

(* A secret that can be found, or whose loss is explained.                    *)
Safe(i) == i \in keys \/ Keys \in torn \/ Removing(i)

(* Without overlap: a file is torn only while it is filled, the secrets a     *)
(* call is about to write include those that records need, and so do those    *)
(* in the file for the records it is about to write.                          *)
Prepared(c) ==
  /\ step[c] = "keys" => \A i \in copy[c].keyed : Safe(i) \/ (c \in Upserts /\ i = about[c])
  /\ step[c] \in {"emptyKeys", "fillKeys"} =>
       \A i \in copy[c].keyed \cup body[main].keyed : i \in kept[c] \/ Removing(i)
  /\ step[c] = "fillKeys" => Keys \in torn
  /\ step[c] \in {"open", "fill", "rename"} => \A i \in copy[c].keyed : Safe(i)
  /\ step[c] = "fill" => held[c] \in torn
  /\ step[c] = "rename" => held[c] \notin torn /\ body[held[c]] = copy[c]

(* A call has emptied the file of secrets and not filled it.                  *)
Blame == \E c \in Writers : step[c] \in {"fillKeys", "cut"}

SecretsInv ==
  overlap = {} =>
    /\ main \notin torn
    /\ Keys \in torn => down \/ Blame
    /\ \A i \in body[main].keyed : Safe(i)
    /\ \A c \in Writers : Prepared(c)

(* The steps of a call that holds its copy of the records.                    *)
Carrying == {"keys", "emptyKeys", "fillKeys", "open", "fill", "rename"}

(* What an upsert brings is in its copy, and then in the file it renames;     *)
(* once it has succeeded, in all that can come to be the file of assets.      *)
Carries(c) ==
  /\ step[c] \in Carrying => about[c] \in copy[c].ids
  /\ step[c] = "rename" => aside \in torn \/ about[c] \in body[aside].ids
  /\ step[c] = "ok" /\ ~Removing(about[c]) =>
       /\ main \in torn \/ about[c] \in body[main].ids
       /\ aside \in torn \cup {Nobody} \/ about[c] \in body[aside].ids
       /\ \A d \in Editors : step[d] \in Carrying => about[c] \in copy[d].ids

(* What every step leaves alone, and what never goes back.                    *)
LEMMA AssetFrame ==
  ASSUME AssetTypeOK, [AssetNext]_assetVars
  PROVE  /\ about' = about /\ brings' = brings /\ overlap \subseteq overlap'
         /\ \A c \in Writers : step[c] # "idle" => step'[c] # "idle"
         /\ \A i : Removing(i) => Removing(i)'
<1> USE DEF AssetTypeOK, To, callVars
<1>1. /\ about' = about /\ brings' = brings /\ overlap \subseteq overlap'
      /\ \A c \in Writers : step[c] # "idle" => step'[c] # "idle"
  <2>1. ASSUME NEW c \in Writers,
               \/ Call(c) \/ ReadFails(c) \/ ReadRecords(c) \/ Missing(c)
               \/ ReadKeys(c) \/ EmptyKeys(c) \/ FillKeys(c) \/ FillKeysFails(c)
               \/ OpenAside(c) \/ FillAside(c) \/ FillAsideFails(c) \/ Rename(c)
        PROVE  /\ about' = about /\ brings' = brings /\ overlap \subseteq overlap'
               /\ \E to : to # "idle" /\ step' = [step EXCEPT ![c] = to]
    BY <2>1 DEF Call, ReadFails, ReadRecords, Missing, ReadKeys, EmptyKeys, FillKeys,
       FillKeysFails, OpenAside, FillAside, FillAsideFails, Rename
  <2>2. CASE Restart
    BY <2>2 DEF Restart
  <2>3. CASE UNCHANGED assetVars
    BY <2>3 DEF assetVars
  <2>4. QED
    BY <2>1, <2>2, <2>3 DEF AssetNext
<1>2. QED
  BY <1>1 DEF Removing, Writers, Editors

(* Where the calls are after a step of one of them.                           *)
LEMMA AssetMoves ==
  ASSUME AssetTypeOK, NEW c \in Writers, NEW to, To(c, to)
  PROVE  step'[c] = to /\ \A d \in Writers : d # c => step'[d] = step[d]
BY DEF AssetTypeOK, To

(* A call that nobody overlaps takes all the steps while it is busy.          *)
LEMMA AssetAlone ==
  ASSUME AssetTypeOK, AssetOrder, [AssetNext]_assetVars,
         NEW c \in Busy, c \notin overlap', NEW d \in Writers, d # c
  PROVE  d \notin Busy /\ ~Call(d)
<1>1. c \in Writers \ overlap
  BY AssetFrame DEF Busy
<1>2. Busy = {c}
  BY <1>1 DEF AssetOrder
<1>3. Call(d) => c \in overlap'
  BY <1>2 DEF Call
<1>4. QED
  BY <1>2, <1>3

(* What an upsert or a removal makes of the records.                          *)
LEMMA ChangedRecords ==
  ASSUME AssetTypeOK, NEW c \in Editors, NEW recs \in Records
  PROVE  /\ Changed(c, recs) \in Records
         /\ c \in Upserts => /\ Changed(c, recs).ids = recs.ids \cup {about[c]}
                             /\ brings[c] => Changed(c, recs).keyed = recs.keyed \cup {about[c]}
                             /\ ~brings[c] => Changed(c, recs).keyed = recs.keyed
         /\ c \notin Upserts => /\ Changed(c, recs).ids = recs.ids \ {about[c]}
                                /\ Changed(c, recs).keyed = recs.keyed \ {about[c]}
<1>1. recs.ids \in SUBSET Ids /\ recs.keyed \in SUBSET Ids /\ about[c] \in Ids
  BY DEF AssetTypeOK, Records
<1>2. CASE c \in Upserts /\ brings[c]
  <2>1. Changed(c, recs) = [ids |-> recs.ids \cup {about[c]}, keyed |-> recs.keyed \cup {about[c]}]
    BY <1>2 DEF Changed
  <2>2. QED
    BY <1>1, <1>2, <2>1 DEF Records
<1>3. CASE c \in Upserts /\ ~brings[c]
  <2>1. Changed(c, recs) = [ids |-> recs.ids \cup {about[c]}, keyed |-> recs.keyed]
    BY <1>3 DEF Changed
  <2>2. QED
    BY <1>1, <1>3, <2>1 DEF Records
<1>4. CASE c \notin Upserts
  <2>1. Changed(c, recs) = [ids |-> recs.ids \ {about[c]}, keyed |-> recs.keyed \ {about[c]}]
    BY <1>4 DEF Changed
  <2>2. QED
    BY <1>1, <1>4, <2>1 DEF Records
<1>5. QED
  BY <1>2, <1>3, <1>4

LEMMA AssetTypeStep ==
  AssetTypeOK /\ AssetOrder /\ [AssetNext]_assetVars => AssetTypeOK'
<1> SUFFICES ASSUME AssetTypeOK, AssetOrder, [AssetNext]_assetVars PROVE AssetTypeOK'
  OBVIOUS
<1> USE DEF AssetTypeOK, To, fileVars, callVars
<1>1. ASSUME NEW c \in Writers, Call(c) PROVE AssetTypeOK'
  <2>1. overlap' \subseteq Writers
    BY <1>1 DEF Call, Busy
  <2>2. QED
    BY <1>1, <2>1 DEF Call
<1>2. ASSUME NEW c \in Writers, ReadFails(c) \/ Missing(c) PROVE AssetTypeOK'
  BY <1>2 DEF ReadFails, Missing
<1>3. ASSUME NEW c \in Writers, ReadRecords(c) PROVE AssetTypeOK'
  <2>1. Changed(c, body[main]) \in Records
    <3>1. c \in Editors
      BY <1>3 DEF ReadRecords, AssetOrder, Writers
    <3>2. QED
      BY <3>1, ChangedRecords
  <2>2. step' \in [Writers -> {"idle", "read", "keys", "emptyKeys", "fillKeys",
                              "open", "fill", "rename", "ok", "failed", "cut"}]
    BY <1>3 DEF ReadRecords
  <2>3. QED
    BY <1>3, <2>1, <2>2 DEF ReadRecords
<1>4. ASSUME NEW c \in Writers, ReadKeys(c) PROVE AssetTypeOK'
  <2>1. KeysAfter(c) \in SUBSET Ids
    <3>1. CASE c \in Others
      <4>1. c \notin Upserts /\ c \notin Removes
        BY <3>1, AssetAssumption
      <4>2. QED
        BY <3>1, <4>1 DEF KeysAfter
    <3>2. CASE c \in Upserts
      <4>1. c \notin Others /\ c \notin Removes /\ about[c] \in Ids
        BY <3>2, AssetAssumption DEF Editors
      <4>2. QED
        BY <3>2, <4>1 DEF KeysAfter
    <3>3. CASE c \in Removes
      <4>1. c \notin Others /\ c \notin Upserts
        BY <3>3, AssetAssumption
      <4>2. QED
        BY <3>3, <4>1 DEF KeysAfter
    <3>4. QED
      BY <3>1, <3>2, <3>3 DEF Writers, Editors
  <2>2. kept' = kept \/ kept' = [kept EXCEPT ![c] = KeysAfter(c)]
    BY <1>4 DEF ReadKeys
  <2>3. kept' \in [Writers -> SUBSET Ids]
    BY <2>1, <2>2
  <2>4. step' \in [Writers -> {"idle", "read", "keys", "emptyKeys", "fillKeys",
                              "open", "fill", "rename", "ok", "failed", "cut"}]
    BY <1>4 DEF ReadKeys
  <2>5. QED
    BY <1>4, <2>3, <2>4 DEF ReadKeys
<1>5. ASSUME NEW c \in Writers, EmptyKeys(c) \/ FillKeysFails(c) PROVE AssetTypeOK'
  <2>1. keys' \subseteq Ids /\ torn' \subseteq Writers \cup {Keys}
    BY <1>5 DEF EmptyKeys, FillKeysFails
  <2>2. QED
    BY <1>5, <2>1 DEF EmptyKeys, FillKeysFails
<1>5a. ASSUME NEW c \in Writers, FillKeys(c) PROVE AssetTypeOK'
  <2>1. keys' \subseteq Ids /\ torn' \subseteq Writers \cup {Keys}
    BY <1>5a DEF FillKeys
  <2>2. step' = [step EXCEPT ![c] = "ok"] \/ step' = [step EXCEPT ![c] = "open"]
    BY <1>5a DEF FillKeys
  <2>3. step' \in [Writers -> {"idle", "read", "keys", "emptyKeys", "fillKeys",
                              "open", "fill", "rename", "ok", "failed", "cut"}]
    BY <2>2
  <2>4. UNCHANGED <<main, aside, body, about, brings, overlap, down, copy, kept, held>>
    BY <1>5a DEF FillKeys
  <2>5. QED
    BY <2>1, <2>3, <2>4
<1>6. ASSUME NEW c \in Writers, OpenAside(c) PROVE AssetTypeOK'
  <2>1. CASE To(c, "failed") /\ UNCHANGED <<aside, held, body, torn>>
    BY <1>6, <2>1 DEF OpenAside
  <2>2. ASSUME NEW f \in Writers,
               aside' = f, held' = [held EXCEPT ![c] = f],
               body' = [body EXCEPT ![f] = Empty], torn' = torn \cup {f}, To(c, "fill")
        PROVE  AssetTypeOK'
    <3>1. Empty \in Records
      BY DEF Empty, Records
    <3>2. UNCHANGED <<main, keys, about, brings, overlap, down, copy, kept>>
      BY <1>6 DEF OpenAside
    <3>3. body' \in [Writers \cup {Nobody} -> Records] /\ torn' \subseteq Writers \cup {Keys}
      BY <2>2, <3>1
    <3>4. QED
      BY <2>2, <3>2, <3>3
  <2>3. (IF aside = Nobody THEN c ELSE aside) \in Writers
    OBVIOUS
  <2>4. QED
    BY <1>6, <2>1, <2>2, <2>3 DEF OpenAside
<1>7. ASSUME NEW c \in Writers, FillAside(c) PROVE AssetTypeOK'
  <2>1. held[c] \in Writers
    BY <1>7 DEF FillAside, AssetOrder
  <2>2. Empty \in Records
    BY DEF Empty, Records
  <2>3. /\ \/ body' = [body EXCEPT ![held[c]] = copy[c]]
           \/ body' = [body EXCEPT ![held[c]] = Empty]
        /\ \/ torn' = torn \ {held[c]}
           \/ torn' = torn \cup {held[c]}
    BY <1>7 DEF FillAside
  <2>4. body' \in [Writers \cup {Nobody} -> Records] /\ torn' \subseteq Writers \cup {Keys}
    BY <2>1, <2>2, <2>3
  <2>5. QED
    BY <1>7, <2>4 DEF FillAside
<1>7a. ASSUME NEW c \in Writers, FillAsideFails(c) PROVE AssetTypeOK'
  <2>1. held[c] \in Writers
    BY <1>7a DEF FillAsideFails, AssetOrder
  <2>2. Empty \in Records
    BY DEF Empty, Records
  <2>3. /\ body' = body \/ body' = [body EXCEPT ![held[c]] = Empty]
        /\ torn' = torn \/ torn' = torn \cup {held[c]}
    BY <1>7a DEF FillAsideFails
  <2>4. body' \in [Writers \cup {Nobody} -> Records] /\ torn' \subseteq Writers \cup {Keys}
    BY <2>1, <2>2, <2>3
  <2>5. QED
    BY <1>7a, <2>4 DEF FillAsideFails
<1>8. ASSUME NEW c \in Writers, Rename(c) PROVE AssetTypeOK'
  BY <1>8 DEF Rename
<1>9. CASE Restart
  BY <1>9 DEF Restart
<1>10. CASE UNCHANGED assetVars
  BY <1>10 DEF assetVars
<1>11. QED
  BY <1>1, <1>2, <1>3, <1>4, <1>5, <1>5a, <1>6, <1>7, <1>7a, <1>8, <1>9, <1>10 DEF AssetNext

(* What a step of a call does to the files that have names.                   *)
LEMMA AssetNames ==
  ASSUME AssetTypeOK, AssetOrder, [AssetNext]_assetVars
  PROVE  /\ \A f \in {main', aside'} \ {Nobody} :
              step'[f] \in {"fill", "rename", "ok", "failed"}
         /\ aside' # Nobody => aside' # main'
         /\ Nobody \notin torn'
         /\ \A c \in Writers : step'[c] \in {"fill", "rename"} => held'[c] # Nobody
<1>0. /\ \A f \in {main, aside} \ {Nobody} : step[f] \in {"fill", "rename", "ok", "failed"}
      /\ aside # Nobody => aside # main
      /\ Nobody \notin torn
      /\ \A c \in Writers : step[c] \in {"fill", "rename"} => held[c] # Nobody
      /\ main \in Writers \cup {Nobody} /\ aside \in Writers \cup {Nobody}
      /\ Nobody \notin Writers /\ Nobody # Keys
  BY AssetAssumption DEF AssetOrder, AssetTypeOK, Writers, Editors, Keys
<1>1. ASSUME NEW c \in Writers, NEW to, To(c, to), main' = main, aside' = aside, held' = held,
             Nobody \notin torn',
             \/ step[c] \notin {"fill", "rename", "ok", "failed"} /\ to \notin {"fill", "rename"}
             \/ step[c] = "fill" /\ to \in {"rename", "failed"}
             \/ step[c] = "rename" /\ to = "failed"
      PROVE  /\ \A f \in {main', aside'} \ {Nobody} :
                  step'[f] \in {"fill", "rename", "ok", "failed"}
             /\ aside' # Nobody => aside' # main'
             /\ Nobody \notin torn'
             /\ \A d \in Writers : step'[d] \in {"fill", "rename"} => held'[d] # Nobody
  <2>1. step'[c] = to /\ \A d \in Writers : d # c => step'[d] = step[d]
    BY <1>1, AssetMoves
  <2>2. QED
    BY <1>0, <1>1, <2>1
<1> USE DEF fileVars, callVars
<1>2. ASSUME NEW c \in Writers,
             \/ Call(c) \/ ReadFails(c) \/ ReadRecords(c) \/ Missing(c) \/ ReadKeys(c)
             \/ EmptyKeys(c) \/ FillKeys(c) \/ FillKeysFails(c)
      PROVE  \E to : /\ To(c, to) /\ main' = main /\ aside' = aside /\ held' = held
                     /\ Nobody \notin torn'
                     /\ step[c] \notin {"fill", "rename", "ok", "failed"}
                     /\ to \notin {"fill", "rename"}
  <2>1. CASE ReadRecords(c)
    <3>1. To(c, "keys") \/ To(c, "open")
      <4>1. CASE (c \in Upserts /\ brings[c]) \/ (c \in Removes /\ about[c] \in body[main].keyed)
        BY <2>1, <4>1 DEF ReadRecords
      <4>2. CASE ~((c \in Upserts /\ brings[c]) \/ (c \in Removes /\ about[c] \in body[main].keyed))
        BY <2>1, <4>2 DEF ReadRecords
      <4>3. QED
        BY <4>1, <4>2
    <3>2. /\ main' = main /\ aside' = aside /\ held' = held /\ torn' = torn
          /\ step[c] = "read"
      BY <2>1 DEF ReadRecords
    <3>3. QED
      BY <1>0, <3>1, <3>2
  <2>2. CASE ReadKeys(c)
    <3>1. To(c, "failed") \/ To(c, "emptyKeys")
      BY <2>2 DEF ReadKeys
    <3>2. /\ main' = main /\ aside' = aside /\ held' = held /\ torn' = torn
          /\ step[c] = "keys"
      BY <2>2 DEF ReadKeys
    <3>3. QED
      BY <1>0, <3>1, <3>2
  <2>3. CASE EmptyKeys(c)
    <3>1. (To(c, "fillKeys") /\ torn' = torn \cup {Keys}) \/ (To(c, "failed") /\ torn' = torn)
      BY <2>3 DEF EmptyKeys
    <3>2. main' = main /\ aside' = aside /\ held' = held /\ step[c] = "emptyKeys"
      BY <2>3 DEF EmptyKeys
    <3>3. QED
      BY <1>0, <3>1, <3>2
  <2>4. CASE FillKeys(c)
    <3>1. To(c, "ok") \/ To(c, "open")
      BY <2>4 DEF FillKeys
    <3>2. /\ main' = main /\ aside' = aside /\ held' = held /\ Nobody \notin torn'
          /\ step[c] = "fillKeys"
      BY <1>0, <2>4 DEF FillKeys
    <3>3. QED
      BY <3>1, <3>2
  <2>4a. CASE FillKeysFails(c)
    BY <1>0, <2>4a DEF FillKeysFails
  <2>5. CASE Call(c)
    <3>1. To(c, "keys") \/ To(c, "read")
      BY <2>5 DEF Call
    <3>2. main' = main /\ aside' = aside /\ held' = held /\ torn' = torn /\ step[c] = "idle"
      BY <2>5 DEF Call
    <3>3. QED
      BY <1>0, <3>1, <3>2
  <2>5a. CASE ReadFails(c) \/ Missing(c)
    BY <1>0, <2>5a DEF ReadFails, Missing
  <2>6. QED
    BY <1>2, <2>1, <2>2, <2>3, <2>4, <2>4a, <2>5, <2>5a
<1>3. ASSUME NEW c \in Writers, OpenAside(c), To(c, "fill")
      PROVE  /\ \A f \in {main', aside'} \ {Nobody} :
                  step'[f] \in {"fill", "rename", "ok", "failed"}
             /\ aside' # Nobody => aside' # main'
             /\ Nobody \notin torn'
             /\ \A d \in Writers : step'[d] \in {"fill", "rename"} => held'[d] # Nobody
  <2>1. step[c] = "open" /\ step'[c] = "fill" /\ \A d \in Writers : d # c => step'[d] = step[d]
    BY <1>3, AssetMoves DEF OpenAside
  <2>2. PICK f \in {c, aside} : /\ f = IF aside = Nobody THEN c ELSE aside
                                /\ main' = main /\ aside' = f /\ torn' = torn \cup {f}
                                /\ held' = [held EXCEPT ![c] = f]
    BY <1>3, <2>1 DEF OpenAside, AssetTypeOK, To
  <2>3. QED
    BY <1>0, <2>1, <2>2 DEF AssetTypeOK
<1>4. ASSUME NEW c \in Writers, OpenAside(c), ~To(c, "fill")
      PROVE  /\ To(c, "failed") /\ main' = main /\ aside' = aside /\ held' = held
             /\ Nobody \notin torn' /\ step[c] = "open"
  BY <1>0, <1>4 DEF OpenAside
<1>5. ASSUME NEW c \in Writers, FillAside(c)
      PROVE  /\ To(c, "rename") /\ main' = main /\ aside' = aside /\ held' = held
             /\ Nobody \notin torn' /\ step[c] = "fill"
  BY <1>0, <1>5 DEF FillAside
<1>5a. ASSUME NEW c \in Writers, FillAsideFails(c)
      PROVE  /\ To(c, "failed") /\ main' = main /\ aside' = aside /\ held' = held
             /\ Nobody \notin torn' /\ step[c] = "fill"
  BY <1>0, <1>5a DEF FillAsideFails
<1>6. ASSUME NEW c \in Writers, Rename(c), aside # Nobody, ~To(c, "failed")
      PROVE  /\ \A f \in {main', aside'} \ {Nobody} :
                  step'[f] \in {"fill", "rename", "ok", "failed"}
             /\ aside' # Nobody => aside' # main'
             /\ Nobody \notin torn'
             /\ \A d \in Writers : step'[d] \in {"fill", "rename"} => held'[d] # Nobody
  <2>1. /\ step'[c] = "ok" /\ \A d \in Writers : d # c => step'[d] = step[d]
        /\ main' = aside /\ aside' = Nobody /\ torn' = torn /\ held' = held
    BY <1>6, AssetMoves DEF Rename
  <2>2. QED
    BY <1>0, <2>1
<1>7. ASSUME NEW c \in Writers, Rename(c), aside = Nobody \/ To(c, "failed")
      PROVE  /\ To(c, "failed") /\ main' = main /\ aside' = aside /\ held' = held
             /\ Nobody \notin torn' /\ step[c] = "rename"
  <2>1. To(c, "ok") => ~To(c, "failed")
    BY AssetMoves
  <2>2. QED
    BY <1>0, <1>7, <2>1 DEF Rename
<1>8. CASE Restart
  <2>1. /\ \A d \in Writers : step'[d] = IF d \in Busy THEN "failed" ELSE step[d]
        /\ UNCHANGED <<main, aside, torn, held>>
    BY <1>8 DEF Restart
  <2>2. QED
    BY <1>0, <2>1 DEF AssetTypeOK, Busy
<1>9. CASE UNCHANGED assetVars
  BY <1>0, <1>9 DEF assetVars
<1>10. ASSUME NEW c \in Writers,
              \/ Call(c) \/ ReadFails(c) \/ ReadRecords(c) \/ Missing(c)
              \/ ReadKeys(c) \/ EmptyKeys(c) \/ FillKeys(c) \/ FillKeysFails(c)
              \/ OpenAside(c) \/ FillAside(c) \/ FillAsideFails(c) \/ Rename(c)
       PROVE  /\ \A f \in {main', aside'} \ {Nobody} :
                   step'[f] \in {"fill", "rename", "ok", "failed"}
              /\ aside' # Nobody => aside' # main'
              /\ Nobody \notin torn'
              /\ \A d \in Writers : step'[d] \in {"fill", "rename"} => held'[d] # Nobody
  <2>1. CASE OpenAside(c) /\ To(c, "fill")
    BY <1>3, <2>1
  <2>2. CASE Rename(c) /\ aside # Nobody /\ ~To(c, "failed")
    BY <1>6, <2>2
  <2>3. CASE FillAside(c)
    BY <1>1, <1>5, <2>3
  <2>3a. CASE FillAsideFails(c)
    BY <1>1, <1>5a, <2>3a
  <2>4. CASE OpenAside(c) /\ ~To(c, "fill")
    BY <1>1, <1>4, <2>4
  <2>5. CASE Rename(c) /\ (aside = Nobody \/ To(c, "failed"))
    BY <1>1, <1>7, <2>5
  <2>6. CASE \/ Call(c) \/ ReadFails(c) \/ ReadRecords(c) \/ Missing(c) \/ ReadKeys(c)
             \/ EmptyKeys(c) \/ FillKeys(c) \/ FillKeysFails(c)
    BY <1>1, <1>2, <2>6
  <2>7. QED
    BY <1>10, <2>1, <2>2, <2>3, <2>3a, <2>4, <2>5, <2>6
<1>11. QED
  BY <1>8, <1>9, <1>10 DEF AssetNext

(* A step of a call, whatever it is: it moves on, and only Call makes a call  *)
(* busy that was not.                                                         *)
LEMMA AssetCases ==
  ASSUME AssetTypeOK, [AssetNext]_assetVars
  PROVE  \/ \E c \in Writers :
              /\ \/ Call(c) \/ ReadFails(c) \/ ReadRecords(c) \/ Missing(c)
                 \/ ReadKeys(c) \/ EmptyKeys(c) \/ FillKeys(c) \/ FillKeysFails(c)
                 \/ OpenAside(c) \/ FillAside(c) \/ FillAsideFails(c) \/ Rename(c)
              /\ Call(c) \/ c \in Busy
              /\ \A d \in Writers : d # c => step'[d] = step[d]
         \/ Restart
         \/ UNCHANGED assetVars
<1> SUFFICES ASSUME NEW c \in Writers,
                    \/ Call(c) \/ ReadFails(c) \/ ReadRecords(c) \/ Missing(c)
                    \/ ReadKeys(c) \/ EmptyKeys(c) \/ FillKeys(c) \/ FillKeysFails(c)
                    \/ OpenAside(c) \/ FillAside(c) \/ FillAsideFails(c) \/ Rename(c)
             PROVE  /\ Call(c) \/ c \in Busy
                    /\ \A d \in Writers : d # c => step'[d] = step[d]
  BY DEF AssetNext
<1>1. /\ Call(c) \/ step[c] \in {"read", "keys", "emptyKeys", "fillKeys", "open", "fill", "rename"}
      /\ \E to : step' = [step EXCEPT ![c] = to]
  BY DEF Call, ReadFails, ReadRecords, Missing, ReadKeys, EmptyKeys, FillKeys, FillKeysFails,
     OpenAside, FillAside, FillAsideFails, Rename, To
<1>2. QED
  BY <1>1 DEF AssetTypeOK, Busy

LEMMA AssetExclusion ==
  ASSUME AssetTypeOK, AssetOrder, [AssetNext]_assetVars
  PROVE  /\ \A c \in Writers \ overlap' : c \in Busy' => Busy' = {c}
         /\ overlap' = {} => \A c, d \in Busy' : c = d
<1>0. /\ \A c \in Writers \ overlap : c \in Busy => Busy = {c}
      /\ overlap = {} => \A c, d \in Busy : c = d
      /\ overlap \subseteq overlap'
  BY AssetFrame DEF AssetOrder
<1>1. ASSUME Busy' \subseteq Busy
      PROVE  /\ \A c \in Writers \ overlap' : c \in Busy' => Busy' = {c}
             /\ overlap' = {} => \A c, d \in Busy' : c = d
  BY <1>0, <1>1
<1>2. ASSUME NEW c \in Writers, Call(c)
      PROVE  /\ \A d \in Writers \ overlap' : d \in Busy' => Busy' = {d}
             /\ overlap' = {} => \A d, e \in Busy' : d = e
  <2>1. /\ overlap' = IF Busy = {} THEN overlap ELSE overlap \cup Busy \cup {c}
        /\ step' = [step EXCEPT ![c] = "keys"] \/ step' = [step EXCEPT ![c] = "read"]
    BY <1>2 DEF Call, To
  <2>2. Busy' = Busy \cup {c}
    BY <2>1 DEF AssetTypeOK, Busy
  <2>3. QED
    BY <2>1, <2>2
<1>3. ASSUME NEW c \in Busy, \A d \in Writers : d # c => step'[d] = step[d]
      PROVE  Busy' \subseteq Busy
  BY <1>3 DEF Busy
<1>4. Restart => Busy' \subseteq Busy
  BY DEF Restart, Busy
<1>5. UNCHANGED assetVars => Busy' \subseteq Busy
  BY DEF assetVars, Busy
<1>6. QED
  BY <1>1, <1>2, <1>3, <1>4, <1>5, AssetCases

LEMMA AssetHolds ==
  ASSUME AssetTypeOK, AssetOrder, [AssetNext]_assetVars, NEW c \in Writers \ overlap',
         step'[c] \in {"fill", "rename"}
  PROVE  held'[c] = aside'
<1>0. c \notin overlap
  BY AssetFrame
<1>1. ASSUME c \in Busy, NEW d \in Writers, d # c, d \in Busy \/ Call(d) PROVE FALSE
  BY <1>1, AssetAlone
<1>2. CASE c \notin Busy
  <2>1. step[c] \in {"idle", "ok", "failed", "cut"} /\ step'[c] # step[c]
    BY <1>2 DEF Busy
  <2>2. Call(c)
    BY <1>2, <2>1, AssetCases DEF Restart, assetVars
  <2>3. QED
    BY <2>2, AssetMoves DEF Call
<1>3. CASE c \in Busy /\ (Restart \/ UNCHANGED assetVars)
  BY <1>0, <1>3 DEF Restart, assetVars, AssetOrder, fileVars
<1>4. CASE \/ ReadFails(c) \/ Missing(c) \/ ReadRecords(c) \/ ReadKeys(c) \/ EmptyKeys(c)
           \/ FillKeys(c) \/ FillKeysFails(c) \/ FillAsideFails(c)
  BY <1>4 DEF AssetTypeOK, ReadFails, Missing, ReadRecords, ReadKeys, EmptyKeys, FillKeys,
     FillKeysFails, FillAsideFails, To
<1>5. CASE OpenAside(c)
  <2>1. step[c] = "open"
    BY <1>5 DEF OpenAside
  <2>2. held' = [held EXCEPT ![c] = aside']
    BY <1>5, <2>1 DEF OpenAside, AssetTypeOK, To
  <2>3. QED
    BY <2>2 DEF AssetTypeOK
<1>6. CASE FillAside(c)
  BY <1>0, <1>6 DEF FillAside, AssetOrder
<1>7. CASE Rename(c)
  BY <1>7 DEF Rename, AssetTypeOK, To
<1>8. QED
  BY <1>1, <1>2, <1>3, <1>4, <1>5, <1>6, <1>7, AssetCases DEF Call, Busy

(* A call that only stores a secret gets no copy of the records.              *)
LEMMA AssetOthers ==
  ASSUME AssetTypeOK, AssetOrder, [AssetNext]_assetVars, NEW c \in Others
  PROVE  /\ step'[c] \in {"idle", "keys", "emptyKeys", "fillKeys", "ok", "failed", "cut"}
         /\ copy'[c] = Empty
<1>0. /\ c \in Writers /\ copy[c] = Empty
      /\ step[c] \in {"idle", "keys", "emptyKeys", "fillKeys", "ok", "failed", "cut"}
  BY DEF Writers, AssetOrder
<1>1. ASSUME NEW d \in Writers,
             \/ Call(d) \/ ReadFails(d) \/ ReadRecords(d) \/ Missing(d)
             \/ ReadKeys(d) \/ EmptyKeys(d) \/ FillKeys(d) \/ FillKeysFails(d)
             \/ OpenAside(d) \/ FillAside(d) \/ FillAsideFails(d) \/ Rename(d),
             \A e \in Writers : e # d => step'[e] = step[e]
      PROVE  /\ step'[c] \in {"idle", "keys", "emptyKeys", "fillKeys", "ok", "failed", "cut"}
             /\ copy'[c] = Empty
  <2>1. CASE d = c
    <3>1. CASE Call(c)
      BY <1>0, <3>1 DEF Call, To, AssetTypeOK
    <3>2. CASE ReadKeys(c)
      BY <1>0, <3>2 DEF ReadKeys, To, AssetTypeOK, callVars
    <3>3. CASE EmptyKeys(c)
      BY <1>0, <3>3 DEF EmptyKeys, To, AssetTypeOK
    <3>4. CASE FillKeys(c) \/ FillKeysFails(c)
      BY <1>0, <3>4 DEF FillKeys, FillKeysFails, To, AssetTypeOK
    <3>5. ~(\/ ReadFails(c) \/ ReadRecords(c) \/ Missing(c)
            \/ OpenAside(c) \/ FillAside(c) \/ FillAsideFails(c) \/ Rename(c))
      BY <1>0 DEF ReadFails, ReadRecords, Missing, OpenAside, FillAside, FillAsideFails, Rename
    <3>6. QED
      BY <1>1, <2>1, <3>1, <3>2, <3>3, <3>4, <3>5
  <2>2. CASE d # c
    <3>1. copy'[c] = copy[c]
      <4>1. copy' = copy \/ \E v : copy' = [copy EXCEPT ![d] = v]
        BY <1>1 DEF Call, ReadFails, ReadRecords, Missing, ReadKeys, EmptyKeys, FillKeys,
           FillKeysFails, OpenAside, FillAside, FillAsideFails, Rename
      <4>2. QED
        BY <1>0, <2>2, <4>1 DEF AssetTypeOK
    <3>2. QED
      BY <1>0, <1>1, <2>2, <3>1
  <2>3. QED
    BY <2>1, <2>2
<1>2. CASE Restart
  BY <1>0, <1>2 DEF Restart
<1>3. CASE UNCHANGED assetVars
  BY <1>0, <1>3 DEF assetVars
<1>4. QED
  BY <1>1, <1>2, <1>3, AssetCases

LEMMA AssetShape == AssetSpec => [](AssetTypeOK /\ AssetOrder)
<1>1. AssetInit => AssetTypeOK /\ AssetOrder
  <2> SUFFICES ASSUME AssetInit PROVE AssetTypeOK /\ AssetOrder
    OBVIOUS
  <2>1. Empty \in Records
    BY DEF Empty, Records
  <2>2. Busy = {}
    BY DEF AssetInit, Busy
  <2>3. AssetTypeOK
    BY <2>1 DEF AssetInit, AssetTypeOK
  <2>4. AssetOrder
    BY <2>2 DEF AssetInit, AssetOrder, Writers
  <2>5. QED
    BY <2>3, <2>4
<1>2. AssetTypeOK /\ AssetOrder /\ [AssetNext]_assetVars => AssetTypeOK' /\ AssetOrder'
  <2> SUFFICES ASSUME AssetTypeOK, AssetOrder, [AssetNext]_assetVars
               PROVE  AssetTypeOK' /\ AssetOrder'
    OBVIOUS
  <2>1. AssetTypeOK'
    BY AssetTypeStep
  <2>2. AssetOrder'
    BY AssetNames, AssetExclusion, AssetHolds, AssetOthers DEF AssetOrder
  <2>3. QED
    BY <2>1, <2>2
<1>3. QED
  BY <1>1, <1>2, PTL DEF AssetSpec

(* Every variable of the asset store keeps its type; the file a call fills is *)
(* one that it, or a call before it, has created.                             *)
THEOREM AssetTypeCorrect == AssetSpec => []AssetTypeOK
BY AssetShape, PTL

(* The invariant of the secrets is kept by every step.                        *)
LEMMA SecretsStep ==
  AssetTypeOK /\ AssetOrder /\ SecretsInv /\ [AssetNext]_assetVars => SecretsInv'
<1> SUFFICES ASSUME AssetTypeOK, AssetOrder, SecretsInv, [AssetNext]_assetVars, overlap' = {}
             PROVE  /\ main' \notin torn'
                    /\ Keys \in torn' => down' \/ Blame'
                    /\ \A i \in body'[main'].keyed : Safe(i)'
                    /\ \A c \in Writers : Prepared(c)'
  BY DEF SecretsInv
<1>0. /\ overlap = {} /\ about' = about
      /\ \A i : Removing(i) => Removing(i)'
      /\ main \notin torn
      /\ Keys \in torn => down \/ Blame
      /\ \A i \in body[main].keyed : Safe(i)
      /\ \A c \in Writers : Prepared(c)
  BY AssetFrame DEF SecretsInv
<1>f. /\ Keys \notin Writers \cup {Nobody} /\ Nobody \notin Writers
      /\ main \in Writers \cup {Nobody} /\ aside \in Writers \cup {Nobody}
      /\ \A c \in Writers : held[c] \in Writers \cup {Nobody}
  BY AssetAssumption DEF Keys, Writers, Editors, AssetTypeOK
<1>1. ASSUME UNCHANGED <<main, body, keys, torn>>,
             Blame => down' \/ Blame',
             down => down',
             \A c \in Writers : Prepared(c)'
      PROVE  /\ main' \notin torn'
             /\ Keys \in torn' => down' \/ Blame'
             /\ \A i \in body'[main'].keyed : Safe(i)'
             /\ \A c \in Writers : Prepared(c)'
  BY <1>0, <1>1 DEF Safe
<1>2. \A c \in Writers : step'[c] \in {"idle", "read", "ok", "failed", "cut"} => Prepared(c)'
  BY DEF Prepared
<1>3. ASSUME NEW c \in Writers, Call(c) \/ c \in Busy,
             \A d \in Writers : d # c => step'[d] = step[d]
      PROVE  /\ \A d \in Writers : d # c => Prepared(d)'
             /\ step[c] # "fillKeys" => (Blame => Blame')
  <2>1. \A d \in Writers : d # c => d \notin Busy
    <3>1. CASE c \in Busy
      BY <1>0, <3>1 DEF AssetOrder
    <3>2. CASE Call(c)
      BY <3>2 DEF Call
    <3>3. QED
      BY <1>3, <3>1, <3>2
  <2>2. \A d \in Writers : d # c => step[d] \in {"idle", "ok", "failed", "cut"}
    BY <2>1 DEF Busy
  <2>3. step[c] # "cut"
    BY <1>3 DEF Call, Busy
  <2>4. step[c] # "fillKeys" => (Blame => Blame')
    BY <1>3, <2>3 DEF Blame
  <2>5. QED
    BY <1>2, <1>3, <2>2, <2>4
<1>4. ASSUME NEW c \in Writers, Call(c) \/ c \in Busy,
             \A d \in Writers : d # c => step'[d] = step[d],
             UNCHANGED <<main, body, keys, torn, down>>,
             step[c] # "fillKeys", Prepared(c)'
      PROVE  /\ main' \notin torn'
             /\ Keys \in torn' => down' \/ Blame'
             /\ \A i \in body'[main'].keyed : Safe(i)'
             /\ \A d \in Writers : Prepared(d)'
  BY <1>1, <1>3, <1>4
<1> USE DEF fileVars, callVars
<1>5. ASSUME NEW c \in Writers, Call(c) \/ ReadFails(c) \/ Missing(c)
      PROVE  /\ UNCHANGED <<main, body, keys, torn, down>>
             /\ step[c] # "fillKeys" /\ Prepared(c)'
  <2>1. CASE Call(c) /\ c \in Others
    <3>1. /\ step'[c] = "keys" /\ step[c] = "idle" /\ copy'[c] = Empty
          /\ UNCHANGED <<main, body, keys, torn, down>>
      BY <2>1 DEF Call, AssetTypeOK, AssetOrder, To
    <3>2. QED
      BY <3>1 DEF Prepared, Empty
  <2>2. CASE ~(Call(c) /\ c \in Others)
    <3>1. step'[c] \in {"read", "failed"} /\ step[c] # "fillKeys"
          /\ UNCHANGED <<main, body, keys, torn, down>>
      BY <1>5, <2>2 DEF Call, ReadFails, Missing, AssetTypeOK, To
    <3>2. QED
      BY <1>2, <3>1
  <2>3. QED
    BY <2>1, <2>2
<1>6. ASSUME NEW c \in Writers, ReadRecords(c)
      PROVE  /\ UNCHANGED <<main, body, keys, torn, down>>
             /\ step[c] # "fillKeys" /\ Prepared(c)'
  <2> DEFINE recs == body[main]
  <2>1. /\ UNCHANGED <<main, body, keys, torn, down>> /\ step[c] = "read"
        /\ copy'[c] = Changed(c, recs)
        /\ c \in Upserts /\ brings[c] => step'[c] = "keys"
        /\ step'[c] \in {"keys", "open"}
    BY <1>6 DEF ReadRecords, AssetTypeOK, To
  <2>2. recs \in Records
    BY DEF AssetTypeOK
  <2>3. \A i \in recs.keyed : Safe(i)'
    BY <1>0, <2>1 DEF Safe
  <2>4. /\ c \in Upserts /\ brings[c] => copy'[c].keyed = recs.keyed \cup {about[c]}
        /\ c \in Upserts /\ ~brings[c] => copy'[c].keyed = recs.keyed
        /\ c \notin Upserts => copy'[c].keyed = recs.keyed \ {about[c]}
    <3>1. c \in Editors
      BY <2>1 DEF AssetOrder, Writers
    <3>2. QED
      BY <2>1, <2>2, <3>1, ChangedRecords
  <2> HIDE DEF recs
  <2>5. step'[c] = "keys" =>
          \A i \in copy'[c].keyed : Safe(i)' \/ (c \in Upserts /\ i = about'[c])
    BY <1>0, <2>3, <2>4
  <2>6. step'[c] = "open" => \A i \in copy'[c].keyed : Safe(i)'
    BY <2>1, <2>3, <2>4
  <2>7. QED
    BY <2>1, <2>5, <2>6 DEF Prepared
<1>7. ASSUME NEW c \in Writers, ReadKeys(c)
      PROVE  /\ UNCHANGED <<main, body, keys, torn, down>>
             /\ step[c] # "fillKeys" /\ Prepared(c)'
  <2>1. /\ UNCHANGED <<main, body, keys, torn, down, copy>> /\ step[c] = "keys"
    BY <1>7 DEF ReadKeys
  <2>2. CASE Keys \in torn
    BY <1>2, <1>7, <2>1, <2>2 DEF ReadKeys, To, AssetTypeOK
  <2>3. CASE Keys \notin torn
    <3>1. /\ step'[c] = "emptyKeys"
          /\ kept'[c] = KeysAfter(c)
      BY <1>7, <2>3 DEF ReadKeys, To, AssetTypeOK
    <3>1a. /\ c \in Upserts => kept'[c] = keys \cup {about[c]}
           /\ c \in Removes => kept'[c] = keys \ {about[c]}
           /\ c \in Others => kept'[c] = keys
           /\ c \in Upserts \/ c \in Removes \/ c \in Others
      <4>1. CASE c \in Upserts
        <5>1. c \notin Others /\ c \notin Removes
          BY <4>1, AssetAssumption
        <5>2. QED
          BY <3>1, <4>1, <5>1 DEF KeysAfter
      <4>2. CASE c \in Removes
        <5>1. c \notin Others /\ c \notin Upserts
          BY <4>2, AssetAssumption
        <5>2. QED
          BY <3>1, <4>2, <5>1 DEF KeysAfter
      <4>3. CASE c \in Others
        <5>1. c \notin Removes /\ c \notin Upserts
          BY <4>3, AssetAssumption
        <5>2. QED
          BY <3>1, <4>3, <5>1 DEF KeysAfter
      <4>4. QED
        BY <4>1, <4>2, <4>3 DEF Writers, Editors
    <3>2. \A i \in copy[c].keyed \cup body[main].keyed :
            i \in keys \/ Removing(i) \/ (c \in Upserts /\ i = about[c])
      BY <1>0, <2>1, <2>3 DEF Prepared, Safe
    <3>3. c \in Removes => Removing(about[c])'
      BY <1>0, <3>1 DEF Removing
    <3>4. \A i \in copy'[c].keyed \cup body'[main'].keyed : i \in kept'[c] \/ Removing(i)'
      BY <1>0, <2>1, <3>1a, <3>2, <3>3
    <3>5. QED
      BY <2>1, <3>1, <3>4 DEF Prepared
  <2>4. QED
    BY <2>2, <2>3
<1>8. ASSUME NEW c \in Writers, EmptyKeys(c), c \in Busy,
             \A d \in Writers : d # c => step'[d] = step[d]
      PROVE  /\ main' \notin torn'
             /\ Keys \in torn' => down' \/ Blame'
             /\ \A i \in body'[main'].keyed : Safe(i)'
             /\ \A d \in Writers : Prepared(d)'
  <2>1. step[c] = "emptyKeys" /\ UNCHANGED <<main, body, copy, kept, down>>
    BY <1>8 DEF EmptyKeys
  <2>2. CASE To(c, "fillKeys") /\ keys' = {} /\ torn' = torn \cup {Keys}
    <3>1. step'[c] = "fillKeys"
      BY <2>2 DEF To, AssetTypeOK
    <3>2. main' \notin torn' /\ \A i : Safe(i)'
      BY <1>0, <1>f, <2>1, <2>2 DEF Safe
    <3>3. Prepared(c)'
      BY <1>0, <2>1, <2>2, <3>1 DEF Prepared
    <3>4. Blame'
      BY <3>1 DEF Blame
    <3>5. QED
      BY <1>3, <1>8, <3>2, <3>3, <3>4
  <2>3. CASE To(c, "failed") /\ UNCHANGED <<keys, torn>>
    <3>1. Prepared(c)'
      BY <1>2, <2>3, AssetMoves
    <3>2. QED
      BY <1>4, <1>8, <2>1, <2>3, <3>1
  <2>4. QED
    BY <1>8, <2>2, <2>3 DEF EmptyKeys
<1>9. ASSUME NEW c \in Writers, FillKeys(c), c \in Busy,
             \A d \in Writers : d # c => step'[d] = step[d]
      PROVE  /\ main' \notin torn'
             /\ Keys \in torn' => down' \/ Blame'
             /\ \A i \in body'[main'].keyed : Safe(i)'
             /\ \A d \in Writers : Prepared(d)'
  <2>1. /\ step[c] = "fillKeys" /\ UNCHANGED <<main, body, copy, kept, down>>
        /\ step'[c] = "ok" \/ step'[c] = "open"
    BY <1>9 DEF FillKeys, To, AssetTypeOK
  <2>2. keys' = kept[c] /\ torn' = torn \ {Keys}
    BY <1>0, <1>9, <2>1 DEF FillKeys, Prepared
  <2>3. \A i \in copy[c].keyed \cup body[main].keyed : Safe(i)'
    BY <1>0, <2>1, <2>2 DEF Prepared, Safe
  <2>4. Prepared(c)'
    BY <2>1, <2>3 DEF Prepared
  <2>5. QED
    BY <1>0, <1>3, <1>f, <1>9, <2>1, <2>2, <2>3, <2>4
<1>9a. ASSUME NEW c \in Writers, FillKeysFails(c), c \in Busy,
             \A d \in Writers : d # c => step'[d] = step[d]
      PROVE  /\ main' \notin torn'
             /\ Keys \in torn' => down' \/ Blame'
             /\ \A i \in body'[main'].keyed : Safe(i)'
             /\ \A d \in Writers : Prepared(d)'
  <2>1. /\ step[c] = "fillKeys" /\ UNCHANGED <<main, body>>
        /\ step'[c] = "cut"
    BY <1>9a DEF FillKeysFails, To, AssetTypeOK
  <2>2. Keys \in torn /\ Keys \in torn' /\ main' \notin torn'
    BY <1>0, <1>f, <1>9a, <2>1 DEF FillKeysFails, Prepared
  <2>3. Blame' /\ Prepared(c)'
    BY <1>2, <2>1 DEF Blame
  <2>4. QED
    BY <1>3, <1>9a, <2>2, <2>3 DEF Safe
<1>10. ASSUME NEW c \in Writers, OpenAside(c), c \in Busy,
              \A d \in Writers : d # c => step'[d] = step[d]
       PROVE  /\ main' \notin torn'
              /\ Keys \in torn' => down' \/ Blame'
              /\ \A i \in body'[main'].keyed : Safe(i)'
              /\ \A d \in Writers : Prepared(d)'
  <2>1. step[c] = "open" /\ UNCHANGED <<main, keys, copy, down>>
    BY <1>10 DEF OpenAside
  <2>2. CASE To(c, "failed") /\ UNCHANGED <<aside, held, body, torn>>
    <3>1. Prepared(c)'
      BY <1>2, <2>2, AssetMoves
    <3>2. QED
      BY <1>4, <1>10, <2>1, <2>2, <3>1
  <2>3. CASE ~(To(c, "failed") /\ UNCHANGED <<aside, held, body, torn>>)
    <3>1. PICK f \in Writers : /\ f = IF aside = Nobody THEN c ELSE aside
                               /\ held' = [held EXCEPT ![c] = f]
                               /\ body' = [body EXCEPT ![f] = Empty]
                               /\ torn' = torn \cup {f}
                               /\ To(c, "fill")
      BY <1>f, <1>10, <2>3 DEF OpenAside
    <3>2. f # main /\ f # Keys
      BY <1>f, <2>1, <3>1 DEF AssetOrder
    <3>3. /\ step'[c] = "fill" /\ held'[c] = f /\ body'[main'] = body[main]
          /\ main' \notin torn' /\ (Keys \in torn' <=> Keys \in torn)
      BY <1>0, <1>f, <2>1, <3>1, <3>2 DEF AssetTypeOK, To
    <3>4. \A i : Safe(i) => Safe(i)'
      BY <1>0, <2>1, <3>3 DEF Safe
    <3>5. Prepared(c)'
      <4>1. \A i \in copy[c].keyed : Safe(i)
        BY <1>0, <2>1 DEF Prepared
      <4>2. held'[c] \in torn'
        BY <3>1, <3>3
      <4>3. QED
        BY <2>1, <3>3, <3>4, <4>1, <4>2 DEF Prepared
    <3>6. Blame => Blame'
      BY <1>3, <1>10, <2>1
    <3>7. QED
      BY <1>0, <1>3, <1>10, <2>1, <3>3, <3>4, <3>5, <3>6
  <2>4. QED
    BY <2>2, <2>3
<1>11. ASSUME NEW c \in Writers, FillAside(c), c \in Busy,
              \A d \in Writers : d # c => step'[d] = step[d]
       PROVE  /\ main' \notin torn'
              /\ Keys \in torn' => down' \/ Blame'
              /\ \A i \in body'[main'].keyed : Safe(i)'
              /\ \A d \in Writers : Prepared(d)'
  <2>1. /\ step[c] = "fill" /\ UNCHANGED <<main, keys, copy, held, down>>
        /\ step'[c] = "rename"
    BY <1>11 DEF FillAside, To, AssetTypeOK
  <2>2. /\ held[c] \in torn /\ held[c] = aside /\ held[c] # Nobody
    BY <1>0, <2>1 DEF Prepared, AssetOrder
  <2>3. body' = [body EXCEPT ![held[c]] = copy[c]] /\ torn' = torn \ {held[c]}
    BY <1>11, <2>2 DEF FillAside
  <2>4. held[c] \in Writers /\ held[c] # main /\ held[c] # Keys
    BY <1>f, <2>2 DEF AssetOrder
  <2>5. /\ body'[main'] = body[main] /\ main' \notin torn' /\ (Keys \in torn' <=> Keys \in torn)
        /\ held'[c] \notin torn' /\ body'[held'[c]] = copy'[c]
    BY <1>0, <1>f, <2>1, <2>3, <2>4 DEF AssetTypeOK
  <2>6. \A i : Safe(i) => Safe(i)'
    BY <1>0, <2>1, <2>5 DEF Safe
  <2>7. Prepared(c)'
    <3>1. \A i \in copy[c].keyed : Safe(i)
      BY <1>0, <2>1 DEF Prepared
    <3>2. QED
      BY <2>1, <2>5, <2>6, <3>1 DEF Prepared
  <2>8. Blame => Blame'
    BY <1>3, <1>11, <2>1
  <2>9. QED
    BY <1>0, <1>3, <1>11, <2>1, <2>5, <2>6, <2>7, <2>8
<1>11a. ASSUME NEW c \in Writers, FillAsideFails(c), c \in Busy,
              \A d \in Writers : d # c => step'[d] = step[d]
       PROVE  /\ main' \notin torn'
              /\ Keys \in torn' => down' \/ Blame'
              /\ \A i \in body'[main'].keyed : Safe(i)'
              /\ \A d \in Writers : Prepared(d)'
  <2>1. /\ step[c] = "fill" /\ UNCHANGED <<main, keys, down>>
        /\ step'[c] = "failed"
        /\ body' = body \/ body' = [body EXCEPT ![held[c]] = Empty]
        /\ torn' = torn \/ torn' = torn \cup {held[c]}
    BY <1>11a DEF FillAsideFails, To, AssetTypeOK
  <2>2. held[c] = aside /\ held[c] # Nobody
    BY <1>0, <2>1 DEF AssetOrder
  <2>3. held[c] \in Writers /\ held[c] # main /\ held[c] # Keys
    BY <1>f, <2>2 DEF AssetOrder
  <2>4. body'[main'] = body[main] /\ main' \notin torn' /\ (Keys \in torn' <=> Keys \in torn)
    BY <1>0, <1>f, <2>1, <2>3 DEF AssetTypeOK
  <2>5. \A i : Safe(i) => Safe(i)'
    BY <1>0, <2>1, <2>4 DEF Safe
  <2>6. (Blame => Blame') /\ Prepared(c)'
    BY <1>2, <1>3, <1>11a, <2>1
  <2>7. QED
    BY <1>0, <1>3, <1>11a, <2>1, <2>4, <2>5, <2>6
<1>12. ASSUME NEW c \in Writers, Rename(c), c \in Busy,
              \A d \in Writers : d # c => step'[d] = step[d]
       PROVE  /\ main' \notin torn'
              /\ Keys \in torn' => down' \/ Blame'
              /\ \A i \in body'[main'].keyed : Safe(i)'
              /\ \A d \in Writers : Prepared(d)'
  <2>1. step[c] = "rename" /\ UNCHANGED <<body, keys, torn, copy, down>>
    BY <1>12 DEF Rename
  <2>2. /\ held[c] = aside /\ held[c] # Nobody /\ held[c] \notin torn /\ body[held[c]] = copy[c]
        /\ \A i \in copy[c].keyed : Safe(i)
    BY <1>0, <2>1 DEF AssetOrder, Prepared
  <2>3. main' \in {held[c], main} /\ step'[c] \in {"ok", "failed"}
    BY <1>12, <2>2 DEF Rename, To, AssetTypeOK
  <2>4. \A i : Safe(i) => Safe(i)'
    BY <1>0, <2>1 DEF Safe
  <2>5. Prepared(c)'
    BY <1>2, <2>3
  <2>6. Blame => Blame'
    BY <1>3, <1>12, <2>1
  <2>7. QED
    BY <1>0, <1>3, <1>12, <2>1, <2>2, <2>3, <2>4, <2>5, <2>6
<1>13. CASE Restart
  <2>1. /\ UNCHANGED <<main, body, keys, torn>> /\ down'
        /\ \A c \in Writers : step'[c] \in {"idle", "ok", "failed", "cut"}
    BY <1>13 DEF Restart, Busy
  <2>2. \A c \in Writers : Prepared(c)'
    BY <1>2, <2>1
  <2>3. QED
    BY <1>1, <2>1, <2>2
<1>14. CASE UNCHANGED assetVars
  <2>1. \A c \in Writers : Prepared(c)'
    BY <1>0, <1>14 DEF Prepared, Safe, Removing, assetVars
  <2>2. QED
    BY <1>1, <1>14, <2>1 DEF assetVars, Blame
<1>15. QED
  BY <1>4, <1>5, <1>6, <1>7, <1>8, <1>9, <1>9a, <1>10, <1>11, <1>11a, <1>12, <1>13, <1>14, AssetCases
     DEF Call, ReadFails, ReadRecords, Missing, ReadKeys

(* As long as no two calls overlap the records can be read at any time, and a *)
(* record that refers to a secret finds it, unless its removal was begun or   *)
(* the secrets themselves are being written, or their writing failed or was   *)
(* cut off by the end of the process.                                         *)
THEOREM SecretsCorrect == AssetSpec => []RecordsFindSecrets
<1>1. AssetInit => SecretsInv
  BY DEF AssetInit, SecretsInv, Prepared, Empty
<1>2. SecretsInv => RecordsFindSecrets
  BY DEF SecretsInv, RecordsFindSecrets, Safe, Removing, Blame
<1>3. QED
  BY <1>1, <1>2, AssetShape, SecretsStep, PTL DEF AssetSpec

(* Once a call that nobody overlaps is done, or while it runs, the records it *)
(* has made are wherever the file of assets can come from.                    *)
LEMMA CarriesStep ==
  ASSUME AssetTypeOK, AssetOrder, [AssetNext]_assetVars, NEW c \in Upserts \ overlap', Carries(c)
  PROVE  Carries(c)'
<1> USE DEF fileVars, callVars
<1>0. /\ c \in Writers /\ c \notin overlap /\ about' = about
      /\ step[c] # "idle" => step'[c] # "idle"
      /\ \A i : Removing(i) => Removing(i)'
      /\ step[c] \in Carrying => about[c] \in copy[c].ids
      /\ step[c] = "rename" => aside \in torn \/ about[c] \in body[aside].ids
  BY AssetFrame DEF Carries, Writers, Editors
<1>f. /\ Keys \notin Writers \cup {Nobody} /\ Nobody \notin Writers
      /\ main \in Writers \cup {Nobody} /\ aside \in Writers \cup {Nobody}
      /\ \A d \in Writers : held[d] \in Writers \cup {Nobody}
  BY AssetAssumption DEF Keys, Writers, Editors, AssetTypeOK
<1>1. ASSUME c \in Busy, NEW d \in Writers, d # c, d \in Busy \/ Call(d) PROVE FALSE
  BY <1>0, <1>1, AssetAlone
<1>2. step'[c] \in Carrying => about'[c] \in copy'[c].ids
  <2> SUFFICES ASSUME step'[c] \in Carrying PROVE about'[c] \in copy'[c].ids
    OBVIOUS
  <2>1. CASE ReadRecords(c)
    <3>1. copy'[c] = Changed(c, body[main]) /\ body[main] \in Records
      BY <1>0, <1>f, <2>1 DEF ReadRecords, AssetTypeOK
    <3>2. c \in Editors
      BY DEF Editors
    <3>3. QED
      BY <1>0, <3>1, <3>2, ChangedRecords
  <2>2. CASE UNCHANGED assetVars
    BY <1>0, <2>2 DEF assetVars
  <2>3. CASE Restart
    BY <1>0, <2>3 DEF Restart, Busy, Carrying
  <2>4. CASE \/ Call(c) \/ ReadFails(c) \/ Missing(c) \/ FillKeysFails(c) \/ FillAsideFails(c)
    <3>0. c \notin Others
      BY AssetAssumption
    <3>1. step'[c] \in {"read", "failed", "cut"}
      BY <1>0, <2>4, <3>0 DEF Call, ReadFails, Missing, FillKeysFails, FillAsideFails, To, AssetTypeOK
    <3>2. QED
      BY <3>1 DEF Carrying
  <2>5. CASE \/ ReadKeys(c) \/ EmptyKeys(c) \/ FillKeys(c) \/ OpenAside(c) \/ FillAside(c) \/ Rename(c)
    <3>1. step[c] \in Carrying /\ copy' = copy
      BY <2>5 DEF ReadKeys, EmptyKeys, FillKeys, OpenAside, FillAside, Rename, Carrying
    <3>2. QED
      BY <1>0, <3>1
  <2>6. ASSUME NEW d \in Writers, d # c, step'[c] = step[c], d \in Busy \/ Call(d) PROVE FALSE
    <3>1. c \in Busy
      BY <1>0, <2>6 DEF Carrying, Busy
    <3>2. QED
      BY <1>1, <2>6, <3>1
  <2>7. QED
    BY <1>0, <2>1, <2>2, <2>3, <2>4, <2>5, <2>6, AssetCases
<1>3. step'[c] = "rename" => aside' \in torn' \/ about'[c] \in body'[aside'].ids
  <2> SUFFICES ASSUME step'[c] = "rename" PROVE aside' \in torn' \/ about'[c] \in body'[aside'].ids
    OBVIOUS
  <2>1. CASE FillAside(c)
    <3>1. /\ step[c] = "fill" /\ held[c] = aside /\ aside' = aside
          /\ (body' = [body EXCEPT ![held[c]] = copy[c]]) \/ torn' = torn \cup {held[c]}
      BY <1>0, <2>1 DEF FillAside, AssetOrder
    <3>2. about[c] \in copy[c].ids
      BY <1>0, <3>1 DEF Carrying
    <3>3. QED
      BY <1>0, <1>f, <3>1, <3>2 DEF AssetTypeOK
  <2>2. CASE UNCHANGED assetVars
    BY <1>0, <2>2 DEF assetVars
  <2>3. CASE Restart
    BY <1>0, <2>3 DEF Restart, Busy
  <2>4. CASE \/ Call(c) \/ ReadFails(c) \/ ReadRecords(c) \/ Missing(c) \/ ReadKeys(c)
             \/ EmptyKeys(c) \/ FillKeys(c) \/ FillKeysFails(c) \/ OpenAside(c)
             \/ FillAsideFails(c) \/ Rename(c)
    <3>1. PICK to : To(c, to) /\ to # "rename"
      <4>1. CASE ReadRecords(c)
        BY <4>1 DEF ReadRecords
      <4>2. CASE OpenAside(c)
        BY <4>2 DEF OpenAside
      <4>3. CASE Rename(c)
        BY <4>3 DEF Rename
      <4>4. CASE ReadKeys(c) \/ EmptyKeys(c) \/ FillKeys(c) \/ FillKeysFails(c) \/ FillAsideFails(c)
        BY <4>4 DEF ReadKeys, EmptyKeys, FillKeys, FillKeysFails, FillAsideFails
      <4>5. CASE Call(c) \/ ReadFails(c) \/ Missing(c)
        BY <4>5 DEF Call, ReadFails, Missing
      <4>6. QED
        BY <2>4, <4>1, <4>2, <4>3, <4>4, <4>5
    <3>2. QED
      BY <1>0, <3>1, AssetMoves
  <2>5. ASSUME NEW d \in Writers, d # c, step'[c] = step[c], d \in Busy \/ Call(d) PROVE FALSE
    <3>1. c \in Busy
      BY <1>0, <2>5 DEF Busy
    <3>2. QED
      BY <1>1, <2>5, <3>1
  <2>6. QED
    BY <1>0, <2>1, <2>2, <2>3, <2>4, <2>5, AssetCases
<1>4. ASSUME step'[c] = "ok", ~Removing(about[c])'
      PROVE  /\ main' \in torn' \/ about[c] \in body'[main'].ids
             /\ aside' \in torn' \cup {Nobody} \/ about[c] \in body'[aside'].ids
             /\ \A d \in Editors : step'[d] \in Carrying => about[c] \in copy'[d].ids
  <2>1. CASE step[c] # "ok"
    <3>1. Rename(c) /\ c \in Busy
      <4>2. CASE c \notin Busy
        <5>1. ~Restart /\ ~UNCHANGED assetVars
          BY <1>0, <1>4, <2>1, <4>2 DEF Restart, assetVars
        <5>2. Call(c)
          BY <1>0, <1>4, <2>1, <4>2, <5>1, AssetCases
        <5>3. QED
          BY <1>0, <1>4, <5>2, AssetMoves DEF Call
      <4>3. CASE c \in Busy
        <5>1. ~Restart /\ ~UNCHANGED assetVars
          BY <1>0, <1>4, <2>1, <4>3 DEF Restart, assetVars
        <5>2. ASSUME ~Rename(c),
                     \/ Call(c) \/ ReadFails(c) \/ ReadRecords(c) \/ Missing(c) \/ ReadKeys(c)
                     \/ EmptyKeys(c) \/ FillKeys(c) \/ FillKeysFails(c) \/ OpenAside(c)
                     \/ FillAside(c) \/ FillAsideFails(c)
              PROVE  \E to : To(c, to) /\ to # "ok"
          <6>1. CASE ReadRecords(c)
            BY <6>1 DEF ReadRecords
          <6>2. CASE OpenAside(c) \/ FillAside(c) \/ FillAsideFails(c)
            BY <6>2 DEF OpenAside, FillAside, FillAsideFails
          <6>3. CASE ReadKeys(c) \/ EmptyKeys(c) \/ FillKeys(c) \/ FillKeysFails(c)
            <7>1. c \notin Others
              BY AssetAssumption
            <7>2. QED
              BY <6>3, <7>1 DEF ReadKeys, EmptyKeys, FillKeys, FillKeysFails
          <6>4. CASE Call(c) \/ ReadFails(c) \/ Missing(c)
            BY <6>4 DEF Call, ReadFails, Missing
          <6>5. QED
            BY <5>2, <6>1, <6>2, <6>3, <6>4
        <5>3. QED
          BY <1>0, <1>1, <1>4, <2>1, <4>3, <5>1, <5>2, AssetCases, AssetMoves
      <4>4. QED
        BY <4>2, <4>3
    <3>2. /\ step[c] = "rename" /\ aside # Nobody
          /\ main' = aside /\ aside' = Nobody /\ UNCHANGED <<body, torn, copy>>
      BY <1>0, <1>4, <3>1 DEF Rename, To, AssetTypeOK
    <3>3. \A d \in Writers : d # c => step'[d] \notin Carrying
      <4>1. \A d \in Writers : d # c => d \notin Busy /\ step'[d] = step[d]
        BY <1>0, <1>1, <3>1, AssetMoves DEF Rename, To, AssetTypeOK
      <4>2. QED
        BY <4>1 DEF Busy, Carrying
    <3>4. QED
      BY <1>0, <1>4, <3>2, <3>3 DEF Carrying, Writers
  <2>2. CASE step[c] = "ok"
    <3>0. /\ main \in torn \/ about[c] \in body[main].ids
          /\ aside \in torn \cup {Nobody} \/ about[c] \in body[aside].ids
          /\ \A d \in Editors : step[d] \in Carrying => about[c] \in copy[d].ids
      BY <1>0, <1>4, <2>2 DEF Carries
    <3>1. ASSUME NEW d \in Writers, d # c, \A e \in Writers : e # d => step'[e] = step[e],
                 \/ Call(d) \/ ReadFails(d) \/ Missing(d)
          PROVE  /\ main' \in torn' \/ about[c] \in body'[main'].ids
                 /\ aside' \in torn' \cup {Nobody} \/ about[c] \in body'[aside'].ids
                 /\ \A e \in Editors : step'[e] \in Carrying => about[c] \in copy'[e].ids
      <4>1. /\ UNCHANGED <<main, aside, body, torn, copy>>
            /\ d \in Editors => step'[d] \in {"read", "failed"}
        <5>1. d \in Editors => d \notin Others
          BY AssetAssumption DEF Editors
        <5>2. QED
          BY <3>1, <5>1 DEF Call, ReadFails, Missing, To, AssetTypeOK
      <4>2. \A e \in Editors : step'[e] \in Carrying => about[c] \in copy'[e].ids
        BY <3>0, <3>1, <4>1 DEF Carrying, Writers
      <4>3. QED
        BY <3>0, <4>1, <4>2
    <3>2. ASSUME NEW d \in Writers, d # c, \A e \in Writers : e # d => step'[e] = step[e],
                 ReadRecords(d)
          PROVE  /\ main' \in torn' \/ about[c] \in body'[main'].ids
                 /\ aside' \in torn' \cup {Nobody} \/ about[c] \in body'[aside'].ids
                 /\ \A e \in Editors : step'[e] \in Carrying => about[c] \in copy'[e].ids
      <4>1. /\ UNCHANGED <<main, aside, body, torn>> /\ main \notin torn /\ step[d] = "read"
            /\ copy' = [copy EXCEPT ![d] = Changed(d, body[main])]
            /\ body[main] \in Records
        BY <1>f, <3>2 DEF ReadRecords, AssetTypeOK
      <4>2. step'[d] # "idle"
        BY <4>1, AssetFrame
      <4>2a. d \in Editors
        BY <4>1 DEF AssetOrder, Writers
      <4>3. d \notin Upserts => about[d] # about[c]
        BY <1>0, <1>4, <4>2, <4>2a DEF Removing, Editors
      <4>4. about[c] \in Changed(d, body[main]).ids
        BY <3>0, <4>1, <4>2a, <4>3, ChangedRecords
      <4>5. copy'[d] = Changed(d, body[main]) /\ \A e \in Writers : e # d => copy'[e] = copy[e]
        BY <4>1 DEF AssetTypeOK
      <4>6. \A e \in Editors : step'[e] \in Carrying => about[c] \in copy'[e].ids
        BY <3>0, <3>2, <4>4, <4>5 DEF Writers
      <4>7. QED
        BY <3>0, <4>1, <4>6
    <3>3. ASSUME NEW d \in Writers, d # c, \A e \in Writers : e # d => step'[e] = step[e],
                 ReadKeys(d) \/ EmptyKeys(d) \/ FillKeys(d) \/ FillKeysFails(d)
          PROVE  /\ main' \in torn' \/ about[c] \in body'[main'].ids
                 /\ aside' \in torn' \cup {Nobody} \/ about[c] \in body'[aside'].ids
                 /\ \A e \in Editors : step'[e] \in Carrying => about[c] \in copy'[e].ids
      <4>1. /\ UNCHANGED <<main, aside, body, copy>> /\ step[d] \in Carrying
            /\ \A f : f # Keys => (f \in torn' <=> f \in torn)
        BY <3>3 DEF ReadKeys, EmptyKeys, FillKeys, FillKeysFails, Carrying
      <4>2. main # Keys /\ aside # Keys
        BY <1>f
      <4>3. QED
        BY <3>0, <3>3, <4>1, <4>2 DEF Writers
    <3>4. ASSUME NEW d \in Writers, d # c, \A e \in Writers : e # d => step'[e] = step[e],
                 OpenAside(d)
          PROVE  /\ main' \in torn' \/ about[c] \in body'[main'].ids
                 /\ aside' \in torn' \cup {Nobody} \/ about[c] \in body'[aside'].ids
                 /\ \A e \in Editors : step'[e] \in Carrying => about[c] \in copy'[e].ids
      <4>1. main' = main /\ copy' = copy /\ step[d] = "open"
        BY <3>4 DEF OpenAside
      <4>2. \A e \in Editors : step'[e] \in Carrying => about[c] \in copy'[e].ids
        BY <3>0, <3>4, <4>1 DEF Carrying, Writers
      <4>3. CASE UNCHANGED <<aside, body, torn>>
        BY <3>0, <4>1, <4>2, <4>3
      <4>4. CASE ~UNCHANGED <<aside, body, torn>>
        <5>1. PICK f \in Writers : /\ f = IF aside = Nobody THEN d ELSE aside
                                   /\ aside' = f /\ torn' = torn \cup {f}
                                   /\ body' = [body EXCEPT ![f] = Empty]
          BY <1>f, <3>4, <4>4 DEF OpenAside
        <5>2. f # main
          BY <1>f, <4>1, <5>1 DEF AssetOrder
        <5>3. body'[main] = body[main]
          BY <1>f, <5>1, <5>2 DEF AssetTypeOK
        <5>4. QED
          BY <3>0, <4>1, <4>2, <5>1, <5>3
      <4>5. QED
        BY <4>3, <4>4
    <3>5. ASSUME NEW d \in Writers, d # c, \A e \in Writers : e # d => step'[e] = step[e],
                 FillAside(d)
          PROVE  /\ main' \in torn' \/ about[c] \in body'[main'].ids
                 /\ aside' \in torn' \cup {Nobody} \/ about[c] \in body'[aside'].ids
                 /\ \A e \in Editors : step'[e] \in Carrying => about[c] \in copy'[e].ids
      <4>1. /\ UNCHANGED <<main, aside, copy>> /\ step[d] \in Carrying
            /\ \/ body' = [body EXCEPT ![held[d]] = copy[d]] /\ torn' = torn \ {held[d]}
               \/ body' = [body EXCEPT ![held[d]] = Empty] /\ torn' = torn \cup {held[d]}
            /\ step[d] = "fill"
        BY <3>5 DEF FillAside, Carrying
      <4>1a. d \in Editors
        BY <4>1 DEF AssetOrder, Writers
      <4>2. about[c] \in copy[d].ids
        BY <3>0, <4>1, <4>1a
      <4>3. ASSUME NEW f \in Writers \cup {Nobody}, f \in torn \/ about[c] \in body[f].ids
            PROVE  f \in torn' \/ about[c] \in body'[f].ids
        BY <4>1, <4>2, <4>3 DEF AssetTypeOK
      <4>4. QED
        BY <1>f, <3>0, <3>5, <4>1, <4>3 DEF Writers
    <3>5a. ASSUME NEW d \in Writers, d # c, \A e \in Writers : e # d => step'[e] = step[e],
                 FillAsideFails(d)
          PROVE  /\ main' \in torn' \/ about[c] \in body'[main'].ids
                 /\ aside' \in torn' \cup {Nobody} \/ about[c] \in body'[aside'].ids
                 /\ \A e \in Editors : step'[e] \in Carrying => about[c] \in copy'[e].ids
      <4>1. /\ UNCHANGED <<main, aside, copy>> /\ step[d] \in Carrying
            /\ \/ UNCHANGED <<body, torn>>
               \/ body' = [body EXCEPT ![held[d]] = Empty] /\ torn' = torn \cup {held[d]}
        BY <3>5a DEF FillAsideFails, Carrying
      <4>2. ASSUME NEW f \in Writers \cup {Nobody}, f \in torn \/ about[c] \in body[f].ids
            PROVE  f \in torn' \/ about[c] \in body'[f].ids
        BY <4>1, <4>2 DEF AssetTypeOK
      <4>3. QED
        BY <1>f, <3>0, <3>5a, <4>1, <4>2 DEF Writers
    <3>6. ASSUME NEW d \in Writers, d # c, \A e \in Writers : e # d => step'[e] = step[e],
                 Rename(d)
          PROVE  /\ main' \in torn' \/ about[c] \in body'[main'].ids
                 /\ aside' \in torn' \cup {Nobody} \/ about[c] \in body'[aside'].ids
                 /\ \A e \in Editors : step'[e] \in Carrying => about[c] \in copy'[e].ids
      <4>1. /\ UNCHANGED <<body, torn, copy>> /\ step[d] \in Carrying
            /\ (UNCHANGED <<main, aside>>) \/ (aside # Nobody /\ main' = aside /\ aside' = Nobody)
        BY <3>6 DEF Rename, Carrying
      <4>2. QED
        BY <3>0, <3>6, <4>1 DEF Writers
    <3>7. CASE Restart
      <4>1. /\ UNCHANGED <<main, aside, body, torn, copy>>
            /\ \A d \in Editors : step'[d] \notin Carrying
        BY <3>7 DEF Restart, Busy, Carrying, Writers
      <4>2. QED
        BY <3>0, <4>1
    <3>8. CASE UNCHANGED assetVars
      BY <3>0, <3>8 DEF assetVars
    <3>9. c \notin Busy /\ ~Call(c)
      BY <2>2 DEF Busy, Call
    <3>10. QED
      BY <3>1, <3>2, <3>3, <3>4, <3>5, <3>5a, <3>6, <3>7, <3>8, <3>9, AssetCases
  <2>3. QED
    BY <2>1, <2>2
<1>5. QED
  BY <1>0, <1>2, <1>3, <1>4 DEF Carries

(* An asset whose creation was answered with success is there as long as no   *)
(* call overlapped its own and nothing removes it, however later calls run    *)
(* into each other, if only the file can still be read.                       *)
THEOREM CreatedCorrect == AssetSpec => []CreatedStays
<1> DEFINE CarriesAll == \A c \in Upserts \ overlap : Carries(c)
<1>1. AssetInit => CarriesAll
  BY DEF AssetInit, Carries, Carrying, Writers, Editors
<1>2. AssetTypeOK /\ AssetOrder /\ CarriesAll /\ [AssetNext]_assetVars => CarriesAll'
  <2> SUFFICES ASSUME AssetTypeOK, AssetOrder, CarriesAll, [AssetNext]_assetVars,
                      NEW c \in Upserts \ overlap'
               PROVE  Carries(c)'
    OBVIOUS
  <2>1. Carries(c)
    BY AssetFrame
  <2>2. QED
    BY <2>1, CarriesStep
<1>3. CarriesAll => CreatedStays
  BY DEF Carries, CreatedStays, Removing
<1>4. QED
  BY <1>1, <1>2, <1>3, AssetShape, PTL DEF AssetSpec
=============================================================================
