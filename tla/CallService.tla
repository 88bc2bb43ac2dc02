----------------------------- MODULE CallService -----------------------------
(* What the client of the Go process promises: a call is carried out at most  *)
(* once, whether or not its caller hears of it, and a caller who is told that *)
(* it succeeded can rely on it having been carried out.  A call that failed   *)
(* may have been carried out all the same, and may yet be.                    *)
EXTENDS Naturals

CONSTANT Calls

VARIABLES phase,   \* phase[c]: what the caller of c knows
          runs     \* runs[c]: how often c has been carried out

vars == <<phase, runs>>

TypeOK ==
  /\ phase \in [Calls -> {"idle", "asked", "ok", "failed"}]
  /\ runs \in [Calls -> {0, 1}]

Init ==
  /\ phase = [c \in Calls |-> "idle"]
  /\ runs = [c \in Calls |-> 0]

Ask(c) ==
  /\ phase[c] = "idle"
  /\ phase' = [phase EXCEPT ![c] = "asked"]
  /\ UNCHANGED runs

Run(c) ==
  /\ phase[c] \in {"asked", "failed"}
  /\ runs[c] = 0
  /\ runs' = [runs EXCEPT ![c] = 1]
  /\ UNCHANGED phase

Succeed(c) ==
  /\ phase[c] = "asked"
  /\ runs[c] = 1
  /\ phase' = [phase EXCEPT ![c] = "ok"]
  /\ UNCHANGED runs

Fail(c) ==
  /\ phase[c] = "asked"
  /\ phase' = [phase EXCEPT ![c] = "failed"]
  /\ UNCHANGED runs

Next == \E c \in Calls : Ask(c) \/ Run(c) \/ Succeed(c) \/ Fail(c)

Spec == Init /\ [][Next]_vars
=============================================================================
