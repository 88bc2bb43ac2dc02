------------------------------ MODULE MCLivePumps ------------------------------
(* The pumps of one device's successive channels, one view at a time: as      *)
(* LiveSource has them, with what starts and ends them, or as LiveTakeover    *)
(* has them, with the gestures that panels send and the pumps perform.        *)
EXTENDS LiveSource, LiveTakeover

VARIABLE part
allVars == <<part, vars, actorVars>>

MCInit == part \in {"source", "takeover"} /\ Init /\ TakeoverInit

MCNext ==
  /\ UNCHANGED part
  /\ \/ part = "source" /\ Next /\ UNCHANGED actorVars
     \/ part = "takeover" /\ TakeoverNext /\ UNCHANGED <<taskVars, machineVars>>

(* What is fair in one view may take no step in the other.                    *)
MCSpec ==
  /\ MCInit /\ [][MCNext]_allVars
  /\ part = "source" => Fairness
  /\ part = "takeover" => TakeoverFairness
=============================================================================
