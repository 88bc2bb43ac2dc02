------------------------------ MODULE MCLiveSource ----------------------------
(* What a channel's source leaves on the machine, and what it feeds a viewer  *)
(* with, one at a time: the runs of successive channels of one device, or the *)
(* frames of one channel.  The two share no state that the modules model.     *)
EXTENDS LiveSource, LiveFrames, TLC

VARIABLE part
allVars == <<part, vars, framesVars>>

(* The ring holds two or three frames, so that a group of pictures outgrows   *)
(* it, and one frame can be too large.                                        *)
MCSize == [kind \in Kinds |-> CASE kind = "png" -> 6
                                [] kind = "key" -> 2
                                [] OTHER -> 1]

SourceSymmetry == Permutations(Handles) \cup Permutations(Openers)

MCInit == part \in {"source", "frames"} /\ Init /\ FramesInit

MCNext ==
  /\ UNCHANGED part
  /\ \/ part = "source" /\ Next /\ UNCHANGED framesVars
     \/ part = "frames" /\ FramesNext /\ UNCHANGED vars

MCSpec == MCInit /\ [][MCNext]_allVars
=============================================================================
