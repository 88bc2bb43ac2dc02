------------------------------- MODULE MCStores -------------------------------
(* The stores of the sidecar, which share no state that the modules model: a  *)
(* run takes a store of one document or the assets with their secrets.        *)
EXTENDS JsonStore, AssetStore, TLC

VARIABLE part
allVars == <<part, storeVars, assetVars>>

(* What is not taken has one initial state; a removal brings no secret.       *)
MCInit ==
  /\ part \in {"json", "assets"}
  /\ StoreInit /\ (part # "json" => store = "audit")
  /\ AssetInit
  /\ \A r \in Removes : ~brings[r]
  /\ part # "assets" => /\ about = CHOOSE f \in [Editors -> Ids] : TRUE
                        /\ brings = [c \in Editors |-> FALSE]

MCNext ==
  /\ UNCHANGED part
  /\ \/ part = "json" /\ StoreNext /\ UNCHANGED assetVars
     \/ part = "assets" /\ AssetNext /\ UNCHANGED storeVars

MCSpec == MCInit /\ [][MCNext]_allVars

Alike == Permutations(Adds) \cup Permutations(Upserts) \cup Permutations(Ids)
=============================================================================
