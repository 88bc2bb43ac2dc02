------------------------------ MODULE MCSidecar ------------------------------
(* Sidecar on a small instance.                                               *)
EXTENDS Sidecar, TLC

(* The two calls of bind_asset_context bind different assets.                 *)
MCInit == Init /\ \A b, c \in Binds : names[b] = names[c] => b = c
MCSpec == MCInit /\ [][Next]_vars /\ Fairness
=============================================================================
