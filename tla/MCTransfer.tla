------------------------------ MODULE MCTransfer ------------------------------
(* Transfer on a small instance: an upload of two files that is started twice *)
(* and a download.                                                            *)
EXTENDS Transfer, TLC
CONSTANTS a, b
MCFileSizes == [i \in Transfers |-> IF i = a THEN <<0, 2>> ELSE <<1>>]
Symmetry == Permutations(Users)
MCMaxRuns == [i \in Transfers |-> IF i = a THEN 2 ELSE 1]

(* Bounds: a call about the download has no other beside it, and workers of   *)
(* the two do not move files at once.                                         *)
Alone ==
  /\ \A u, v \in Users : call[u] # Idle /\ call[u].id = b /\ v # u => call[v] = Idle
  /\ Moving(a) = {} \/ (Moving(b) = {} /\ late = {})
MCNext == Next /\ Alone'
MCSpec == Init /\ [][MCNext]_vars
=============================================================================
