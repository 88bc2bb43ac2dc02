----------------------------- MODULE MCLiveServer -----------------------------
(* LiveServer on a small instance. *)
EXTENDS LiveServer, TLC

ServerSymmetry ==
  Permutations(Handles) \cup Permutations(Tokens)
    \cup Permutations(Conns) \cup Permutations(Callers)
=============================================================================
