----------------------------- MODULE MCSshConnect ------------------------------
(* SshConnect on a small instance.                                          *)
EXTENDS SshConnect, TLC

ConnectSymmetry == Permutations(Connects) \cup Permutations(Disconnects)
=============================================================================
