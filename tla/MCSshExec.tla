------------------------------ MODULE MCSshExec ------------------------------
(* SshExec on a small instance.                                             *)
EXTENDS SshExec, TLC

ExecSymmetry == Permutations(Connects) \cup Permutations(Calls)
=============================================================================
