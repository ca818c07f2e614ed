------------------------ MODULE MCSearchRecovery ------------------------
(* Instances of SearchRecovery for TLC. *)
EXTENDS RecoveryProperties, TLC

\* Processes are interchangeable; safety runs only.
PidSymmetry == Permutations(Pids)
=============================================================================
