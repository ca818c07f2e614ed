------------------------ MODULE MCSearchLifecycle ------------------------
(* Instances of SearchLifecycle for TLC. *)
EXTENDS SearchProperties, TLC

\* Processes are interchangeable; safety runs only.
PidSymmetry == Permutations(Pids)
=============================================================================
