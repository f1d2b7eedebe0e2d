----------------------------- MODULE MCPublish -----------------------------
(* Publish for TLC: publishes, static builds, process ids, directories and   *)
(* ports are interchangeable.                                                *)
EXTENDS Publish, TLC

Interchangeable ==
  Permutations(Jobs) \cup Permutations(Static) \cup Permutations(Pids)
    \cup Permutations(Dirs) \cup Permutations(Ports)

=============================================================================
