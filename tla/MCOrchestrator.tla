--------------------------- MODULE MCOrchestrator ---------------------------
(* The instances of Orchestrator that TLC checks.                          *)
EXTENDS Orchestrator, TLC

\* Clients, specs, file sets and repositories are interchangeable.
Interchangeable ==
  Permutations(Clients) \cup Permutations(Specs) \cup Permutations(Codes)
    \cup Permutations(Repos)

=============================================================================
