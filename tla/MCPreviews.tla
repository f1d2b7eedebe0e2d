----------------------------- MODULE MCPreviews -----------------------------
(* The instances of PreviewRegistry that TLC checks.                       *)
EXTENDS PreviewRegistry, TLC

\* The users' sessions are interchangeable.
Interchangeable == Permutations(Sessions \ Verify)

=============================================================================
