-------------------------- MODULE MCExternalWrites --------------------------
(* ExternalWrites for TLC: requests are interchangeable.                   *)
EXTENDS ExternalWrites, TLC

Interchangeable == Permutations(Requests)

=============================================================================
