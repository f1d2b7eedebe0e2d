--------------------------- MODULE MCMcpSessions ---------------------------
(* The instances of McpSessions that TLC checks.                           *)
EXTENDS McpSessions, TLC

CONSTANTS l1, l2, l3, k1, k2

\* Two loops of one owner, and one of another.
MCKeyOf == (l1 :> k1) @@ (l2 :> k1) @@ (l3 :> k2)

=============================================================================
