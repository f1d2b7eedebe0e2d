------------------------------ MODULE Shutdown ------------------------------
(***************************************************************************)
(* The graceful shutdown of the server (backend/src/api/shutdown.ts and    *)
(* the close sequence start() gives it in backend/src/api/server.ts): the  *)
(* first signal drains, step by step and against a timer, and the process  *)
(* exits once.  Builds run in the background until it does; the modules    *)
(* that extend this one say what they, and each step, do.                  *)
(***************************************************************************)
EXTENDS Naturals, Sequences

VARIABLES
  phase,   \* the step of the close sequence the server is at
  exit     \* how the process ended: "none" while it runs

\* serving; app.close; previewRegistry.stopAll; the MCP pool; ragQueue.drain;
\* vectorStore.flush; the Postgres pool's end.
CloseSequence == <<"serving", "http", "previews", "mcp", "drain", "flush", "pool", "exited">>

Phases == {CloseSequence[n] : n \in 1..Len(CloseSequence)}
Rank(p) == CHOOSE n \in 1..Len(CloseSequence) : CloseSequence[n] = p

ShutdownInit == phase = "serving" /\ exit = "none"

Draining == phase \notin {"serving", "exited"}

\* The first SIGTERM or SIGINT; those after it are ignored.
Signal == phase = "serving" /\ phase' = "http" /\ UNCHANGED exit

\* A step of the close sequence is over; after the last the process exits cleanly.
CloseStep(p) ==
  /\ phase = p /\ Draining
  /\ phase' = CloseSequence[Rank(p) + 1]
  /\ exit' = IF phase' = "exited" THEN "clean" ELSE exit

\* The drain took too long, or a step of it threw: the process is forced out.
ForceExit == Draining /\ phase' = "exited" /\ exit' = "forced"

\* What the rest of the process does, it does until the exit.
Alive == phase # "exited" /\ UNCHANGED <<phase, exit>>

ShutdownTypeOK == phase \in Phases /\ exit \in {"none", "clean", "forced"}

=============================================================================
