---------------------------- MODULE McpSessions ----------------------------
(***************************************************************************)
(* The pooled GitHub MCP sessions (backend/src/agent/mcp/                  *)
(* McpSessionPool.ts, StdioDockerTransport.ts) as the agents' tool loops   *)
(* use them (backend/src/agent/tools/githubMcpTools.ts).  A transport owns *)
(* a docker container that holds the owner's token; the pool shares one    *)
(* transport per owner, counts the loops that use it, closes it when it    *)
(* has been idle for a while, and closes every one at shutdown.            *)
(*                                                                         *)
(* The container is counted from the moment the connect resolves.          *)
(***************************************************************************)
EXTENDS Shutdown, Integers, FiniteSets

CONSTANTS
  Loops,        \* the agents' tool loops
  Keys,         \* the (token, owner) scopes
  KeyOf,        \* the scope each loop's owner has
  Transports    \* slots: 1..n, the transports under way or up at once

ASSUME McpAssumption ==
  /\ KeyOf \in [Loops -> Keys]
  /\ IsFiniteSet(Loops) /\ IsFiniteSet(Transports)
  /\ Transports = 1..Cardinality(Transports)

VARIABLES
  pool,         \* entries: the transport of each scope, or 0
  transports,   \* each transport: its connection, its entry's refcount and timers
  loops         \* each loop: where it is, and the transport its acquire gave it

vars == <<phase, exit, pool, transports, loops>>

\* conn: "connecting" (raced with a timer); "late" (the timer won); "abandoned" (closed
\* before the connect resolved); "up"; "orphan" (up, and close() was called before);
\* "closing"; "none" (failed, closed or never begun).
\* init: how its initialize() settled.
Fresh == [conn |-> "none", init |-> "none", refs |-> 0, timer |-> FALSE, strays |-> 0]

Init ==
  /\ ShutdownInit
  /\ pool = [k \in Keys |-> 0]
  /\ transports = [t \in Transports |-> Fresh]
  /\ loops = [l \in Loops |-> [pc |-> "out", t |-> 0]]

Users(t) == {l \in Loops : loops[l].t = t}
Pooled(t) == \E k \in Keys : pool[k] = t
Unused(t) == transports[t] = Fresh /\ ~Pooled(t) /\ Users(t) = {}

-----------------------------------------------------------------------------
(* The pool                                                                *)

\* A loop joins the entry of its scope, cancels its idle timer and counts itself before
\* it waits for the initialize; the first loop of a scope starts one.
Joins(l, t, refs) ==
  /\ transports' = [transports EXCEPT ![t].refs = refs, ![t].timer = FALSE,
       ![t].conn = IF pool[KeyOf[l]] = 0 THEN "connecting" ELSE @]
  /\ pool' = [pool EXCEPT ![KeyOf[l]] = t]
  /\ loops' = [loops EXCEPT ![l] = [pc |-> "waiting", t |-> t]]

EntryFor(k) == {t \in Transports : IF pool[k] = 0 THEN Unused(t) ELSE t = pool[k]}

\* Mutant: a loop is counted only once the initialize it waited for is done.
AcquireUncounted(l) ==
  /\ loops[l].pc = "out"
  /\ \E t \in EntryFor(KeyOf[l]) :
       /\ \A u \in EntryFor(KeyOf[l]) : t <= u
       /\ Joins(l, t, IF pool[KeyOf[l]] = 0 THEN 1 ELSE transports[t].refs)
  /\ Alive

Acquire(l) ==
  /\ loops[l].pc = "out"
  /\ \E t \in EntryFor(KeyOf[l]) :
       /\ \A u \in EntryFor(KeyOf[l]) : t <= u
       /\ Joins(l, t, transports[t].refs + 1)
  /\ Alive

\* The initialize resolved: the loop holds its reference for as long as it runs.
Acquired(l) ==
  /\ loops[l].pc = "waiting" /\ transports[loops[l].t].init = "resolved"
  /\ loops' = [loops EXCEPT ![l].pc = "using"]
  /\ Alive /\ UNCHANGED <<pool, transports>>

\* Mutant: a loop whose initialize failed leaves its reference on the entry.
AcquireFailsCounted(l) ==
  LET t == loops[l].t
      k == KeyOf[l]
  IN
  /\ loops[l].pc = "waiting" /\ transports[t].init = "rejected"
  /\ pool' = IF pool[k] = t /\ transports[t].refs = 1 THEN [pool EXCEPT ![k] = 0] ELSE pool
  /\ loops' = [loops EXCEPT ![l] = [pc |-> "out", t |-> 0]]
  /\ Alive /\ UNCHANGED transports

\* The initialize failed: the loop takes its reference back and drops the entry, unless
\* another has taken its place.
AcquireFails(l) ==
  LET t == loops[l].t
      k == KeyOf[l]
  IN
  /\ loops[l].pc = "waiting" /\ transports[t].init = "rejected"
  /\ transports' = [transports EXCEPT ![t].refs = @ - 1]
  /\ pool' = IF pool[k] = t THEN [pool EXCEPT ![k] = 0] ELSE pool
  /\ loops' = [loops EXCEPT ![l] = [pc |-> "out", t |-> 0]]
  /\ Alive

\* The loop is over, or found no tools: the entry its scope has by now loses a reference,
\* and its last arms the idle timer.
Release(l) ==
  LET t == pool[KeyOf[l]] IN
  /\ loops[l].pc = "using"
  /\ loops' = [loops EXCEPT ![l] = [pc |-> "out", t |-> 0]]
  /\ IF t = 0
     THEN UNCHANGED transports
     ELSE LET refs == IF transports[t].refs > 0 THEN transports[t].refs - 1 ELSE 0 IN
          transports' = [transports EXCEPT ![t].refs = refs,
            ![t].strays = @ + IF refs = 0 /\ transports[t].timer THEN 1 ELSE 0,
            ![t].timer = @ \/ refs = 0]
  /\ Alive /\ UNCHANGED pool

\* close(): a transport that is up is flushed and its container killed; one whose
\* connect is pending has nothing to close yet.
Closed(x) ==
  [x EXCEPT !.conn = CASE x.conn = "up" -> "closing"
                       [] x.conn = "connecting" -> "abandoned"
                       [] OTHER -> @,
            !.timer = FALSE]

Spent(t, stray) ==
  IF stray THEN [transports[t] EXCEPT !.strays = @ - 1] ELSE [transports[t] EXCEPT !.timer = FALSE]

\* Mutant: an idle entry is dropped from the pool and never closed.
IdleDrops(t, stray) ==
  /\ IF stray THEN transports[t].strays > 0 ELSE transports[t].timer
  /\ LET keep == ~Pooled(t) \/ transports[t].refs > 0 IN
     /\ transports' = [transports EXCEPT ![t] = Spent(t, stray)]
     /\ pool' = [k \in Keys |-> IF pool[k] = t /\ ~keep THEN 0 ELSE pool[k]]
  /\ Alive /\ UNCHANGED loops

\* An idle timer fires: it closes its entry if that is still the scope's and in no use.
Idle(t, stray) ==
  /\ IF stray THEN transports[t].strays > 0 ELSE transports[t].timer
  /\ LET keep == ~Pooled(t) \/ transports[t].refs > 0 IN
     /\ transports' = [transports EXCEPT ![t] =
          IF keep THEN Spent(t, stray) ELSE Closed(Spent(t, stray))]
     /\ pool' = [k \in Keys |-> IF pool[k] = t /\ ~keep THEN 0 ELSE pool[k]]
  /\ Alive /\ UNCHANGED loops

\* closeAll, in the close sequence: every entry leaves the pool and is closed.
CloseAll ==
  /\ CloseStep("mcp")
  /\ transports' = [t \in Transports |-> IF Pooled(t) THEN Closed(transports[t]) ELSE transports[t]]
  /\ pool' = [k \in Keys |-> 0]
  /\ UNCHANGED loops

-----------------------------------------------------------------------------
(* The transports                                                          *)

Becomes(t, conn, init) ==
  /\ transports' = [transports EXCEPT ![t].conn = conn, ![t].init = init]
  /\ Alive /\ UNCHANGED <<pool, loops>>

\* The connect resolves first.  After a close it leaves a connection nobody closes.
Connected(t) ==
  \/ transports[t].conn = "connecting" /\ Becomes(t, "up", "resolved")
  \/ transports[t].conn = "abandoned" /\ Becomes(t, "orphan", "resolved")

\* No docker, or the server does not start.
ConnectFails(t) ==
  transports[t].conn \in {"connecting", "abandoned", "late"} /\ Becomes(t, "none", "rejected")

\* The timer wins: the initialize rejects, and the connect is still pending.
ConnectTimesOut(t) ==
  transports[t].conn \in {"connecting", "abandoned"} /\ Becomes(t, "late", "rejected")

\* Mutant: a connection that comes late is left alone.
LateConnectedKept(t) == transports[t].conn = "late" /\ Becomes(t, "orphan", "rejected")

\* A connection that comes late is closed at once.
LateConnected(t) == transports[t].conn = "late" /\ Becomes(t, "closing", "rejected")

\* The client is closed and the container killed.  Of an entry's own close the wait for the
\* client is bounded; of a connection that came late it is not, and its kill may never come.
Killed(t) == transports[t].conn = "closing" /\ Becomes(t, "none", transports[t].init)

\* A slot nobody knows of any more.
Forget(t) ==
  /\ transports[t].conn = "none" /\ transports[t] # Fresh
  /\ ~Pooled(t) /\ Users(t) = {}
  /\ transports' = [transports EXCEPT ![t] = Fresh]
  /\ Alive /\ UNCHANGED <<pool, loops>>

-----------------------------------------------------------------------------

\* The steps of the shutdown that the sessions take no part in.
ShutdownStep ==
  /\ \/ Signal \/ ForceExit
     \/ \E p \in Phases \ {"mcp"} : CloseStep(p)
  /\ UNCHANGED <<pool, transports, loops>>

Next ==
  \/ \E l \in Loops : Acquire(l) \/ Acquired(l) \/ AcquireFails(l) \/ Release(l)
  \/ \E t \in Transports :
       \/ \E stray \in BOOLEAN : Idle(t, stray)
       \/ Connected(t) \/ ConnectFails(t) \/ ConnectTimesOut(t) \/ LateConnected(t)
       \/ Killed(t) \/ Forget(t)
  \/ CloseAll \/ ShutdownStep

Spec == Init /\ [][Next]_vars

\* Timers fire.  Nothing is assumed of the loops, nor of how long a connect or a kill may
\* take.
FairSpec ==
  /\ Spec
  /\ \A t \in Transports : WF_vars(\E stray \in BOOLEAN : Idle(t, stray))

-----------------------------------------------------------------------------
(* Properties                                                              *)

Conns == {"none", "connecting", "late", "abandoned", "up", "orphan", "closing"}

\* Every variable keeps its type; no entry counts more references than there are loops,
\* and before the shutdown's closeAll a pooled one counts exactly its users.
TypeOK ==
  /\ ShutdownTypeOK
  /\ pool \in [Keys -> {0} \cup Transports]
  /\ transports \in [Transports ->
       [conn : Conns, init : {"none", "resolved", "rejected"}, refs : -Cardinality(Loops)..Cardinality(Loops),
        timer : BOOLEAN, strays : 0..Cardinality(Loops)]]
  /\ loops \in [Loops -> [pc : {"out", "waiting", "using"}, t : {0} \cup Transports]]
  /\ Rank(phase) <= Rank("mcp") =>
       \A t \in Transports : Pooled(t) => transports[t].refs = Cardinality(Users(t))

\* A loop that was given a transport keeps it until it releases it, whatever the timers
\* and the other loops do; only the shutdown takes it away.
UsedIsUp ==
  Rank(phase) <= Rank("mcp") =>
    \A l \in Loops : loops[l].pc = "using" => transports[loops[l].t].conn = "up"

\* A container runs only while the pool knows of it: a timed-out or failed initialize, a
\* replaced entry and an idle one leave none behind.
NoOrphan ==
  Rank(phase) <= Rank("mcp") =>
    \A t \in Transports : transports[t].conn \in {"up", "orphan"} => Pooled(t)

\* A container no loop uses is closed in the end, unless a loop comes back to it.
IdleIsReaped ==
  \A t \in Transports :
    transports[t].conn = "up" /\ Users(t) = {}
      ~> transports[t].conn # "up" \/ Users(t) # {} \/ phase # "serving"

\* A clean shutdown leaves no container behind.
NoContainerSurvives ==
  exit = "clean" => \A t \in Transports : transports[t].conn \notin {"up", "orphan"}

=============================================================================
