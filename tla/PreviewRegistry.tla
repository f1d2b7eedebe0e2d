-------------------------- MODULE PreviewRegistry --------------------------
(***************************************************************************)
(* The running previews of produced apps (backend/src/preview/             *)
(* PreviewRegistry.ts, ports.ts) and the per-session coordinator every     *)
(* start goes through (backend/src/api/preview.routes.ts).  A start is a   *)
(* launch that installs, takes a port, spawns a child and probes it, with  *)
(* awaits in between; a newer start, a stop or an eviction may take the    *)
(* session's ownership token from it at each of them.                      *)
(*                                                                         *)
(* A launch is its slot: the token a session holds is the slot of the      *)
(* launch that minted it, or 0 once a stop has moved it on.  A verify boot *)
(* is a session of its own, which no user stops and the cap passes over.   *)
(***************************************************************************)
EXTENDS Naturals, FiniteSets, Functions

CONSTANTS
  Sessions,
  None,
  Verify,         \* the sessions that are verify boots
  Kinds,          \* the types an app may be detected as
  Launches,       \* slots: 1..n, the starts that may be under way or up at once
  Ports,          \* 1..n, the loopback ports the OS deals out
  MaxConcurrent,  \* the cap on heavy previews (AKIS_MAX_PREVIEWS, 2)
  MaxCode         \* bound: builds that leave new code, and verify boots, all told

ASSUME PreviewAssumption ==
  /\ None \notin Sessions /\ Verify \subseteq Sessions
  /\ IsFiniteSet(Sessions) /\ IsFiniteSet(Launches) /\ Launches # {}
  /\ Kinds \subseteq {"static", "heavy", "unsupported"}
  /\ MaxConcurrent \in Nat \ {0} /\ MaxCode \in Nat
  /\ Launches = 1..Cardinality(Launches) /\ Ports = 1..Cardinality(Ports)

VARIABLES
  entries,      \* what the registry tells of each session's preview
  owner,        \* launchToken: the launch that owns the session, or 0
  procs,        \* the launch whose child is tracked for the session, or 0
  reserved,     \* ports reserved in-process
  launches,     \* each launch's progress, child and locals
  inFlight,     \* sessions whose coordinator has a start under way
  pendingDone,  \* sessions with a done to serve once it returns
  code,         \* the version of each session's code; 0 before any
  shipped       \* history: the version the last done told of, unless a workspace failed

registry == <<entries, owner, procs, reserved>>
vars == <<registry, launches, inFlight, pendingDone, code, shipped>>

NoEntry == [status |-> "none", static |-> FALSE, port |-> 0, files |-> 0, launch |-> 0]
Free == [pc |-> "free", s |-> None, evict |-> FALSE, kind |-> "none", files |-> 0,
         port |-> 0, child |-> "none", answered |-> FALSE, end |-> "none"]

Init ==
  /\ entries = [s \in Sessions |-> NoEntry]
  /\ owner = [s \in Sessions |-> 0] /\ procs = [s \in Sessions |-> 0]
  /\ reserved = {}
  /\ launches = [l \in Launches |-> Free]
  /\ inFlight = {} /\ pendingDone = {}
  /\ code = [s \in Sessions |-> 0] /\ shipped = [s \in Sessions |-> 0]

-----------------------------------------------------------------------------
(* The registry's own notions                                              *)

Owns(l) == owner[launches[l].s] = l

\* A live preview that holds a dev server, or is about to.
CountsTowardCap(s) ==
  /\ entries[s].status \in {"starting", "ready"}
  /\ ~entries[s].static /\ s \notin Verify

AtCapacity == Cardinality({s \in Sessions : CountsTowardCap(s)}) >= MaxConcurrent

Set(s, e) == entries' = [entries EXCEPT ![s] = e]

\* The launches after a stop of session s: its tracked child is killed, and one that
\* was up is done with.
Stopped(ls, s) ==
  [l \in Launches |->
     IF l = entries[s].launch /\ ls[l].pc = "up" THEN Free
     ELSE IF l = procs[s] THEN [ls[l] EXCEPT !.child = "dead"]
     ELSE ls[l]]

\* stop(), beside what else the step does to the owners and the launches: the token moves on, the child is killed, the port of the entry is
\* released, and the entry, which keeps its port, is stopped.
Stop(s, ow, ls) ==
  /\ owner' = [ow EXCEPT ![s] = 0]
  /\ procs' = [procs EXCEPT ![s] = 0]
  /\ reserved' = reserved \ {entries[s].port}
  /\ launches' = Stopped(ls, s)
  /\ IF entries[s] = NoEntry
     THEN UNCHANGED entries
     ELSE Set(s, [entries[s] EXCEPT !.status = "stopped", !.launch = 0])

-----------------------------------------------------------------------------
(* The coordinator                                                         *)

\* A free slot is taken for a start of the session.
Begins(l, s, step) ==
  /\ launches[l].pc = "free" /\ \A k \in 1..(l-1) : launches[k].pc # "free"
  /\ launches' = [launches EXCEPT ![l] = step]
  /\ inFlight' = inFlight \cup {s}

Explicit(s) == [Free EXCEPT !.pc = "read", !.s = s, !.evict = TRUE]
Prewarm(s) == [Free EXCEPT !.pc = "read", !.s = s]
Restart(s) == [Free EXCEPT !.pc = "compare", !.s = s, !.files = entries[s].files]

\* POST /preview.  A start under way is joined: nothing changes.
Ask(s) ==
  /\ s \notin Verify /\ s \notin inFlight
  /\ \E l \in Launches : Begins(l, s, Explicit(s))
  /\ UNCHANGED <<registry, pendingDone, code, shipped>>

\* Mutant: a done that meets a start under way is dropped.
OnDoneDropped(s) ==
  /\ s \notin Verify /\ code[s] > 0
  /\ \/ s \in inFlight /\ UNCHANGED <<launches, inFlight>>
     \/ /\ s \notin inFlight /\ entries[s].status = "ready"
        /\ \E l \in Launches : Begins(l, s, Restart(s))
  /\ shipped' = [shipped EXCEPT ![s] = code[s]]
  /\ UNCHANGED <<registry, pendingDone, code>>

\* The session shipped: a start under way is followed by a restart, a live preview is
\* restarted, and without one it is warmed up, if there is room.
OnDone(s) ==
  /\ s \notin Verify /\ code[s] > 0
  /\ \/ /\ s \in inFlight
        /\ pendingDone' = pendingDone \cup {s}
        /\ UNCHANGED <<launches, inFlight>>
     \/ /\ s \notin inFlight /\ entries[s].status = "ready"
        /\ \E l \in Launches : Begins(l, s, Restart(s))
        /\ UNCHANGED pendingDone
     \/ /\ s \notin inFlight /\ entries[s].status \notin {"ready", "starting"} /\ ~AtCapacity
        /\ \E l \in Launches : Begins(l, s, Prewarm(s))
        /\ UNCHANGED pendingDone
  /\ shipped' = [shipped EXCEPT ![s] = code[s]]
  /\ UNCHANGED <<registry, code>>

\* The start under way has returned: one trailing restart serves the dones it met, if
\* the preview is still up.
Finally(s) ==
  /\ s \in inFlight
  /\ \A l \in Launches : launches[l].s = s => launches[l].pc \in {"free", "up"}
  /\ pendingDone' = pendingDone \ {s}
  /\ IF s \in pendingDone /\ entries[s].status = "ready"
     THEN \E l \in Launches : Begins(l, s, Restart(s))
     ELSE inFlight' = inFlight \ {s} /\ UNCHANGED launches
  /\ UNCHANGED <<registry, code, shipped>>

\* A restart whose bytes are those served already is skipped.
Compare(l) ==
  /\ launches[l].pc = "compare"
  /\ launches' = [launches EXCEPT ![l] =
       IF code[launches[l].s] = launches[l].files THEN Free ELSE Prewarm(launches[l].s)]
  /\ UNCHANGED <<registry, inFlight, pendingDone, code, shipped>>

\* The session's files are read, to be written to a workspace of the launch's own.
Read(l) ==
  /\ launches[l].pc = "read"
  /\ LET now == code[launches[l].s] IN
     IF now = 0
     THEN launches' = [launches EXCEPT ![l] = Free]
     ELSE \E k \in Kinds :
            launches' = [launches EXCEPT ![l].pc = "files", ![l].files = now, ![l].kind = k]
  /\ UNCHANGED <<registry, inFlight, pendingDone, code, shipped>>

\* The workspace cannot be written.
MaterializeFails(l) ==
  /\ launches[l].pc = "files"
  /\ launches' = [launches EXCEPT ![l] = Free]
  /\ shipped' = [shipped EXCEPT ![launches[l].s] = 0]
  /\ UNCHANGED <<registry, inFlight, pendingDone, code>>

-----------------------------------------------------------------------------
(* A launch                                                                *)

coordinator == <<inFlight, pendingDone, code, shipped>>

Gone(l) == [launches EXCEPT ![l] = Free]
At(l, pc) == [launches EXCEPT ![l].pc = pc]
Ending(l, end) ==
  [launches EXCEPT ![l] = [Free EXCEPT !.pc = "tearing", !.s = launches[l].s,
                                       !.port = launches[l].port, !.end = end]]

\* start(): the session's earlier preview is stopped first.
Begin(l) ==
  /\ launches[l].pc = "files"
  /\ Stop(launches[l].s, owner, At(l, "stopping"))
  /\ UNCHANGED coordinator

\* A verify boot, under a session id of its own.
VerifyBoot(s) ==
  /\ s \in Verify /\ entries[s].status \notin {"starting", "ready"} /\ SumFunction(code) < MaxCode
  /\ \A l \in Launches : launches[l].s = s => launches[l].pc = "free"
  /\ \E l \in Launches :
       /\ launches[l].pc = "free" /\ \A k \in 1..(l-1) : launches[k].pc # "free"
       /\ launches' = [launches EXCEPT ![l] = [Free EXCEPT !.pc = "files", !.s = s, !.kind = "heavy"]]
  /\ code' = [code EXCEPT ![s] = @ + 1]
  /\ UNCHANGED <<registry, inFlight, pendingDone, shipped>>

\* The launch registers as starting and goes on to install, unless the token moved
\* while it made room: then it stands down.
Register(l, ow) ==
  /\ owner' = ow
  /\ IF ow[launches[l].s] = l
     THEN /\ Set(launches[l].s, [NoEntry EXCEPT !.status = "starting", !.launch = l])
          /\ launches' = [launches EXCEPT ![l] =
               [Free EXCEPT !.pc = "install", !.s = launches[l].s, !.files = launches[l].files]]
     ELSE launches' = Gone(l) /\ UNCHANGED entries
  /\ UNCHANGED <<procs, reserved>>

\* Mutant: a start at the cap evicts one preview, and does not look again.
MakeRoomOnce(l, ow) ==
  IF launches[l].pc = "stopping" /\ AtCapacity /\ launches[l].s \notin Verify
  THEN \E s \in Sessions : CountsTowardCap(s) /\ Stop(s, ow, At(l, "evicting"))
  ELSE Register(l, ow)

\* Heavy previews are stopped, one after the other, until there is room: the code takes
\* the first its map lists, the model any.
MakeRoom(l, ow) ==
  IF AtCapacity /\ launches[l].s \notin Verify
  THEN \E s \in Sessions : CountsTowardCap(s) /\ Stop(s, ow, At(l, "evicting"))
  ELSE Register(l, ow)

\* The launch takes the token.  A static app is served at once; a background start is
\* declined at the cap.
Mint(l) ==
  /\ launches[l].pc = "stopping"
  /\ LET q == launches[l]
         ow == [owner EXCEPT ![q.s] = l]
         declined == ~q.evict /\ q.s \notin Verify /\ AtCapacity
     IN
     \/ /\ q.kind = "static"
        /\ owner' = ow
        /\ Set(q.s, [status |-> "ready", static |-> TRUE, port |-> 0, files |-> q.files,
                     launch |-> l])
        /\ launches' = [launches EXCEPT ![l] = [Free EXCEPT !.pc = "up", !.s = q.s]]
        /\ UNCHANGED <<procs, reserved>>
     \/ /\ q.kind = "unsupported" \/ (q.kind = "heavy" /\ declined)
        /\ owner' = ow
        /\ launches' = Ending(l, IF q.kind = "heavy" THEN "stopped" ELSE "unsupported")
        /\ UNCHANGED <<entries, procs, reserved>>
     \/ q.kind = "heavy" /\ ~declined /\ MakeRoom(l, ow)
  /\ UNCHANGED coordinator

Evicted(l) ==
  /\ launches[l].pc = "evicting"
  /\ MakeRoom(l, owner)
  /\ UNCHANGED coordinator

\* The install preflight and the install, which may fail or run out of time.
Install(l) ==
  /\ launches[l].pc = "install"
  /\ launches' \in {At(l, "allocate"), Ending(l, "failed")}
  /\ UNCHANGED <<registry, coordinator>>

OsFree(p) ==
  \A l \in Launches : ~(launches[l].child = "listening" /\ launches[l].port = p)

\* Mutant: a child is tracked once it is ready.
SpawnUntracked(l, p) ==
  IF Owns(l)
  THEN /\ reserved' = reserved \cup {p}
       /\ launches' = [launches EXCEPT ![l].pc = "probe", ![l].port = p, ![l].child = "booting"]
       /\ UNCHANGED procs
  ELSE /\ reserved' = reserved \ {p}
       /\ launches' = Gone(l)
       /\ UNCHANGED procs

\* The port is reserved and the child spawned; a launch that lost the token releases
\* it and stands down.
Spawn(l, p) ==
  IF Owns(l)
  THEN /\ reserved' = reserved \cup {p}
       /\ launches' = [launches EXCEPT ![l].pc = "probe", ![l].port = p, ![l].child = "booting"]
       /\ procs' = [procs EXCEPT ![launches[l].s] = l]
  ELSE /\ reserved' = reserved \ {p}
       /\ launches' = Gone(l)
       /\ UNCHANGED procs

\* allocatePort: a port the OS has free, or the next one not reserved, which is tried
\* for being free before it is reserved.
Allocate(l) ==
  /\ launches[l].pc = "allocate"
  /\ \E o \in Ports :
       /\ OsFree(o)
       /\ \/ o \notin reserved /\ Spawn(l, o)
          \/ \E p \in Ports \ reserved :
               /\ o < p /\ o..(p-1) \subseteq reserved
               /\ launches' = [launches EXCEPT ![l].pc = "bindable", ![l].port = p]
               /\ UNCHANGED <<procs, reserved>>
  /\ UNCHANGED <<entries, owner, coordinator>>

Bindable(l) ==
  /\ launches[l].pc = "bindable"
  /\ IF OsFree(launches[l].port)
     THEN Spawn(l, launches[l].port)
     ELSE /\ launches' = [launches EXCEPT ![l].pc = "allocate", ![l].port = 0]
          /\ UNCHANGED <<procs, reserved>>
  /\ UNCHANGED <<entries, owner, coordinator>>

\* The child binds its port, or finds it taken and exits; or it exits by itself.
Listen(l) ==
  /\ launches[l].child = "booting"
  /\ launches' = [launches EXCEPT ![l].child =
                    IF OsFree(launches[l].port) THEN "listening" ELSE "dead"]
  /\ UNCHANGED <<registry, coordinator>>

Die(l) ==
  /\ launches[l].pc = "probe" /\ launches[l].child \in {"booting", "listening"}
  /\ launches' = [launches EXCEPT ![l].child = "dead"]
  /\ UNCHANGED <<registry, coordinator>>

\* Something that listens on the port answers the probe.
Answer(l) ==
  /\ launches[l].pc = "probe" /\ ~OsFree(launches[l].port)
  /\ launches' = [launches EXCEPT ![l].answered = TRUE]
  /\ UNCHANGED <<registry, coordinator>>

\* Mutant: the token is not looked at again after a probe that succeeded.
ReadyAnyway(l) ==
  LET q == launches[l] IN
  /\ q.pc = "probe" /\ q.answered
  /\ Set(q.s, [status |-> "ready", static |-> FALSE, port |-> q.port, files |-> q.files,
               launch |-> l])
  /\ launches' = [launches EXCEPT ![l] =
       [Free EXCEPT !.pc = "up", !.s = q.s, !.port = q.port, !.child = q.child]]
  /\ UNCHANGED <<owner, procs, reserved, coordinator>>

\* The probe succeeded: the preview is ready, and its child watched from here on.
Ready(l) ==
  LET q == launches[l] IN
  /\ q.pc = "probe" /\ q.answered /\ Owns(l)
  /\ Set(q.s, [status |-> "ready", static |-> FALSE, port |-> q.port, files |-> q.files,
               launch |-> l])
  /\ launches' = [launches EXCEPT ![l] =
       [Free EXCEPT !.pc = "up", !.s = q.s, !.port = q.port, !.child = q.child]]
  /\ UNCHANGED <<owner, procs, reserved, coordinator>>

\* A launch that lost the token ends what is its own: its child and its port.
StandDown(l) ==
  /\ launches[l].pc = "probe" /\ ~Owns(l)
  /\ reserved' = reserved \ {launches[l].port}
  /\ launches' = Gone(l)
  /\ UNCHANGED <<entries, owner, procs, coordinator>>

\* The child exited before it was ready, or the probes ran out of time.
GiveUp(l) ==
  /\ launches[l].pc = "probe"
  /\ reserved' = reserved \ {launches[l].port}
  /\ launches' = Ending(l, "failed")
  /\ UNCHANGED <<entries, owner, procs, coordinator>>

\* The workspace is gone, and the launch's end is recorded if it still owns the
\* session.
Settle(l) ==
  LET q == launches[l] IN
  /\ q.pc = "tearing"
  /\ launches' = Gone(l)
  /\ IF Owns(l)
     THEN /\ Set(q.s, [NoEntry EXCEPT !.status = q.end, !.port = q.port])
          /\ procs' = [procs EXCEPT ![q.s] = 0]
     ELSE UNCHANGED <<entries, procs>>
  /\ UNCHANGED <<owner, reserved, coordinator>>

\* A ready preview's child exits: its launch still owns the session.
Crash(l) ==
  LET q == launches[l] IN
  /\ q.pc = "up" /\ q.child \in {"booting", "listening"}
  /\ Owns(l) /\ entries[q.s].status = "ready" /\ entries[q.s].port = q.port
  /\ reserved' = reserved \ {q.port}
  /\ procs' = [procs EXCEPT ![q.s] = 0]
  /\ launches' = Gone(l)
  /\ Set(q.s, [NoEntry EXCEPT !.status = "failed", !.port = q.port])
  /\ UNCHANGED <<owner, coordinator>>

-----------------------------------------------------------------------------
(* The users, the builds and the verifier                                  *)

\* DELETE /preview, and the verifier's teardown of what it booted.
StopPreview(s) ==
  /\ s \in Verify => entries[s].status = "ready"
  /\ Stop(s, owner, launches)
  /\ UNCHANGED coordinator

\* A build leaves new code on the session.
Rebuild(s) ==
  /\ s \notin Verify /\ SumFunction(code) < MaxCode
  /\ code' = [code EXCEPT ![s] = @ + 1]
  /\ UNCHANGED <<registry, launches, inFlight, pendingDone, shipped>>

\* A launch's steps that wait for nobody.
Advance(l) ==
  \/ Compare(l) \/ Read(l) \/ Begin(l) \/ Mint(l) \/ Evicted(l) \/ Install(l)
  \/ Allocate(l) \/ Bindable(l) \/ Ready(l) \/ StandDown(l) \/ GiveUp(l) \/ Settle(l)

Next ==
  \/ \E l \in Launches :
       \/ Advance(l)
       \/ MaterializeFails(l) \/ Listen(l) \/ Die(l) \/ Answer(l) \/ Crash(l)
  \/ \E s \in Sessions :
       \/ Ask(s) \/ OnDone(s) \/ Finally(s) \/ VerifyBoot(s) \/ StopPreview(s) \/ Rebuild(s)

Spec == Init /\ [][Next]_vars

-----------------------------------------------------------------------------
(* Properties                                                              *)

\* The heavy previews stay within the cap through every race of starts and evictions.
CapHolds == Cardinality({s \in Sessions : CountsTowardCap(s)}) <= MaxConcurrent

\* No dev server runs that a stop of its session, or the shutdown, would not find and
\* kill: one launch never untracks the child of another.
ChildrenAreTracked ==
  \A l \in Launches :
    launches[l].child \in {"booting", "listening"} => procs[launches[l].s] = l

\* An entry that says starting or ready is backed by the launch that owns the session,
\* at that stage: a superseded launch never overwrites it, nor a stop, and none is left
\* without the launch that would move it on.
LiveIsOwned ==
  \A s \in Sessions :
    entries[s].status \in {"starting", "ready"} =>
      LET l == owner[s] IN
      /\ l # 0 /\ entries[s].launch = l /\ launches[l].s = s
      /\ entries[s].status = "ready" <=> launches[l].pc = "up"

\* Once no start is under way, a ready preview serves the code that last shipped, or
\* newer, however the dones met the starts.
ServesShipped ==
  \A s \in Sessions \ inFlight :
    entries[s].status = "ready" => entries[s].files >= shipped[s]

\* Two children that may run at once never have the same port.
PortsAreExclusive ==
  \A k, l \in Launches :
    /\ launches[k].child \in {"booting", "listening"}
    /\ launches[l].child \in {"booting", "listening"}
    /\ launches[k].port = launches[l].port
    => k = l

=============================================================================
