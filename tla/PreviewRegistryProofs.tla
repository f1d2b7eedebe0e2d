------------------------ MODULE PreviewRegistryProofs ------------------------
(***************************************************************************)
(* That the registry's entries, tokens and children agree, that the cap on *)
(* heavy previews holds, and that what is served is what last shipped, for *)
(* any number of sessions, launches, ports and builds.                     *)
(***************************************************************************)
EXTENDS PreviewRegistry, FiniteSetTheorems, TLAPS

\* A start under way reads the session's files, then takes the session over; past the
\* stop of its earlier preview, it is the only launch the session has.
Stages == {"free", "read", "compare", "files", "stopping", "evicting", "install", "allocate",
           "bindable", "probe", "up", "tearing"}
Reading == {"read", "compare", "files"}
Launching == {"install", "allocate", "bindable", "probe"}
Past == {"stopping", "evicting", "tearing"} \cup Launching
Busy == Reading \cup Past
Slots == Launches \cup {0}
Alive == {"booting", "listening"}

LaunchRecords ==
  [pc : Stages, s : Sessions \cup {None}, evict : BOOLEAN,
   kind : Kinds \cup {"none", "heavy"}, files : Nat, port : Ports \cup {0},
   child : Alive \cup {"none", "dead"}, answered : BOOLEAN,
   end : {"none", "stopped", "unsupported", "failed"}]

Entries ==
  [status : {"none", "starting", "ready", "stopped", "unsupported", "failed"},
   static : BOOLEAN, port : Ports \cup {0}, files : Nat, launch : Slots]

Types ==
  /\ entries \in [Sessions -> Entries]
  /\ owner \in [Sessions -> Slots] /\ procs \in [Sessions -> Slots]
  /\ launches \in [Launches -> LaunchRecords]
  /\ inFlight \subseteq Sessions \ Verify /\ pendingDone \subseteq inFlight
  /\ code \in [Sessions -> Nat] /\ shipped \in [Sessions -> Nat]

Live(s) == entries[s].status \in {"starting", "ready"}

\* What a launch may rely on: its child is tracked, an up one is what the entry tells
\* of, one that still owns its session has registered, and one that is busy is its
\* session's start under way.
LaunchHolds(l) ==
  LET q == launches[l] IN
  /\ q.pc # "free" => q.s \in Sessions
  /\ q.child \in Alive => q.pc \in {"probe", "up"} /\ procs[q.s] = l
  /\ q.pc = "up" => /\ owner[q.s] = l
                    /\ entries[q.s].status = "ready" /\ entries[q.s].launch = l
  /\ q.pc \in Launching /\ owner[q.s] = l =>
       /\ entries[q.s].status = "starting" /\ ~entries[q.s].static
       /\ entries[q.s].launch = l
  /\ q.pc \in Busy /\ q.s \notin Verify => q.s \in inFlight

\* A session has one start under way at most, and none is past the stop of the session's
\* earlier preview while that one is up.
PairHolds(k, l) ==
  k # l /\ launches[k].s = launches[l].s =>
    /\ ~(launches[k].pc \in Busy /\ launches[l].pc \in Busy)
    /\ ~(launches[k].pc \in Past /\ launches[l].pc = "up")

\* A live entry has the launch that owns the session behind it, at its stage; no other
\* entry names a launch.
SessionHolds(s) ==
  /\ Live(s) =>
       LET l == owner[s] IN
       /\ l # 0 /\ entries[s].launch = l /\ launches[l].s = s
       /\ entries[s].status = "ready" => launches[l].pc = "up"
       /\ entries[s].status = "starting" => launches[l].pc \in Launching \cup {"tearing"}
  /\ ~Live(s) => entries[s].launch = 0

Placed ==
  /\ \A l \in Launches : LaunchHolds(l)
  /\ \A k, l \in Launches : PairHolds(k, l)
  /\ \A s \in Sessions : SessionHolds(s)

-----------------------------------------------------------------------------

LEMMA LaunchesAreNumbers == 0 \notin Launches
<1>1. Cardinality(Launches) \in Nat
  BY PreviewAssumption, FS_CardinalityType
<1> QED
  BY <1>1, PreviewAssumption

LEMMA InitHolds == Init => Types /\ Placed
<1> SUFFICES ASSUME Init PROVE Types /\ Placed
  OBVIOUS
<1>1. Types
  BY DEF Init, Types, NoEntry, Free, Entries, LaunchRecords, Slots, Stages, Alive
<1>2. /\ \A l \in Launches : launches[l].pc = "free" /\ launches[l].child = "none"
      /\ \A s \in Sessions : entries[s].status = "none" /\ entries[s].launch = 0
  BY DEF Init, NoEntry, Free
<1>3. Placed
  BY <1>2 DEF Placed, LaunchHolds, PairHolds, SessionHolds, Live, Alive, Launching, Busy,
              Reading, Past
<1> QED
  BY <1>1, <1>3

-----------------------------------------------------------------------------
(* The three kinds of step                                                 *)

\* A launch that owns its session, and is up, or past the stop of the earlier preview,
\* shares the session with launches that only read.
LEMMA OthersOnlyRead ==
  ASSUME Types, Placed, NEW l \in Launches, launches[l].pc \in Past \cup {"up"},
         NEW k \in Launches, k # l, launches[k].s = launches[l].s
  PROVE  /\ launches[k].pc \in Reading \cup {"free"}
         /\ launches[l].pc \in Past => launches[k].pc = "free"
<1>1. PairHolds(k, l) /\ PairHolds(l, k) /\ LaunchHolds(k) /\ LaunchHolds(l)
  BY DEF Placed
<1>2. launches[k].pc \in Stages
  BY DEF Types, LaunchRecords
<1>3. ~(launches[k].pc = "up" /\ launches[l].pc = "up")
  BY <1>1 DEF LaunchHolds
<1> QED
  BY <1>1, <1>2, <1>3 DEF PairHolds, Stages, Past, Busy, Launching, Reading

\* A launch moves on, or a free slot is taken, and the registry stays as it is.
LEMMA LocalStep ==
  ASSUME Types, Placed, NEW l \in Launches, NEW q \in LaunchRecords,
         launches' = [launches EXCEPT ![l] = q], UNCHANGED <<entries, owner, procs>>,
         inFlight \subseteq inFlight', LaunchHolds(l)',
         \/ q.pc = "free"
         \/ /\ q.s = launches[l].s
            /\ q.pc \in Busy => launches[l].pc \in Busy
            /\ q.pc \in Past => launches[l].pc \in Past
            /\ q.pc = "up" => launches[l].pc = "up"
         \/ /\ q.pc \in Reading
            /\ \A k \in Launches : launches[k].s = q.s => launches[k].pc \notin Busy,
         launches[l].pc \in Launching \cup {"tearing", "up"} /\ owner[launches[l].s] = l =>
           /\ q.s = launches[l].s
           /\ launches[l].pc = "up" => q.pc = "up"
           /\ launches[l].pc # "up" => q.pc \in Launching \cup {"tearing"}
  PROVE  Placed'
<1>1. launches'[l] = q /\ \A k \in Launches \ {l} : launches'[k] = launches[k]
  BY DEF Types
<1>2. \A k \in Launches : LaunchHolds(k)'
  <2> SUFFICES ASSUME NEW k \in Launches, k # l PROVE LaunchHolds(k)'
    OBVIOUS
  <2>1. LaunchHolds(k) /\ launches'[k] = launches[k]
    BY <1>1 DEF Placed
  <2> QED
    BY <2>1 DEF LaunchHolds
<1>3. \A j, k \in Launches : PairHolds(j, k)'
  <2> SUFFICES ASSUME NEW k \in Launches, k # l PROVE PairHolds(l, k)' /\ PairHolds(k, l)'
    BY <1>1 DEF Placed, PairHolds
  <2>1. PairHolds(l, k) /\ PairHolds(k, l) /\ launches'[k] = launches[k] /\ launches'[l] = q
    BY <1>1 DEF Placed
  <2> QED
    BY <2>1 DEF PairHolds, Reading, Busy, Past, Launching
<1>4. \A s \in Sessions : SessionHolds(s)'
  <2> SUFFICES ASSUME NEW s \in Sessions PROVE SessionHolds(s)'
    OBVIOUS
  <2>1. SessionHolds(s)
    BY DEF Placed
  <2>2. CASE ~Live(s)
    BY <2>1, <2>2 DEF SessionHolds, Live
  <2>3. CASE Live(s) /\ owner[s] # l
    <3>1. owner[s] \in Launches
      BY <2>1, <2>3 DEF SessionHolds, Types, Slots
    <3>2. launches'[owner[s]] = launches[owner[s]]
      BY <1>1, <2>3, <3>1
    <3> QED
      BY <2>1, <2>3, <3>2 DEF SessionHolds, Live
  <2>4. CASE Live(s) /\ owner[s] = l
    BY <1>1, <2>1, <2>4 DEF SessionHolds, Live
  <2> QED
    BY <2>2, <2>3, <2>4
<1> QED
  BY <1>2, <1>3, <1>4 DEF Placed

\* A launch past the stop, or an up one, writes its session's part of the registry.
LEMMA OwnStep ==
  ASSUME Types, Placed, NEW l \in Launches, NEW q \in LaunchRecords,
         NEW o \in Sessions, o = launches[l].s, launches[l].pc \in Past \cup {"up"},
         launches' = [launches EXCEPT ![l] = q],
         \A t \in Sessions \ {o} :
           entries'[t] = entries[t] /\ owner'[t] = owner[t] /\ procs'[t] = procs[t],
         inFlight \subseteq inFlight',
         q.pc # "free" => q.s = o,
         q.pc \in Busy => launches[l].pc \in Past,
         q.pc # "free" => q.pc \in Past \cup {"up"},
         LaunchHolds(l)', SessionHolds(o)'
  PROVE  Placed'
<1>1. launches'[l] = q /\ \A k \in Launches \ {l} : launches'[k] = launches[k]
  BY DEF Types
<1>2. \A k \in Launches \ {l} : launches[k].s = launches[l].s =>
        /\ launches[k].pc \in Reading \cup {"free"}
        /\ launches[l].pc \in Past => launches[k].pc = "free"
  BY OthersOnlyRead
<1>3. \A k \in Launches : LaunchHolds(k)'
  <2> SUFFICES ASSUME NEW k \in Launches, k # l PROVE LaunchHolds(k)'
    OBVIOUS
  <2>1. LaunchHolds(k) /\ launches'[k] = launches[k]
    BY <1>1 DEF Placed
  <2>2. CASE launches[k].s = launches[l].s
    <3>1. launches[k].pc \in Reading \cup {"free"}
      BY <1>2, <2>2
    <3> QED
      BY <2>1, <3>1 DEF LaunchHolds, Reading, Launching, Busy, Past
  <2>3. CASE launches[k].s # launches[l].s
    <3>1. launches[k].pc # "free" =>
            /\ entries'[launches[k].s] = entries[launches[k].s]
            /\ owner'[launches[k].s] = owner[launches[k].s]
            /\ procs'[launches[k].s] = procs[launches[k].s]
      BY <2>1, <2>3 DEF LaunchHolds
    <3> QED
      BY <2>1, <3>1 DEF LaunchHolds, Launching, Busy, Reading, Past
  <2> QED
    BY <2>2, <2>3
<1>4. \A j, k \in Launches : PairHolds(j, k)'
  <2> SUFFICES ASSUME NEW k \in Launches, k # l PROVE PairHolds(l, k)' /\ PairHolds(k, l)'
    BY <1>1 DEF Placed, PairHolds
  <2>1. launches'[k] = launches[k] /\ launches'[l] = q
    BY <1>1
  <2> QED
    BY <1>2, <2>1 DEF PairHolds, Reading, Busy, Past, Launching
<1>5. \A s \in Sessions : SessionHolds(s)'
  <2> SUFFICES ASSUME NEW s \in Sessions, s # o PROVE SessionHolds(s)'
    OBVIOUS
  <2>1. SessionHolds(s) /\ entries'[s] = entries[s] /\ owner'[s] = owner[s]
    BY DEF Placed
  <2>2. CASE ~Live(s)
    BY <2>1, <2>2 DEF SessionHolds, Live
  <2>3. CASE Live(s)
    <3>1. owner[s] \in Launches /\ launches[owner[s]].s = s
      BY <2>1, <2>3 DEF SessionHolds, Types, Slots
    <3>2. launches'[owner[s]] = launches[owner[s]]
      BY <1>1, <3>1
    <3> QED
      BY <2>1, <2>3, <3>2 DEF SessionHolds, Live
  <2> QED
    BY <2>2, <2>3
<1> QED
  BY <1>3, <1>4, <1>5 DEF Placed

\* A stop of session s, beside a launch that takes its own session past its stop, or
\* that makes room for it by stopping another's.
LEMMA StopStep ==
  ASSUME Types, Placed, NEW s \in Sessions, NEW l \in Launches, NEW q \in LaunchRecords,
         NEW ow \in [Sessions -> Slots], NEW ls, ls = [launches EXCEPT ![l] = q],
         Stop(s, ow, ls), UNCHANGED inFlight,
         q.s = launches[l].s, q.child = launches[l].child,
         \/ q.pc = launches[l].pc /\ ow = owner
         \/ q.pc = "stopping" /\ launches[l].pc = "files" /\ launches[l].s = s /\ ow = owner
         \/ /\ q.pc = "evicting" /\ launches[l].pc \in {"stopping", "evicting"} /\ Live(s)
            /\ \A t \in Sessions \ {q.s} : ow[t] = owner[t]
  PROVE  Placed'
<1>1. /\ ls[l] = q /\ \A k \in Launches \ {l} : ls[k] = launches[k]
      /\ ls \in [Launches -> LaunchRecords]
  BY DEF Types
<1>2. \A k \in Launches :
        launches'[k] = IF k = entries[s].launch /\ ls[k].pc = "up" THEN Free
                       ELSE IF k = procs[s] THEN [ls[k] EXCEPT !.child = "dead"]
                       ELSE ls[k]
  BY DEF Stop, Stopped
<1>3. \A k \in Launches :
        \/ launches'[k] = Free /\ k = entries[s].launch /\ ls[k].pc = "up"
        \/ /\ launches'[k].pc = ls[k].pc /\ launches'[k].s = ls[k].s
           /\ launches'[k].child \in Alive => k # procs[s] /\ ls[k].child \in Alive
  <2> SUFFICES ASSUME NEW k \in Launches, ~(k = entries[s].launch /\ ls[k].pc = "up")
               PROVE  /\ launches'[k].pc = ls[k].pc /\ launches'[k].s = ls[k].s
                      /\ launches'[k].child \in Alive => k # procs[s] /\ ls[k].child \in Alive
    BY <1>2
  <2>1. ls[k] \in LaunchRecords
    BY <1>1
  <2>2. CASE k = procs[s]
    <3>1. launches'[k] = [ls[k] EXCEPT !.child = "dead"]
      BY <1>2, <2>2
    <3> QED
      BY <2>1, <3>1 DEF LaunchRecords, Alive
  <2>3. CASE k # procs[s]
    BY <1>2, <2>3
  <2> QED
    BY <2>2, <2>3
<1>4. Free.pc = "free" /\ Free.child = "none"
  BY DEF Free
<1>5. \A k \in Launches : ls[k].s = launches[k].s /\ ls[k].child = launches[k].child
  BY <1>1
<1>6. \A k \in Launches \ {l} : ls[k].pc = launches[k].pc
  BY <1>1
<1>7. /\ owner' = [ow EXCEPT ![s] = 0] /\ procs' = [procs EXCEPT ![s] = 0]
      /\ \A t \in Sessions \ {s} : entries'[t] = entries[t]
      /\ entries'[s].launch = 0 /\ entries'[s].status \notin {"starting", "ready"}
  <2>1. entries[s] = NoEntry => entries[s].launch = 0 /\ entries[s].status = "none"
    BY DEF NoEntry
  <2>2. entries[s] # NoEntry => entries' = [entries EXCEPT ![s] =
                                   [entries[s] EXCEPT !.status = "stopped", !.launch = 0]]
    BY DEF Stop, Set
  <2>3. entries[s] \in Entries /\ entries \in [Sessions -> Entries]
    BY DEF Types
  <2>4. CASE entries[s] = NoEntry
    BY <2>1, <2>4 DEF Stop
  <2>5. CASE entries[s] # NoEntry
    <3> DEFINE e == [entries[s] EXCEPT !.status = "stopped", !.launch = 0]
    <3>1. e.status = "stopped" /\ e.launch = 0
      BY <2>3 DEF Entries
    <3> HIDE DEF e
    <3>2. entries'[s] = e /\ \A t \in Sessions \ {s} : entries'[t] = entries[t]
      BY <2>2, <2>3, <2>5 DEF e
    <3> QED
      BY <3>1, <3>2 DEF Stop
  <2> QED
    BY <2>4, <2>5
<1>8. /\ owner'[s] = 0 /\ procs'[s] = 0
      /\ \A t \in Sessions \ {s} : owner'[t] = ow[t] /\ procs'[t] = procs[t]
  BY <1>7 DEF Types
\* Off the stopped session, only the launch that makes room may change an owner.
<1>9. \A t \in Sessions \ {s} : owner'[t] = owner[t] \/ (q.pc = "evicting" /\ t = q.s)
  BY <1>8
<1>10. \A k \in Launches : /\ LaunchHolds(k) /\ PairHolds(k, l) /\ PairHolds(l, k)
                           /\ launches[k].pc \in Stages
  BY DEF Placed, Types, LaunchRecords
\* None but l is in the session for which room is made.
<1>11. q.pc = "evicting" =>
         \A k \in Launches \ {l} : launches[k].s = q.s => launches[k].pc \notin Busy \cup {"up"}
  <2>1. q.pc = "evicting" => launches[l].pc \in Past
    BY <1>10 DEF Past
  <2> QED
    BY <1>10, <2>1 DEF PairHolds, Busy
<1>12. \A k \in Launches : launches[k].pc = "up" /\ launches[k].s = s => launches'[k] = Free
  <2> SUFFICES ASSUME NEW k \in Launches, launches[k].pc = "up", launches[k].s = s
               PROVE  launches'[k] = Free
    OBVIOUS
  <2>1. k = entries[s].launch /\ ls[k].pc = "up"
    BY <1>1, <1>10 DEF LaunchHolds
  <2> QED
    BY <1>2, <2>1
<1>13. 0 \notin Launches
  BY LaunchesAreNumbers
<1>14. \A k \in Launches : LaunchHolds(k)'
  <2> SUFFICES ASSUME NEW k \in Launches, launches'[k].pc = ls[k].pc, launches'[k].s = ls[k].s,
                      launches'[k].child \in Alive => k # procs[s] /\ ls[k].child \in Alive
               PROVE  LaunchHolds(k)'
    BY <1>3, <1>4 DEF LaunchHolds, Launching, Busy, Reading, Past, Alive
  <2> DEFINE t == launches[k].s
  <2>1. launches'[k].s = t /\ LaunchHolds(k)
    BY <1>5, <1>10
  <2>2. launches'[k].pc # "free" => t \in Sessions
    BY <1>1, <2>1 DEF LaunchHolds
  <2>3. launches'[k].child \in Alive =>
          launches'[k].pc \in {"probe", "up"} /\ procs'[t] = k
    <3> SUFFICES ASSUME launches'[k].child \in Alive
                 PROVE  launches'[k].pc \in {"probe", "up"} /\ procs'[t] = k
      OBVIOUS
    <3>1. launches[k].child \in Alive /\ k # procs[s]
      BY <1>5
    <3>2. launches[k].pc \in {"probe", "up"} /\ procs[t] = k
      BY <2>1, <3>1 DEF LaunchHolds
    <3>3. launches'[k].pc = launches[k].pc
      BY <1>1, <3>2
    <3>4. t \in Sessions /\ t # s
      BY <2>1, <3>1, <3>2 DEF LaunchHolds
    <3> QED
      BY <1>8, <3>2, <3>3, <3>4
  <2>4. launches'[k].pc \in Launching \cup {"up"} => launches'[k].pc = launches[k].pc
    BY <1>1 DEF Launching
  <2>5. launches'[k].pc \in Launching \cup {"up"} /\ t # s =>
          /\ t \in Sessions /\ entries'[t] = entries[t] /\ owner'[t] = owner[t]
    <3> SUFFICES ASSUME launches'[k].pc \in Launching \cup {"up"}, t # s
                 PROVE  t \in Sessions /\ entries'[t] = entries[t] /\ owner'[t] = owner[t]
      OBVIOUS
    <3>1. t \in Sessions
      BY <2>2 DEF Launching
    <3>2. CASE q.pc = "evicting" /\ t = q.s
      <4>1. k = l
        BY <1>11, <2>4, <3>2 DEF Busy, Past
      <4> QED
        BY <1>1, <3>2, <4>1 DEF Launching
    <3> QED
      BY <1>7, <1>9, <3>1, <3>2
  <2>6. launches'[k].pc = "up" => t # s
    BY <1>4, <1>12, <2>4
  <2>7. launches'[k].pc \in Launching /\ owner'[t] = k => t # s
    BY <1>8, <1>13
  <2>8. launches'[k].pc \in Busy /\ t \notin Verify => t \in inFlight
    <3>1. launches'[k].pc \in Busy => launches[k].pc \in Busy
      BY <1>1 DEF Busy, Reading, Past
    <3> QED
      BY <2>1, <3>1 DEF LaunchHolds
  <2> QED
    BY <2>1, <2>2, <2>3, <2>4, <2>5, <2>6, <2>7, <2>8 DEF LaunchHolds
<1>15. \A j, k \in Launches : PairHolds(j, k)'
  <2> SUFFICES ASSUME NEW j \in Launches, NEW k \in Launches, j # k,
                      launches'[j].s = launches'[k].s,
                      launches'[j].pc # "free", launches'[k].pc # "free"
               PROVE  /\ ~(launches'[j].pc \in Busy /\ launches'[k].pc \in Busy)
                      /\ ~(launches'[j].pc \in Past /\ launches'[k].pc = "up")
    BY DEF PairHolds, Busy, Reading, Past, Launching
  <2>1. \A i \in {j, k} : launches'[i].pc = ls[i].pc /\ launches'[i].s = launches[i].s
    BY <1>3, <1>4, <1>5
  <2>2. PairHolds(j, k) /\ launches[j].s = launches[k].s
    BY <2>1 DEF Placed
  <2>3. \A i \in {j, k} : /\ launches'[i].pc \in Busy => launches[i].pc \in Busy
                          /\ launches'[i].pc = "up" => launches[i].pc = "up"
                          /\ launches'[i].pc \in Past =>
                               launches[i].pc \in Past \/ (i = l /\ launches[l].s = s)
    BY <1>1, <2>1 DEF Busy, Reading, Past
  <2>4. launches'[k].pc = "up" => launches[k].s # s
    BY <1>4, <1>12, <2>3
  <2> QED
    BY <2>2, <2>3, <2>4 DEF PairHolds
<1>16. \A t \in Sessions : SessionHolds(t)'
  <2> SUFFICES ASSUME NEW t \in Sessions PROVE SessionHolds(t)'
    OBVIOUS
  <2>1. SessionHolds(t) /\ SessionHolds(s)
    BY DEF Placed
  <2>2. CASE t = s
    BY <1>7, <2>2 DEF SessionHolds, Live
  <2>3. CASE t # s /\ ~Live(t)
    BY <1>7, <2>1, <2>3 DEF SessionHolds, Live
  <2>4. CASE t # s /\ Live(t)
    <3> DEFINE k == owner[t]
    <3>1. k \in Launches /\ entries[t].launch = k /\ launches[k].s = t
      BY <2>1, <2>4 DEF SessionHolds, Types, Slots
    <3>2. launches[k].pc \in Launching \cup {"tearing", "up"}
      BY <2>1, <2>4 DEF SessionHolds, Live
    <3>3. ls[k].pc = launches[k].pc
      BY <1>1, <3>2 DEF Launching
    <3>4. k # entries[s].launch
      <4>1. entries[s].launch = k => launches[k].s = s
        BY <1>13, <2>1, <3>1 DEF SessionHolds
      <4> QED
        BY <2>4, <3>1, <4>1
    <3>5. launches'[k].pc = launches[k].pc /\ launches'[k].s = t
      BY <1>3, <1>5, <3>1, <3>3, <3>4
    <3>6. owner'[t] = k
      <4>1. CASE q.pc = "evicting" /\ t = q.s
        <5>1. k = l
          BY <1>11, <3>1, <3>2, <4>1 DEF Busy, Past
        <5> QED
          BY <1>1, <3>2, <3>3, <4>1, <5>1 DEF Launching
      <4> QED
        BY <1>9, <2>4, <4>1
    <3> HIDE DEF k
    <3> QED
      BY <1>7, <1>13, <2>1, <2>4, <3>1, <3>5, <3>6 DEF SessionHolds, Live, k
  <2> QED
    BY <2>2, <2>3, <2>4
<1> QED
  BY <1>14, <1>15, <1>16 DEF Placed

-----------------------------------------------------------------------------
(* The coordinator's steps                                                 *)

\* A session without a start under way has no busy launch.
LEMMA NoneIsBusy ==
  ASSUME Types, Placed, NEW s \in Sessions \ Verify, s \notin inFlight,
         NEW k \in Launches, launches[k].s = s
  PROVE  launches[k].pc \notin Busy
BY DEF Placed, LaunchHolds

LEMMA BeginsStep ==
  ASSUME Types, Placed, NEW s \in Sessions, NEW l \in Launches, NEW q \in LaunchRecords,
         q.pc \in Reading, q.s = s, q.child = "none", launches[l].pc = "free",
         launches' = [launches EXCEPT ![l] = q], s \notin Verify => s \in inFlight',
         inFlight \subseteq inFlight', UNCHANGED <<entries, owner, procs>>,
         \A k \in Launches : launches[k].s = s => launches[k].pc \notin Busy
  PROVE  Placed'
<1>1. launches'[l] = q
  BY DEF Types
<1>2. LaunchHolds(l)'
  BY <1>1 DEF LaunchHolds, Reading, Launching, Busy, Alive
<1> QED
  BY <1>2, LocalStep DEF Launching

\* The records a start begins with.
LEMMA FirstRecords ==
  ASSUME Types, NEW s \in Sessions, NEW q \in {Explicit(s), Prewarm(s), Restart(s)}
  PROVE  q \in LaunchRecords /\ q.pc \in Reading /\ q.s = s /\ q.child = "none"
<1>1. entries[s].files \in Nat
  BY DEF Types, Entries
<1>2. Explicit(s) \in LaunchRecords /\ Prewarm(s) \in LaunchRecords /\ Restart(s) \in LaunchRecords
  BY <1>1 DEF Explicit, Prewarm, Restart, Free, LaunchRecords, Stages, Alive
<1> QED
  BY <1>2 DEF Explicit, Prewarm, Restart, Free, Reading

LEMMA RegistryStands ==
  ASSUME Placed, UNCHANGED <<entries, owner, procs, launches>>, inFlight \subseteq inFlight'
  PROVE  Placed'
<1>1. \A l \in Launches : LaunchHolds(l)'
  BY DEF Placed, LaunchHolds
<1>2. \A k, l \in Launches : PairHolds(k, l)'
  BY DEF Placed, PairHolds
<1>3. \A s \in Sessions : SessionHolds(s)'
  BY DEF Placed, SessionHolds, Live
<1> QED
  BY <1>1, <1>2, <1>3 DEF Placed

LEMMA AskKeeps ==
  ASSUME Types, Placed, NEW s \in Sessions, Ask(s)
  PROVE  Placed'
<1>1. PICK l \in Launches : Begins(l, s, Explicit(s))
  BY DEF Ask
<1>2. s \notin Verify /\ s \notin inFlight /\ UNCHANGED <<entries, owner, procs>>
  BY DEF Ask, registry
<1> QED
  BY <1>1, <1>2, FirstRecords, NoneIsBusy, BeginsStep DEF Begins

LEMMA OnDoneKeeps ==
  ASSUME Types, Placed, NEW s \in Sessions, OnDone(s)
  PROVE  Placed'
<1>1. s \notin Verify /\ UNCHANGED <<entries, owner, procs>>
  BY DEF OnDone, registry
<1>2. CASE UNCHANGED <<launches, inFlight>>
  BY <1>1, <1>2, RegistryStands
<1>3. ASSUME s \notin inFlight, NEW l \in Launches, NEW q \in {Restart(s), Prewarm(s)},
             Begins(l, s, q)
      PROVE  Placed'
  <2>1. q \in LaunchRecords /\ q.pc \in Reading /\ q.s = s /\ q.child = "none"
    BY FirstRecords
  <2>2. /\ launches[l].pc = "free" /\ launches' = [launches EXCEPT ![l] = q]
        /\ inFlight' = inFlight \cup {s}
    BY <1>3 DEF Begins
  <2>3. \A k \in Launches : launches[k].s = s => launches[k].pc \notin Busy
    BY <1>1, <1>3, NoneIsBusy
  <2> QED
    BY <1>1, <2>1, <2>2, <2>3, BeginsStep
<1> QED
  BY <1>2, <1>3 DEF OnDone

LEMMA FinallyKeeps ==
  ASSUME Types, Placed, NEW s \in Sessions, Finally(s)
  PROVE  Placed'
<1>1. /\ s \in inFlight /\ UNCHANGED <<entries, owner, procs>>
      /\ \A l \in Launches : launches[l].s = s => launches[l].pc \notin Busy
  BY DEF Finally, registry, Busy, Reading, Past, Launching
<1>2. CASE s \in pendingDone /\ entries[s].status = "ready"
  <2>1. PICK l \in Launches : Begins(l, s, Restart(s))
    BY <1>2 DEF Finally
  <2> QED
    BY <1>1, <2>1, FirstRecords, BeginsStep DEF Begins
<1>3. CASE ~(s \in pendingDone /\ entries[s].status = "ready")
  <2>1. inFlight' = inFlight \ {s} /\ UNCHANGED launches
    BY <1>3 DEF Finally
  <2>2. \A l \in Launches : LaunchHolds(l)'
    BY <1>1, <2>1 DEF Placed, LaunchHolds
  <2>3. \A k, l \in Launches : PairHolds(k, l)'
    BY <2>1 DEF Placed, PairHolds
  <2>4. \A t \in Sessions : SessionHolds(t)'
    BY <1>1, <2>1 DEF Placed, SessionHolds, Live
  <2> QED
    BY <2>2, <2>3, <2>4 DEF Placed
<1> QED
  BY <1>2, <1>3

LEMMA VerifyBootKeeps ==
  ASSUME Types, Placed, NEW s \in Sessions, VerifyBoot(s)
  PROVE  Placed'
<1> DEFINE q == [Free EXCEPT !.pc = "files", !.s = s, !.kind = "heavy"]
<1>1. PICK l \in Launches : launches[l].pc = "free" /\ launches' = [launches EXCEPT ![l] = q]
  BY DEF VerifyBoot
<1>2. q \in LaunchRecords /\ q.pc \in Reading /\ q.s = s /\ q.child = "none"
  BY DEF Free, LaunchRecords, Stages, Alive, Reading
<1>3. /\ s \in Verify /\ UNCHANGED <<entries, owner, procs, inFlight>>
      /\ \A k \in Launches : launches[k].s = s => launches[k].pc \notin Busy
  BY DEF VerifyBoot, registry, Busy, Reading, Past, Launching
<1> HIDE DEF q
<1> QED
  BY <1>1, <1>2, <1>3, BeginsStep

LEMMA CompareKeeps ==
  ASSUME Types, Placed, NEW l \in Launches, Compare(l)
  PROVE  Placed'
<1> DEFINE s == launches[l].s
           q == IF code[s] = launches[l].files THEN Free ELSE Prewarm(s)
<1>1. /\ launches[l].pc = "compare" /\ launches' = [launches EXCEPT ![l] = q]
      /\ UNCHANGED <<entries, owner, procs, inFlight>>
  BY DEF Compare, registry
<1>2. LaunchHolds(l) /\ s \in Sessions
  BY <1>1 DEF Placed, LaunchHolds
<1>3. /\ Free \in LaunchRecords /\ Free.pc = "free" /\ Free.child = "none"
      /\ Prewarm(s) \in LaunchRecords
      /\ Prewarm(s).pc = "read" /\ Prewarm(s).s = s /\ Prewarm(s).child = "none"
  BY <1>2 DEF Prewarm, Free, LaunchRecords, Stages, Alive
<1>4. q \in LaunchRecords /\ q.child = "none" /\ (q.pc = "free" \/ (q.pc = "read" /\ q.s = s))
  BY <1>3
<1> HIDE DEF q
<1>5. launches'[l] = q
  BY <1>1 DEF Types
<1>6. LaunchHolds(l)'
  BY <1>1, <1>2, <1>4, <1>5 DEF LaunchHolds, Launching, Busy, Reading, Past, Alive
<1> QED
  BY <1>1, <1>4, <1>6, LocalStep DEF Launching, Busy, Reading, Past

LEMMA ReadKeeps ==
  ASSUME Types, Placed, NEW l \in Launches, Read(l)
  PROVE  Placed'
<1> DEFINE s == launches[l].s
<1>1. launches[l].pc = "read" /\ UNCHANGED <<entries, owner, procs, inFlight>>
  BY DEF Read, registry
<1>2. LaunchHolds(l) /\ s \in Sessions /\ launches[l] \in LaunchRecords /\ code[s] \in Nat
  BY <1>1 DEF Placed, LaunchHolds, Types
<1>3. CASE launches' = [launches EXCEPT ![l] = Free]
  <2>1. Free \in LaunchRecords /\ Free.pc = "free" /\ Free.child = "none"
    BY DEF Free, LaunchRecords, Stages, Alive
  <2>2. launches'[l] = Free
    BY <1>3 DEF Types
  <2>3. LaunchHolds(l)'
    BY <2>1, <2>2 DEF LaunchHolds, Launching, Busy, Reading, Past, Alive
  <2> QED
    BY <1>1, <1>3, <2>1, <2>3, LocalStep DEF Launching
<1>4. ASSUME NEW k \in Kinds,
             launches' = [launches EXCEPT ![l].pc = "files", ![l].files = code[s], ![l].kind = k]
      PROVE  Placed'
  <2> DEFINE q == [launches[l] EXCEPT !.pc = "files", !.files = code[s], !.kind = k]
  <2>1. q \in LaunchRecords /\ q.pc = "files" /\ q.s = s /\ q.child = launches[l].child
    BY <1>2 DEF LaunchRecords, Stages
  <2>2. launches' = [launches EXCEPT ![l] = q]
    BY <1>4 DEF Types
  <2> HIDE DEF q
  <2>3. launches'[l] = q
    BY <2>2 DEF Types
  <2>4. LaunchHolds(l)'
    BY <1>1, <1>2, <2>1, <2>3 DEF LaunchHolds, Launching, Busy, Reading, Past
  <2> QED
    BY <1>1, <2>1, <2>2, <2>4, LocalStep DEF Launching, Busy, Reading, Past
<1> QED
  BY <1>3, <1>4 DEF Read

LEMMA MaterializeFailsKeeps ==
  ASSUME Types, Placed, NEW l \in Launches, MaterializeFails(l)
  PROVE  Placed'
<1>1. /\ launches[l].pc = "files" /\ launches' = [launches EXCEPT ![l] = Free]
      /\ UNCHANGED <<entries, owner, procs, inFlight>>
  BY DEF MaterializeFails, registry
<1>2. Free \in LaunchRecords /\ Free.pc = "free" /\ Free.child = "none"
  BY DEF Free, LaunchRecords, Stages, Alive
<1>3. launches'[l] = Free
  BY <1>1 DEF Types
<1>4. LaunchHolds(l)'
  BY <1>2, <1>3 DEF LaunchHolds, Launching, Busy, Reading, Past, Alive
<1> QED
  BY <1>1, <1>2, <1>4, LocalStep DEF Launching

-----------------------------------------------------------------------------
(* A launch's steps                                                        *)

\* While a launch stops what was there and makes room, its session's entry is not live.
LEMMA NotYetLive ==
  ASSUME Types, Placed, NEW l \in Launches, launches[l].pc \in {"stopping", "evicting"}
  PROVE  launches[l].s \in Sessions /\ ~Live(launches[l].s)
<1> DEFINE s == launches[l].s
<1>1. s \in Sessions
  BY DEF Placed, LaunchHolds
<1>2. ASSUME Live(s) PROVE FALSE
  <2>1. SessionHolds(s) /\ owner[s] \in Launches
    BY <1>1, <1>2 DEF Placed, SessionHolds, Types, Slots
  <2>2. launches[owner[s]].s = s /\ launches[owner[s]].pc \in Launching \cup {"tearing", "up"}
    BY <1>2, <2>1 DEF SessionHolds, Live
  <2>3. owner[s] # l
    BY <2>2 DEF Launching
  <2>4. launches[owner[s]].pc = "free"
    BY <2>1, <2>2, <2>3, OthersOnlyRead DEF Past
  <2> QED
    BY <2>2, <2>4 DEF Launching
<1> QED
  BY <1>1, <1>2

\* A launch that is past the stop and does not own its session finds no live entry there.
LEMMA DisownedIsNotLive ==
  ASSUME Types, Placed, NEW l \in Launches, launches[l].pc \in Past, ~Owns(l)
  PROVE  launches[l].s \in Sessions /\ ~Live(launches[l].s)
<1> DEFINE s == launches[l].s
<1>1. s \in Sessions
  BY DEF Placed, LaunchHolds, Past, Launching
<1>2. ASSUME Live(s) PROVE FALSE
  <2>1. SessionHolds(s) /\ owner[s] \in Launches
    BY <1>1, <1>2 DEF Placed, SessionHolds, Types, Slots
  <2>2. launches[owner[s]].s = s /\ launches[owner[s]].pc \in Launching \cup {"tearing", "up"}
    BY <1>2, <2>1 DEF SessionHolds, Live
  <2>3. owner[s] # l
    BY DEF Owns
  <2>4. launches[owner[s]].pc = "free"
    BY <2>1, <2>2, <2>3, OthersOnlyRead
  <2> QED
    BY <2>2, <2>4 DEF Launching
<1> QED
  BY <1>1, <1>2

\* A launch that gives up keeps its session and its port until its workspace is gone.
LEMMA EndingRecord ==
  ASSUME Types, NEW l \in Launches, NEW end \in {"stopped", "unsupported", "failed"}, 
         launches' = Ending(l, end)
  PROVE  \E q \in LaunchRecords :
           /\ launches' = [launches EXCEPT ![l] = q] /\ launches'[l] = q
           /\ q.pc = "tearing" /\ q.s = launches[l].s /\ q.child = "none" /\ q.end = end
<1> DEFINE q == [Free EXCEPT !.pc = "tearing", !.s = launches[l].s,
                             !.port = launches[l].port, !.end = end]
<1>1. launches[l].s \in Sessions \cup {None} /\ launches[l].port \in Ports \cup {0}
  BY DEF Types, LaunchRecords
<1>2. q \in LaunchRecords
  BY <1>1 DEF Free, LaunchRecords, Stages, Alive
<1>3. q.pc = "tearing" /\ q.s = launches[l].s /\ q.child = "none" /\ q.end = end
  BY DEF Free
<1>4. launches' = [launches EXCEPT ![l] = q]
  BY DEF Ending
<1> HIDE DEF q
<1>5. launches'[l] = q
  BY <1>4 DEF Types
<1> QED
  BY <1>2, <1>3, <1>4, <1>5

LEMMA FreeRecord ==
  /\ Free \in LaunchRecords /\ Free.pc = "free" /\ Free.child = "none" /\ Free.s = None
BY DEF Free, LaunchRecords, Stages, Alive

\* A launch under way that gives up, or stands down without owning its session.
LEMMA LeavesStep ==
  ASSUME Types, Placed, NEW l \in Launches, UNCHANGED <<entries, owner, procs, inFlight>>,
         \/ launches[l].pc \in Launching /\ launches' = Ending(l, "failed")
         \/ launches[l].pc \in Past /\ ~Owns(l) /\ launches' = Gone(l)
  PROVE  Placed'
<1>1. LaunchHolds(l) /\ launches[l].pc # "up"
  BY DEF Placed, Past, Launching
<1>2. CASE launches[l].pc \in Launching /\ launches' = Ending(l, "failed")
  <2>1. PICK q \in LaunchRecords :
           /\ launches' = [launches EXCEPT ![l] = q] /\ launches'[l] = q
           /\ q.pc = "tearing" /\ q.s = launches[l].s /\ q.child = "none" /\ q.end = "failed"
    BY <1>2, EndingRecord
  <2>2. LaunchHolds(l)'
    BY <1>1, <1>2, <2>1 DEF LaunchHolds, Launching, Busy, Reading, Past, Alive
  <2> QED
    BY <1>1, <1>2, <2>1, <2>2, LocalStep DEF Launching, Busy, Past
<1>3. CASE launches[l].pc \in Past /\ ~Owns(l) /\ launches' = Gone(l)
  <2>1. launches' = [launches EXCEPT ![l] = Free] /\ launches'[l] = Free
    BY <1>3 DEF Gone, Types
  <2> HIDE DEF Free
  <2>2. LaunchHolds(l)'
    BY <2>1, FreeRecord DEF LaunchHolds, Launching, Busy, Reading, Past, Alive
  <2> QED
    BY <1>3, <2>1, <2>2, FreeRecord, LocalStep DEF Owns
<1> QED
  BY <1>2, <1>3

LEMMA BeginKeeps ==
  ASSUME Types, Placed, NEW l \in Launches, Begin(l)
  PROVE  Placed'
<1> DEFINE s == launches[l].s
           q == [launches[l] EXCEPT !.pc = "stopping"]
<1>1. /\ launches[l].pc = "files" /\ Stop(s, owner, At(l, "stopping")) /\ UNCHANGED inFlight
      /\ s \in Sessions
  BY DEF Begin, coordinator, Placed, LaunchHolds
<1>2. q \in LaunchRecords /\ q.pc = "stopping" /\ q.s = s /\ q.child = launches[l].child
  BY DEF Types, LaunchRecords, Stages
<1>3. At(l, "stopping") = [launches EXCEPT ![l] = q] /\ owner \in [Sessions -> Slots]
  BY DEF At, Types
<1> HIDE DEF q
<1> QED
  BY <1>1, <1>2, <1>3, StopStep

LEMMA StopPreviewKeeps ==
  ASSUME Types, Placed, NEW s \in Sessions, StopPreview(s)
  PROVE  Placed'
<1>1. Stop(s, owner, launches) /\ UNCHANGED inFlight
  BY DEF StopPreview, coordinator
<1>2. PICK l \in Launches : TRUE
  BY PreviewAssumption
<1>3. launches[l] \in LaunchRecords /\ launches = [launches EXCEPT ![l] = launches[l]]
      /\ owner \in [Sessions -> Slots]
  BY DEF Types
<1> QED
  BY <1>1, <1>3, StopStep

\* Registering, for a launch that has made room.
LEMMA RegisterStep ==
  ASSUME Types, Placed, NEW l \in Launches, launches[l].pc \in {"stopping", "evicting"},
         NEW ow \in [Sessions -> Slots], Register(l, ow), UNCHANGED inFlight,
         \A t \in Sessions \ {launches[l].s} : ow[t] = owner[t]
  PROVE  Placed'
<1>0. PICK s \in Sessions : s = launches[l].s
  BY NotYetLive
<1> DEFINE q == [Free EXCEPT !.pc = "install", !.s = s, !.files = launches[l].files]
           e == [NoEntry EXCEPT !.status = "starting", !.launch = l]
<1>1. s = launches[l].s /\ ~Live(s) /\ LaunchHolds(l) /\ launches[l].files \in Nat
  BY <1>0, NotYetLive DEF Placed, Types, LaunchRecords
<1>2. UNCHANGED procs /\ owner' = ow
  BY DEF Register
<1>3. l # 0 /\ launches[l].pc \in Past
  BY LaunchesAreNumbers DEF Past
<1>4. CASE ow[s] = l
  <2>1. entries' = [entries EXCEPT ![s] = e] /\ launches' = [launches EXCEPT ![l] = q]
    BY <1>1, <1>4 DEF Register, Set
  <2>2. q \in LaunchRecords /\ q.pc = "install" /\ q.s = s /\ q.child = "none"
    BY <1>1 DEF Free, LaunchRecords, Stages, Alive
  <2>3. e.status = "starting" /\ ~e.static /\ e.launch = l
    BY DEF NoEntry
  <2> HIDE DEF q, e
  <2>4. /\ launches'[l] = q /\ entries'[s] = e
        /\ \A t \in Sessions \ {s} : entries'[t] = entries[t]
    BY <1>1, <2>1 DEF Types
  <2>5. LaunchHolds(l)'
    BY <1>1, <1>3, <2>2, <2>3, <2>4
       DEF LaunchHolds, Launching, Busy, Reading, Past, Alive
  <2>6. SessionHolds(s)'
    BY <1>2, <1>3, <1>4, <2>2, <2>3, <2>4 DEF SessionHolds, Live, Launching
  <2> QED
    BY <1>1, <1>2, <1>3, <2>1, <2>2, <2>4, <2>5, <2>6, OwnStep DEF Past, Launching
<1>5. CASE ow[s] # l
  <2>1. UNCHANGED entries /\ launches' = [launches EXCEPT ![l] = Free]
    BY <1>1, <1>5 DEF Register, Gone
  <2>2. launches'[l] = Free
    BY <2>1 DEF Types
  <2> HIDE DEF Free
  <2>3. LaunchHolds(l)'
    BY <2>2, FreeRecord DEF LaunchHolds, Launching, Busy, Reading, Past, Alive
  <2>4. SessionHolds(s)'
    BY <1>1, <2>1 DEF SessionHolds, Live, Placed
  <2> QED
    BY <1>1, <1>2, <1>3, <2>1, <2>3, <2>4, FreeRecord, OwnStep DEF Busy, Past, Launching, Reading
<1> QED
  BY <1>4, <1>5

LEMMA MakeRoomStep ==
  ASSUME Types, Placed, NEW l \in Launches, launches[l].pc \in {"stopping", "evicting"},
         NEW ow \in [Sessions -> Slots], MakeRoom(l, ow), UNCHANGED inFlight,
         \A t \in Sessions \ {launches[l].s} : ow[t] = owner[t]
  PROVE  Placed'
<1>1. CASE AtCapacity /\ launches[l].s \notin Verify
  <2> DEFINE q == [launches[l] EXCEPT !.pc = "evicting"]
  <2>1. PICK s \in Sessions : CountsTowardCap(s) /\ Stop(s, ow, At(l, "evicting"))
    BY <1>1 DEF MakeRoom
  <2>2. Live(s)
    BY <2>1 DEF CountsTowardCap, Live
  <2>3. q \in LaunchRecords /\ q.pc = "evicting" /\ q.s = launches[l].s
        /\ q.child = launches[l].child
    BY DEF Types, LaunchRecords, Stages
  <2>4. At(l, "evicting") = [launches EXCEPT ![l] = q]
    BY DEF At, Types
  <2> HIDE DEF q
  <2> QED
    BY <2>1, <2>2, <2>3, <2>4, StopStep
<1>2. CASE ~(AtCapacity /\ launches[l].s \notin Verify)
  BY <1>2, RegisterStep DEF MakeRoom
<1> QED
  BY <1>1, <1>2

LEMMA EvictedKeeps ==
  ASSUME Types, Placed, NEW l \in Launches, Evicted(l)
  PROVE  Placed'
<1>1. owner \in [Sessions -> Slots]
  BY DEF Types
<1> QED
  BY <1>1, MakeRoomStep DEF Evicted, coordinator

LEMMA MintKeeps ==
  ASSUME Types, Placed, NEW l \in Launches, Mint(l)
  PROVE  Placed'
<1>0. PICK s \in Sessions : s = launches[l].s
  BY NotYetLive DEF Mint
<1> DEFINE ow == [owner EXCEPT ![s] = l]
<1>1. launches[l].pc = "stopping" /\ UNCHANGED inFlight
  BY DEF Mint, coordinator
<1>2. s = launches[l].s /\ ~Live(s) /\ LaunchHolds(l) /\ l # 0 /\ launches[l].files \in Nat
  BY <1>0, <1>1, NotYetLive, LaunchesAreNumbers DEF Placed, Types, LaunchRecords
<1>3. ow \in [Sessions -> Slots] /\ ow[s] = l /\ \A t \in Sessions \ {s} : ow[t] = owner[t]
  BY <1>2 DEF Types, Slots
<1> HIDE DEF ow
<1>4. CASE MakeRoom(l, ow)
  BY <1>1, <1>2, <1>3, <1>4, MakeRoomStep
<1>5. ASSUME owner' = ow, UNCHANGED <<entries, procs>>,
             NEW end \in {"stopped", "unsupported"}, launches' = Ending(l, end)
      PROVE  Placed'
  <2>1. PICK q \in LaunchRecords :
           /\ launches' = [launches EXCEPT ![l] = q] /\ launches'[l] = q
           /\ q.pc = "tearing" /\ q.s = s /\ q.child = "none" /\ q.end = end
    BY <1>2, <1>5, EndingRecord
  <2>2. LaunchHolds(l)'
    BY <1>1, <1>2, <2>1 DEF LaunchHolds, Launching, Busy, Reading, Past, Alive
  <2>3. SessionHolds(s)'
    BY <1>2, <1>5 DEF Placed, SessionHolds, Live
  <2> QED
    BY <1>1, <1>2, <1>3, <1>5, <2>1, <2>2, <2>3, OwnStep DEF Past
<1>6. CASE /\ owner' = ow /\ UNCHANGED procs
           /\ Set(s, [status |-> "ready", static |-> TRUE, port |-> 0,
                      files |-> launches[l].files, launch |-> l])
           /\ launches' = [launches EXCEPT ![l] = [Free EXCEPT !.pc = "up", !.s = s]]
  <2> DEFINE e == [status |-> "ready", static |-> TRUE, port |-> 0,
                   files |-> launches[l].files, launch |-> l]
             q == [Free EXCEPT !.pc = "up", !.s = s]
  <2>1. q \in LaunchRecords /\ q.pc = "up" /\ q.s = s /\ q.child = "none"
    BY <1>2 DEF Free, LaunchRecords, Stages, Alive
  <2>2. e.status = "ready" /\ e.launch = l
    OBVIOUS
  <2>3. entries' = [entries EXCEPT ![s] = e] /\ launches' = [launches EXCEPT ![l] = q]
    BY <1>6 DEF Set
  <2> HIDE DEF q, e
  <2>4. /\ launches'[l] = q /\ entries'[s] = e
        /\ \A t \in Sessions \ {s} : entries'[t] = entries[t]
    BY <1>2, <2>3 DEF Types
  <2>5. LaunchHolds(l)'
    BY <1>2, <1>3, <1>6, <2>1, <2>2, <2>4
       DEF LaunchHolds, Launching, Busy, Reading, Past, Alive
  <2>6. SessionHolds(s)'
    BY <1>2, <1>3, <1>6, <2>1, <2>2, <2>4 DEF SessionHolds, Live
  <2> QED
    BY <1>1, <1>2, <1>3, <1>6, <2>1, <2>3, <2>4, <2>5, <2>6, OwnStep
       DEF Past, Busy, Reading, Launching
<1> QED
  BY <1>2, <1>4, <1>5, <1>6 DEF Mint, ow

\* A launch moves within its labels, its session and its child's liveness as they were.
LEMMA WithinStep ==
  ASSUME Types, Placed, NEW l \in Launches, NEW q \in LaunchRecords,
         launches' = [launches EXCEPT ![l] = q],
         UNCHANGED <<entries, owner, procs, inFlight>>,
         q.s = launches[l].s, q.child \in Alive => launches[l].child \in Alive,
         \/ q.pc = launches[l].pc
         \/ launches[l].pc \in Launching \ {"probe"} /\ q.pc \in Launching
  PROVE  Placed'
<1>1. launches'[l] = q /\ LaunchHolds(l)
  BY DEF Types, Placed
<1>2. LaunchHolds(l)'
  BY <1>1 DEF LaunchHolds, Launching, Busy, Reading, Past, Alive
<1> QED
  BY <1>1, <1>2, LocalStep DEF Launching, Busy, Reading, Past

LEMMA InstallKeeps ==
  ASSUME Types, Placed, NEW l \in Launches, Install(l)
  PROVE  Placed'
<1>1. launches[l].pc = "install" /\ UNCHANGED <<entries, owner, procs, inFlight>>
  BY DEF Install, registry, coordinator
<1>2. CASE launches' = Ending(l, "failed")
  BY <1>1, <1>2, LeavesStep DEF Launching
<1>3. CASE launches' = At(l, "allocate")
  <2> DEFINE q == [launches[l] EXCEPT !.pc = "allocate"]
  <2>1. q \in LaunchRecords /\ q.pc = "allocate" /\ q.s = launches[l].s
        /\ q.child = launches[l].child
    BY DEF Types, LaunchRecords, Stages
  <2>2. launches' = [launches EXCEPT ![l] = q]
    BY <1>3 DEF At, Types
  <2> HIDE DEF q
  <2> QED
    BY <1>1, <2>1, <2>2, WithinStep DEF Launching
<1> QED
  BY <1>2, <1>3 DEF Install

\* Spawning, for a launch that has a port.
LEMMA SpawnStep ==
  ASSUME Types, Placed, NEW l \in Launches, launches[l].pc \in {"allocate", "bindable"},
         NEW p \in Ports \cup {0}, Spawn(l, p), UNCHANGED <<entries, owner, inFlight>>
  PROVE  Placed'
<1>0. PICK s \in Sessions : s = launches[l].s
  BY DEF Placed, LaunchHolds
<1>1. LaunchHolds(l) /\ SessionHolds(s) /\ launches[l] \in LaunchRecords
      /\ launches[l].pc \in Past
  BY DEF Placed, Types, Past, Launching
<1>2. CASE Owns(l)
  <2> DEFINE q == [launches[l] EXCEPT !.pc = "probe", !.port = p, !.child = "booting"]
  <2>1. q \in LaunchRecords /\ q.pc = "probe" /\ q.s = s /\ q.child = "booting"
    BY <1>0, <1>1 DEF LaunchRecords, Stages, Alive
  <2>2. launches' = [launches EXCEPT ![l] = q] /\ procs' = [procs EXCEPT ![s] = l]
    BY <1>0, <1>2 DEF Spawn, Types
  <2> HIDE DEF q
  <2>3. /\ launches'[l] = q /\ procs'[s] = l
        /\ \A t \in Sessions \ {s} : procs'[t] = procs[t]
    BY <2>2 DEF Types
  <2>4. LaunchHolds(l)'
    BY <1>0, <1>1, <2>1, <2>3 DEF LaunchHolds, Launching, Busy, Reading, Past, Alive
  <2>5. SessionHolds(s)'
    <3>1. Live(s) => owner[s] = l
      BY <1>0, <1>2 DEF Owns
    <3>2. launches'[l].s = s /\ launches'[l].pc = "probe"
      BY <2>1, <2>3
    <3> QED
      BY <1>1, <3>1, <3>2 DEF SessionHolds, Live, Launching
  <2> QED
    BY <1>0, <1>1, <2>1, <2>2, <2>3, <2>4, <2>5, OwnStep DEF Past, Launching
<1>3. CASE ~Owns(l)
  BY <1>1, <1>3, LeavesStep DEF Spawn
<1> QED
  BY <1>2, <1>3

LEMMA AllocateKeeps ==
  ASSUME Types, Placed, NEW l \in Launches, Allocate(l)
  PROVE  Placed'
<1>1. launches[l].pc = "allocate" /\ UNCHANGED <<entries, owner, inFlight>>
  BY DEF Allocate, coordinator
<1>2. ASSUME NEW o \in Ports, Spawn(l, o) PROVE Placed'
  BY <1>1, <1>2, SpawnStep
<1>3. ASSUME NEW p \in Ports, UNCHANGED procs,
             launches' = [launches EXCEPT ![l].pc = "bindable", ![l].port = p]
      PROVE  Placed'
  <2> DEFINE q == [launches[l] EXCEPT !.pc = "bindable", !.port = p]
  <2>1. q \in LaunchRecords /\ q.pc = "bindable" /\ q.s = launches[l].s
        /\ q.child = launches[l].child
    BY DEF Types, LaunchRecords, Stages
  <2>2. launches' = [launches EXCEPT ![l] = q]
    BY <1>3 DEF Types
  <2> HIDE DEF q
  <2> QED
    BY <1>1, <1>3, <2>1, <2>2, WithinStep DEF Launching
<1> QED
  BY <1>2, <1>3 DEF Allocate

LEMMA BindableKeeps ==
  ASSUME Types, Placed, NEW l \in Launches, Bindable(l)
  PROVE  Placed'
<1>1. launches[l].pc = "bindable" /\ UNCHANGED <<entries, owner, inFlight>>
  BY DEF Bindable, coordinator
<1>2. CASE OsFree(launches[l].port)
  <2>1. launches[l].port \in Ports \cup {0}
    BY DEF Types, LaunchRecords
  <2> QED
    BY <1>1, <1>2, <2>1, SpawnStep DEF Bindable
<1>3. CASE ~OsFree(launches[l].port)
  <2> DEFINE q == [launches[l] EXCEPT !.pc = "allocate", !.port = 0]
  <2>1. q \in LaunchRecords /\ q.pc = "allocate" /\ q.s = launches[l].s
        /\ q.child = launches[l].child
    BY DEF Types, LaunchRecords, Stages
  <2>2. launches' = [launches EXCEPT ![l] = q] /\ UNCHANGED procs
    BY <1>3 DEF Bindable, Types
  <2> HIDE DEF q
  <2> QED
    BY <1>1, <2>1, <2>2, WithinStep DEF Launching
<1> QED
  BY <1>2, <1>3

\* A child that binds its port or dies, and a probe that is answered.
LEMMA ChildKeeps ==
  ASSUME Types, Placed, NEW l \in Launches, Listen(l) \/ Die(l) \/ Answer(l)
  PROVE  Placed'
<1>1. UNCHANGED <<entries, owner, procs, inFlight>>
  BY DEF Listen, Die, Answer, registry, coordinator
<1>2. CASE Answer(l)
  <2> DEFINE q == [launches[l] EXCEPT !.answered = TRUE]
  <2>1. q \in LaunchRecords /\ q.pc = launches[l].pc /\ q.s = launches[l].s
        /\ q.child = launches[l].child
    BY DEF Types, LaunchRecords
  <2>2. launches' = [launches EXCEPT ![l] = q]
    BY <1>2 DEF Answer
  <2> HIDE DEF q
  <2> QED
    BY <1>1, <2>1, <2>2, WithinStep
<1>3. CASE Listen(l) \/ Die(l)
  <2>1. PICK c \in {"listening", "dead"} :
          launches[l].child \in Alive /\ launches' = [launches EXCEPT ![l].child = c]
    BY <1>3 DEF Listen, Die, Alive
  <2> DEFINE q == [launches[l] EXCEPT !.child = c]
  <2>2. q \in LaunchRecords /\ q.pc = launches[l].pc /\ q.s = launches[l].s
    BY DEF Types, LaunchRecords, Alive
  <2>3. launches' = [launches EXCEPT ![l] = q]
    BY <2>1
  <2> HIDE DEF q
  <2> QED
    BY <1>1, <2>1, <2>2, <2>3, WithinStep
<1> QED
  BY <1>2, <1>3

LEMMA ReadyKeeps ==
  ASSUME Types, Placed, NEW l \in Launches, Ready(l)
  PROVE  Placed'
<1>0. PICK s \in Sessions : s = launches[l].s
  BY DEF Placed, LaunchHolds, Ready
<1> DEFINE e == [status |-> "ready", static |-> FALSE, port |-> launches[l].port,
                 files |-> launches[l].files, launch |-> l]
           q == [Free EXCEPT !.pc = "up", !.s = s, !.port = launches[l].port,
                             !.child = launches[l].child]
<1>1. /\ launches[l].pc = "probe" /\ owner[s] = l /\ UNCHANGED <<owner, procs, inFlight>>
      /\ entries' = [entries EXCEPT ![s] = e] /\ launches' = [launches EXCEPT ![l] = q]
      /\ LaunchHolds(l) /\ l # 0
  BY <1>0, LaunchesAreNumbers DEF Ready, Owns, Set, coordinator, Placed
<1>2. q \in LaunchRecords /\ q.pc = "up" /\ q.s = s /\ q.child = launches[l].child
  <2>1. launches[l].port \in Ports \cup {0} /\ launches[l].child \in Alive \cup {"none", "dead"}
    BY DEF Types, LaunchRecords
  <2> QED
    BY <2>1 DEF Free, LaunchRecords, Stages
<1>3. e.status = "ready" /\ e.launch = l
  OBVIOUS
<1> HIDE DEF e, q
<1>4. /\ launches'[l] = q /\ entries'[s] = e
      /\ \A t \in Sessions \ {s} : entries'[t] = entries[t]
  BY <1>1 DEF Types
<1>5. LaunchHolds(l)'
  BY <1>0, <1>1, <1>2, <1>3, <1>4 DEF LaunchHolds, Launching, Busy, Reading, Past, Alive
<1>6. SessionHolds(s)'
  BY <1>1, <1>2, <1>3, <1>4 DEF SessionHolds, Live
<1> QED
  BY <1>0, <1>1, <1>2, <1>4, <1>5, <1>6, OwnStep DEF Past, Launching, Busy, Reading

LEMMA LeavingKeeps ==
  ASSUME Types, Placed, NEW l \in Launches, StandDown(l) \/ GiveUp(l)
  PROVE  Placed'
BY LeavesStep DEF StandDown, GiveUp, Past, Launching, coordinator

LEMMA SettleKeeps ==
  ASSUME Types, Placed, NEW l \in Launches, Settle(l)
  PROVE  Placed'
<1>0. PICK s \in Sessions : s = launches[l].s
  BY DEF Placed, LaunchHolds, Settle
<1> DEFINE e == [NoEntry EXCEPT !.status = launches[l].end, !.port = launches[l].port]
<1>1. /\ launches[l].pc = "tearing" /\ UNCHANGED <<owner, inFlight>>
      /\ launches' = [launches EXCEPT ![l] = Free] /\ launches[l].pc \in Past
  BY DEF Settle, coordinator, Gone, Past
<1>2. launches'[l] = Free
  BY <1>1 DEF Types
<1> HIDE DEF Free
<1>3. LaunchHolds(l)'
  BY <1>2, FreeRecord DEF LaunchHolds, Launching, Busy, Reading, Past, Alive
<1>4. CASE Owns(l)
  <2>1. entries' = [entries EXCEPT ![s] = e] /\ procs' = [procs EXCEPT ![s] = 0]
    BY <1>0, <1>4 DEF Settle, Set
  <2>2. e.launch = 0 /\ e.status \notin {"starting", "ready"}
    <3>1. launches[l].end \in {"none", "stopped", "unsupported", "failed"}
      BY DEF Types, LaunchRecords
    <3> QED
      BY <3>1 DEF NoEntry
  <2> HIDE DEF e
  <2>3. /\ entries'[s] = e
        /\ \A t \in Sessions \ {s} : entries'[t] = entries[t] /\ procs'[t] = procs[t]
    BY <2>1 DEF Types
  <2>4. SessionHolds(s)'
    BY <2>2, <2>3 DEF SessionHolds, Live
  <2> QED
    BY <1>0, <1>1, <1>3, <2>3, <2>4, FreeRecord, OwnStep DEF Busy, Reading, Past, Launching
<1>5. CASE ~Owns(l)
  BY <1>0, <1>1, <1>5, LeavesStep DEF Settle
<1> QED
  BY <1>4, <1>5

LEMMA CrashKeeps ==
  ASSUME Types, Placed, NEW l \in Launches, Crash(l)
  PROVE  Placed'
<1>0. PICK s \in Sessions : s = launches[l].s
  BY DEF Placed, LaunchHolds, Crash
<1> DEFINE e == [NoEntry EXCEPT !.status = "failed", !.port = launches[l].port]
<1>1. /\ launches[l].pc = "up" /\ UNCHANGED <<owner, inFlight>>
      /\ launches' = [launches EXCEPT ![l] = Free]
      /\ entries' = [entries EXCEPT ![s] = e] /\ procs' = [procs EXCEPT ![s] = 0]
  BY <1>0 DEF Crash, coordinator, Gone, Set
<1>2. launches'[l] = Free
  BY <1>1 DEF Types
<1>3. e.launch = 0 /\ e.status = "failed"
  BY DEF NoEntry
<1> HIDE DEF Free, e
<1>4. LaunchHolds(l)'
  BY <1>2, FreeRecord DEF LaunchHolds, Launching, Busy, Reading, Past, Alive
<1>5. /\ entries'[s] = e
      /\ \A t \in Sessions \ {s} : entries'[t] = entries[t] /\ procs'[t] = procs[t]
  BY <1>1 DEF Types
<1>6. SessionHolds(s)'
  BY <1>3, <1>5 DEF SessionHolds, Live
<1> QED
  BY <1>0, <1>1, <1>4, <1>5, <1>6, FreeRecord, OwnStep DEF Busy, Reading, Past, Launching

-----------------------------------------------------------------------------
(* The types, and the invariant                                            *)

\* A stop keeps the types.
LEMMA StopTypes ==
  ASSUME Types, NEW s \in Sessions, NEW ow \in [Sessions -> Slots],
         NEW ls \in [Launches -> LaunchRecords], Stop(s, ow, ls), UNCHANGED coordinator
  PROVE  Types'
<1>1. owner' \in [Sessions -> Slots] /\ procs' \in [Sessions -> Slots]
  BY DEF Stop, Types, Slots
<1>2. launches' \in [Launches -> LaunchRecords]
  <2> SUFFICES ASSUME NEW k \in Launches
               PROVE  (IF k = entries[s].launch /\ ls[k].pc = "up" THEN Free
                       ELSE IF k = procs[s] THEN [ls[k] EXCEPT !.child = "dead"]
                       ELSE ls[k]) \in LaunchRecords
    BY DEF Stop, Stopped
  <2>1. [ls[k] EXCEPT !.child = "dead"] \in LaunchRecords
    BY DEF LaunchRecords
  <2> QED
    BY <2>1, FreeRecord
<1>3. entries' \in [Sessions -> Entries]
  <2>1. [entries[s] EXCEPT !.status = "stopped", !.launch = 0] \in Entries
    <3>1. entries[s] \in Entries /\ 0 \in Slots
      BY DEF Types, Slots
    <3> QED
      BY <3>1 DEF Entries
  <2> QED
    BY <2>1 DEF Stop, Set, Types
<1> QED
  BY <1>1, <1>2, <1>3 DEF Types, coordinator

\* A step that writes one launch, one entry at most, and tokens.
LEMMA WriteTypes ==
  ASSUME Types, NEW l \in Launches, NEW q \in LaunchRecords,
         launches' = [launches EXCEPT ![l] = q],
         entries' \in [Sessions -> Entries],
         owner' \in [Sessions -> Slots], procs' \in [Sessions -> Slots],
         UNCHANGED coordinator
  PROVE  Types'
BY DEF Types, coordinator

LEMMA EntryTypes ==
  ASSUME Types, NEW s \in Sessions, NEW e \in Entries, Set(s, e)
  PROVE  entries' \in [Sessions -> Entries]
BY DEF Types, Set

LEMMA CoordinatorTypes ==
  ASSUME Types, NEW s \in Sessions,
         Ask(s) \/ OnDone(s) \/ Finally(s) \/ VerifyBoot(s) \/ Rebuild(s)
  PROVE  Types'
<1>1. entries' = entries /\ owner' = owner /\ procs' = procs
  BY DEF Ask, OnDone, Finally, VerifyBoot, Rebuild, registry
<1>2. \A q \in {Explicit(s), Prewarm(s), Restart(s)} : q \in LaunchRecords
  BY FirstRecords
<1>3. [Free EXCEPT !.pc = "files", !.s = s, !.kind = "heavy"] \in LaunchRecords
  BY DEF Free, LaunchRecords, Stages, Alive
<1>4. launches' \in [Launches -> LaunchRecords]
  <2>1. launches' = launches \/ \E l \in Launches, q \in LaunchRecords :
                                  launches' = [launches EXCEPT ![l] = q]
    <3>1. CASE Ask(s)
      BY <1>2, <3>1 DEF Ask, Begins
    <3>2. CASE OnDone(s)
      BY <1>2, <3>2 DEF OnDone, Begins
    <3>3. CASE Finally(s)
      BY <1>2, <3>3 DEF Finally, Begins
    <3>4. CASE VerifyBoot(s)
      BY <1>3, <3>4 DEF VerifyBoot
    <3>5. CASE Rebuild(s)
      BY <3>5 DEF Rebuild
    <3> QED
      BY <3>1, <3>2, <3>3, <3>4, <3>5
  <2> QED
    BY <2>1 DEF Types
<1>5. inFlight' \subseteq Sessions \ Verify /\ pendingDone' \subseteq inFlight'
  <2>1. CASE Ask(s)
    BY <2>1 DEF Ask, Begins, Types
  <2>2. CASE OnDone(s)
    BY <2>2 DEF OnDone, Begins, Types
  <2>3. CASE Finally(s)
    BY <2>3 DEF Finally, Begins, Types
  <2>4. CASE VerifyBoot(s) \/ Rebuild(s)
    BY <2>4 DEF VerifyBoot, Rebuild, Types
  <2> QED
    BY <2>1, <2>2, <2>3, <2>4
<1>6. code' \in [Sessions -> Nat] /\ shipped' \in [Sessions -> Nat]
  BY DEF Ask, OnDone, Finally, VerifyBoot, Rebuild, Types
<1> QED
  BY <1>1, <1>4, <1>5, <1>6 DEF Types

\* A launch's own steps.
LEMMA LaunchTypes ==
  ASSUME Types, Placed, NEW l \in Launches,
         \/ Compare(l) \/ Read(l) \/ MaterializeFails(l) \/ Install(l) \/ Listen(l) \/ Die(l)
         \/ Answer(l) \/ StandDown(l) \/ GiveUp(l)
  PROVE  Types'
<1>0. launches[l] \in LaunchRecords /\ LaunchHolds(l)
  BY DEF Types, Placed
<1>1. entries' = entries /\ owner' = owner /\ procs' = procs
  BY DEF Compare, Read, MaterializeFails, Install, Listen, Die, Answer, StandDown, GiveUp,
         registry
<1>2. /\ inFlight' = inFlight /\ pendingDone' = pendingDone /\ code' = code
      /\ shipped' \in [Sessions -> Nat]
  BY DEF Compare, Read, MaterializeFails, Install, Listen, Die, Answer, StandDown, GiveUp,
         coordinator, Types
<1>3. \E q \in LaunchRecords : launches' = [launches EXCEPT ![l] = q]
  <2>1. CASE Compare(l)
    <3>1. launches[l].s \in Sessions
      BY <1>0, <2>1 DEF Compare, LaunchHolds
    <3> QED
      BY <2>1, <3>1, FirstRecords, FreeRecord DEF Compare
  <2>2. CASE Read(l)
    <3>1. launches[l].s \in Sessions
      BY <1>0, <2>2 DEF Read, LaunchHolds
    <3>2. code[launches[l].s] \in Nat
      BY <3>1 DEF Types
    <3>3. ASSUME NEW k \in Kinds,
                 launches' = [launches EXCEPT ![l].pc = "files",
                                ![l].files = code[launches[l].s], ![l].kind = k]
          PROVE  \E q \in LaunchRecords : launches' = [launches EXCEPT ![l] = q]
      <4> DEFINE q == [launches[l] EXCEPT !.pc = "files", !.files = code[launches[l].s],
                                          !.kind = k]
      <4>1. q \in LaunchRecords
        BY <1>0, <3>2 DEF LaunchRecords, Stages
      <4>2. launches' = [launches EXCEPT ![l] = q]
        BY <3>3 DEF Types
      <4> HIDE DEF q
      <4> QED
        BY <4>1, <4>2
    <3> QED
      BY <2>2, <3>3, FreeRecord DEF Read
  <2>3. CASE MaterializeFails(l) \/ StandDown(l)
    BY <2>3, FreeRecord DEF MaterializeFails, StandDown, Gone
  <2>4. CASE launches' = Ending(l, "failed")
    BY <2>4, EndingRecord
  <2>5. CASE launches' = At(l, "allocate")
    <3>1. [launches[l] EXCEPT !.pc = "allocate"] \in LaunchRecords
      BY <1>0 DEF LaunchRecords, Stages
    <3> QED
      BY <2>5, <3>1 DEF At
  <2>6. CASE Listen(l) \/ Die(l)
    <3>1. \A c \in {"listening", "dead"} : [launches[l] EXCEPT !.child = c] \in LaunchRecords
      BY <1>0 DEF LaunchRecords, Alive
    <3> QED
      BY <2>6, <3>1 DEF Listen, Die
  <2>7. CASE Answer(l)
    <3>1. [launches[l] EXCEPT !.answered = TRUE] \in LaunchRecords
      BY <1>0 DEF LaunchRecords
    <3> QED
      BY <2>7, <3>1 DEF Answer
  <2> QED
    BY <2>1, <2>2, <2>3, <2>4, <2>5, <2>6, <2>7 DEF Install, GiveUp
<1>4. launches' \in [Launches -> LaunchRecords]
  BY <1>3 DEF Types
<1> QED
  BY <1>1, <1>2, <1>4 DEF Types

\* The steps of a launch that write the registry.
LEMMA RegistryTypes ==
  ASSUME Types, Placed, NEW l \in Launches,
         \/ Begin(l) \/ Mint(l) \/ Evicted(l) \/ Allocate(l) \/ Bindable(l) \/ Ready(l)
         \/ Settle(l) \/ Crash(l)
  PROVE  Types'
<1>0. /\ launches[l] \in LaunchRecords /\ launches[l].files \in Nat
      /\ launches[l].port \in Ports \cup {0} /\ launches[l].s \in Sessions
      /\ launches[l].end \in {"none", "stopped", "unsupported", "failed"}
      /\ launches[l].child \in Alive \cup {"none", "dead"}
      /\ UNCHANGED coordinator
  <2>1. launches[l] \in LaunchRecords /\ LaunchHolds(l)
    BY DEF Types, Placed
  <2>2. launches[l].pc # "free" /\ UNCHANGED coordinator
    BY DEF Begin, Mint, Evicted, Allocate, Bindable, Ready, Settle, Crash
  <2> QED
    BY <2>1, <2>2 DEF LaunchHolds, LaunchRecords
<1>1. \A pc \in Stages : /\ At(l, pc) = [launches EXCEPT ![l] = [launches[l] EXCEPT !.pc = pc]]
                         /\ [launches[l] EXCEPT !.pc = pc] \in LaunchRecords
                         /\ At(l, pc) \in [Launches -> LaunchRecords]
  <2> SUFFICES ASSUME NEW pc \in Stages
               PROVE  /\ At(l, pc) = [launches EXCEPT ![l] = [launches[l] EXCEPT !.pc = pc]]
                      /\ [launches[l] EXCEPT !.pc = pc] \in LaunchRecords
                      /\ At(l, pc) \in [Launches -> LaunchRecords]
    OBVIOUS
  <2>1. [launches[l] EXCEPT !.pc = pc] \in LaunchRecords
    BY <1>0 DEF LaunchRecords
  <2> QED
    BY <2>1 DEF At, Types
<1>2. CASE Begin(l)
  <2>1. "stopping" \in Stages /\ owner \in [Sessions -> Slots]
    BY DEF Stages, Types
  <2> QED
    BY <1>0, <1>1, <1>2, <2>1, StopTypes DEF Begin
<1>3. ASSUME NEW ow \in [Sessions -> Slots], Register(l, ow)
      PROVE  Types'
  <2>1. [Free EXCEPT !.pc = "install", !.s = launches[l].s, !.files = launches[l].files]
          \in LaunchRecords
    BY <1>0 DEF Free, LaunchRecords, Stages, Alive
  <2>2. [NoEntry EXCEPT !.status = "starting", !.launch = l] \in Entries
    BY DEF NoEntry, Entries, Slots
  <2>3. owner' \in [Sessions -> Slots] /\ procs' \in [Sessions -> Slots]
    BY <1>3 DEF Register, Types
  <2>4. entries' \in [Sessions -> Entries]
    BY <1>0, <1>3, <2>2, EntryTypes DEF Register, Types
  <2>5. \E q \in LaunchRecords : launches' = [launches EXCEPT ![l] = q]
    BY <1>3, <2>1, FreeRecord DEF Register, Gone
  <2> QED
    BY <1>0, <2>3, <2>4, <2>5, WriteTypes
<1>4. ASSUME NEW ow \in [Sessions -> Slots], MakeRoom(l, ow)
      PROVE  Types'
  <2>1. "evicting" \in Stages
    BY DEF Stages
  <2> QED
    BY <1>0, <1>1, <1>3, <1>4, <2>1, StopTypes DEF MakeRoom
<1>5. CASE Evicted(l)
  BY <1>4, <1>5 DEF Evicted, Types
<1>6. CASE Mint(l)
  <2> DEFINE ow == [owner EXCEPT ![launches[l].s] = l]
  <2>1. ow \in [Sessions -> Slots]
    BY DEF Types, Slots
  <2> HIDE DEF ow
  <2>2. ASSUME owner' = ow, UNCHANGED <<entries, procs>>,
               NEW end \in {"stopped", "unsupported"}, launches' = Ending(l, end)
        PROVE  Types'
    <3>1. \E q \in LaunchRecords : launches' = [launches EXCEPT ![l] = q]
      BY <2>2, EndingRecord
    <3> QED
      BY <1>0, <2>1, <2>2, <3>1, WriteTypes DEF Types
  <2>3. CASE /\ owner' = ow /\ UNCHANGED procs
             /\ Set(launches[l].s, [status |-> "ready", static |-> TRUE, port |-> 0,
                      files |-> launches[l].files, launch |-> l])
             /\ launches' = [launches EXCEPT ![l] =
                               [Free EXCEPT !.pc = "up", !.s = launches[l].s]]
    <3>1. [Free EXCEPT !.pc = "up", !.s = launches[l].s] \in LaunchRecords
      BY <1>0 DEF Free, LaunchRecords, Stages, Alive
    <3>2. [status |-> "ready", static |-> TRUE, port |-> 0,
           files |-> launches[l].files, launch |-> l] \in Entries
      BY <1>0 DEF Entries, Slots
    <3>3. entries' \in [Sessions -> Entries]
      BY <1>0, <2>3, <3>2, EntryTypes
    <3> QED
      BY <1>0, <2>1, <2>3, <3>1, <3>3, WriteTypes DEF Types
  <2> QED
    BY <1>4, <1>6, <2>1, <2>2, <2>3 DEF Mint, ow
<1>7. ASSUME NEW p \in Ports \cup {0}, Spawn(l, p), UNCHANGED <<entries, owner>>
      PROVE  Types'
  <2>1. [launches[l] EXCEPT !.pc = "probe", !.port = p, !.child = "booting"] \in LaunchRecords
    BY <1>0 DEF LaunchRecords, Stages, Alive
  <2>2. \E q \in LaunchRecords : launches' = [launches EXCEPT ![l] = q]
    <3>1. CASE Owns(l)
      <4>1. launches' = [launches EXCEPT ![l] =
                [launches[l] EXCEPT !.pc = "probe", !.port = p, !.child = "booting"]]
        BY <1>7, <3>1 DEF Spawn, Types
      <4> QED
        BY <2>1, <4>1
    <3>2. CASE ~Owns(l)
      BY <1>7, <3>2, FreeRecord DEF Spawn, Gone
    <3> QED
      BY <3>1, <3>2
  <2>3. procs' \in [Sessions -> Slots]
    BY <1>0, <1>7 DEF Spawn, Types, Slots
  <2> QED
    BY <1>0, <1>7, <2>2, <2>3, WriteTypes DEF Types
<1>8. CASE Allocate(l) \/ Bindable(l)
  <2>1. entries' = entries /\ owner' = owner
    BY <1>8 DEF Allocate, Bindable
  <2>2. ASSUME NEW pc \in {"bindable", "allocate"}, NEW p \in Ports \cup {0}, UNCHANGED procs,
               launches' = [launches EXCEPT ![l].pc = pc, ![l].port = p]
        PROVE  Types'
    <3> DEFINE q == [launches[l] EXCEPT !.pc = pc, !.port = p]
    <3>1. q \in LaunchRecords
      BY <1>0 DEF LaunchRecords, Stages
    <3>2. launches' = [launches EXCEPT ![l] = q]
      BY <2>2 DEF Types
    <3> HIDE DEF q
    <3> QED
      BY <1>0, <2>1, <2>2, <3>1, <3>2, WriteTypes DEF Types
  <2>3. CASE Allocate(l)
    BY <1>7, <2>1, <2>2, <2>3 DEF Allocate
  <2>4. CASE Bindable(l)
    BY <1>0, <1>7, <2>1, <2>2, <2>4 DEF Bindable
  <2> QED
    BY <1>8, <2>3, <2>4
<1>9. CASE Ready(l)
  <2>1. [status |-> "ready", static |-> FALSE, port |-> launches[l].port,
         files |-> launches[l].files, launch |-> l] \in Entries
    BY <1>0 DEF Entries, Slots
  <2>2. [Free EXCEPT !.pc = "up", !.s = launches[l].s, !.port = launches[l].port,
                     !.child = launches[l].child] \in LaunchRecords
    BY <1>0 DEF Free, LaunchRecords, Stages
  <2>3. entries' \in [Sessions -> Entries]
    BY <1>0, <1>9, <2>1, EntryTypes DEF Ready
  <2> QED
    BY <1>0, <1>9, <2>2, <2>3, WriteTypes DEF Ready, Types
<1>10. CASE Settle(l) \/ Crash(l)
  <2>1. \A st \in {"none", "stopped", "unsupported", "failed"} :
          [NoEntry EXCEPT !.status = st, !.port = launches[l].port] \in Entries
    BY <1>0 DEF NoEntry, Entries, Slots
  <2>2. entries' \in [Sessions -> Entries]
    <3>1. CASE Settle(l)
      BY <1>0, <2>1, <3>1, EntryTypes DEF Settle, Types
    <3>2. CASE Crash(l)
      BY <1>0, <2>1, <3>2, EntryTypes DEF Crash
    <3> QED
      BY <1>10, <3>1, <3>2
  <2>3. procs' \in [Sessions -> Slots] /\ owner' = owner
    BY <1>0, <1>10 DEF Settle, Crash, Types, Slots
  <2>4. launches' = [launches EXCEPT ![l] = Free]
    BY <1>10 DEF Settle, Crash, Gone
  <2> QED
    BY <1>0, <2>2, <2>3, <2>4, FreeRecord, WriteTypes DEF Types
<1> QED
  BY <1>2, <1>5, <1>6, <1>8, <1>9, <1>10

LEMMA StopPreviewTypes ==
  ASSUME Types, NEW s \in Sessions, StopPreview(s)
  PROVE  Types'
BY StopTypes DEF StopPreview, Types

LEMMA NextHolds == Types /\ Placed /\ [Next]_vars => Types' /\ Placed'
<1> SUFFICES ASSUME Types, Placed, [Next]_vars PROVE Types' /\ Placed'
  OBVIOUS
<1>1. ASSUME NEW l \in Launches, Compare(l) \/ Read(l) \/ MaterializeFails(l) \/ Install(l)
      PROVE  Types' /\ Placed'
  BY <1>1, LaunchTypes, CompareKeeps, ReadKeeps, MaterializeFailsKeeps, InstallKeeps
<1>2. ASSUME NEW l \in Launches,
             Listen(l) \/ Die(l) \/ Answer(l) \/ StandDown(l) \/ GiveUp(l)
      PROVE  Types' /\ Placed'
  BY <1>2, LaunchTypes, ChildKeeps, LeavingKeeps
<1>3. ASSUME NEW l \in Launches, Begin(l) \/ Mint(l) \/ Evicted(l) \/ Allocate(l)
      PROVE  Types' /\ Placed'
  BY <1>3, RegistryTypes, BeginKeeps, MintKeeps, EvictedKeeps, AllocateKeeps
<1>4. ASSUME NEW l \in Launches, Bindable(l) \/ Ready(l) \/ Settle(l) \/ Crash(l)
      PROVE  Types' /\ Placed'
  BY <1>4, RegistryTypes, BindableKeeps, ReadyKeeps, SettleKeeps, CrashKeeps
<1>5. ASSUME NEW s \in Sessions, Ask(s) \/ OnDone(s) \/ Finally(s) \/ VerifyBoot(s)
      PROVE  Types' /\ Placed'
  BY <1>5, CoordinatorTypes, AskKeeps, OnDoneKeeps, FinallyKeeps, VerifyBootKeeps
<1>6. ASSUME NEW s \in Sessions, StopPreview(s)
      PROVE  Types' /\ Placed'
  BY <1>6, StopPreviewTypes, StopPreviewKeeps
<1>7. ASSUME NEW s \in Sessions, Rebuild(s)
      PROVE  Types' /\ Placed'
  BY <1>7, CoordinatorTypes, RegistryStands DEF Rebuild, registry
<1>8. CASE UNCHANGED vars
  <2>1. UNCHANGED <<entries, owner, procs, launches, inFlight, pendingDone, code, shipped>>
    BY <1>8 DEF vars, registry
  <2>2. Types'
    BY <2>1 DEF Types
  <2> QED
    BY <2>1, <2>2, RegistryStands
<1> QED
  BY <1>1, <1>2, <1>3, <1>4, <1>5, <1>6, <1>7, <1>8 DEF Next, Advance

LEMMA PlacedHolds == Spec => [](Types /\ Placed)
BY InitHolds, NextHolds, PTL DEF Spec

\* Every child that may run is the one its session tracks: a stop or the shutdown kills
\* it (procs of PreviewRegistry.ts), whatever launches, stops and evictions interleave.
THEOREM NoChildEscapes == Spec => []ChildrenAreTracked
<1>1. Types /\ Placed => ChildrenAreTracked
  BY DEF Placed, LaunchHolds, Alive, ChildrenAreTracked
<1> QED
  BY <1>1, PlacedHolds, PTL

\* A live entry is backed by the launch that holds its session's token, at its stage.
THEOREM LiveEntriesAreOwned == Spec => []LiveIsOwned
<1>1. Types /\ Placed => LiveIsOwned
  BY DEF Placed, SessionHolds, Live, Launching, LiveIsOwned
<1> QED
  BY <1>1, PlacedHolds, PTL

-----------------------------------------------------------------------------
(* The cap                                                                 *)

Heavy == {s \in Sessions : CountsTowardCap(s)}

\* No preview comes to count that did not, or one does and there was room.
LEMMA CapStep ==
  ASSUME CapHolds,
         \/ \A t \in Sessions : CountsTowardCap(t)' => CountsTowardCap(t)
         \/ /\ ~AtCapacity
            /\ \E s \in Sessions : \A t \in Sessions \ {s} : CountsTowardCap(t)' => CountsTowardCap(t)
  PROVE  CapHolds'
<1>1. IsFiniteSet(Heavy) /\ IsFiniteSet(Heavy') /\ Heavy \in SUBSET Sessions
  BY PreviewAssumption, FS_Subset DEF Heavy
<1>2. Cardinality(Heavy) \in Nat /\ Cardinality(Heavy') \in Nat /\ MaxConcurrent \in Nat
  BY <1>1, FS_CardinalityType, PreviewAssumption
<1>3. Cardinality(Heavy) <= MaxConcurrent
  BY DEF CapHolds, Heavy
<1>4. CASE \A t \in Sessions : CountsTowardCap(t)' => CountsTowardCap(t)
  <2>1. Heavy' \in SUBSET Heavy
    BY <1>4 DEF Heavy
  <2>2. Cardinality(Heavy') <= Cardinality(Heavy)
    BY <1>1, <2>1, FS_Subset
  <2> QED
    BY <1>2, <1>3, <2>2 DEF CapHolds, Heavy
<1>5. ASSUME ~AtCapacity, NEW s \in Sessions,
             \A t \in Sessions \ {s} : CountsTowardCap(t)' => CountsTowardCap(t)
      PROVE  CapHolds'
  <2>1. ~(Cardinality(Heavy) >= MaxConcurrent)
    BY <1>5 DEF AtCapacity, Heavy
  <2>2. Heavy' \in SUBSET (Heavy \cup {s})
    BY <1>5 DEF Heavy
  <2>3. /\ IsFiniteSet(Heavy \cup {s})
        /\ \/ Cardinality(Heavy \cup {s}) = Cardinality(Heavy)
           \/ Cardinality(Heavy \cup {s}) = Cardinality(Heavy) + 1
    BY <1>1, FS_AddElement
  <2>4. Cardinality(Heavy') <= Cardinality(Heavy \cup {s})
    BY <2>2, <2>3, FS_Subset
  <2>5. Cardinality(Heavy') <= MaxConcurrent
    BY <1>2, <2>1, <2>3, <2>4
  <2> QED
    BY <2>5 DEF CapHolds, Heavy
<1> QED
  BY <1>4, <1>5

\* An entry that is written does not count, or counted before.
LEMMA EntryCounts ==
  ASSUME Types, CapHolds, NEW s \in Sessions, NEW e, Set(s, e),
         e.status \in {"starting", "ready"} /\ ~e.static => CountsTowardCap(s)
  PROVE  CapHolds'
<1>1. entries'[s] = e /\ \A t \in Sessions \ {s} : entries'[t] = entries[t]
  BY DEF Set, Types
<1>2. \A t \in Sessions : CountsTowardCap(t)' => CountsTowardCap(t)
  BY <1>1 DEF CountsTowardCap
<1> QED
  BY <1>2, CapStep

LEMMA StandsCounts ==
  ASSUME CapHolds, UNCHANGED entries
  PROVE  CapHolds'
<1>1. \A t \in Sessions : CountsTowardCap(t)' => CountsTowardCap(t)
  BY DEF CountsTowardCap
<1> QED
  BY <1>1, CapStep

LEMMA StopCounts ==
  ASSUME Types, CapHolds, NEW s \in Sessions, NEW ow, NEW ls, Stop(s, ow, ls)
  PROVE  CapHolds'
<1>1. CASE entries[s] = NoEntry
  BY <1>1, StandsCounts DEF Stop
<1>2. CASE entries[s] # NoEntry
  <2> DEFINE e == [entries[s] EXCEPT !.status = "stopped", !.launch = 0]
  <2>1. e.status = "stopped" /\ Set(s, e)
    BY <1>2 DEF Types, Entries, Stop
  <2> HIDE DEF e
  <2> QED
    BY <2>1, EntryCounts
<1> QED
  BY <1>1, <1>2

LEMMA RoomCounts ==
  ASSUME Types, CapHolds, NEW l \in Launches, launches[l].s \in Sessions,
         NEW ow, MakeRoom(l, ow)
  PROVE  CapHolds'
<1> DEFINE e == [NoEntry EXCEPT !.status = "starting", !.launch = l]
<1>1. CASE AtCapacity /\ launches[l].s \notin Verify
  BY <1>1, StopCounts DEF MakeRoom
<1>2. CASE ~(AtCapacity /\ launches[l].s \notin Verify) /\ UNCHANGED entries
  BY <1>2, StandsCounts
<1>3. CASE ~(AtCapacity /\ launches[l].s \notin Verify) /\ Set(launches[l].s, e)
  <2>1. PICK s \in Sessions : s = launches[l].s
    OBVIOUS
  <2>2. \A t \in Sessions \ {s} : entries'[t] = entries[t]
    BY <1>3, <2>1 DEF Set, Types
  <2>3. \A t \in Sessions \ {s} : CountsTowardCap(t)' => CountsTowardCap(t)
    BY <2>2 DEF CountsTowardCap
  <2>4. CASE s \in Verify
    <3>1. \A t \in Sessions : CountsTowardCap(t)' => CountsTowardCap(t)
      BY <2>3, <2>4 DEF CountsTowardCap
    <3> QED
      BY <3>1, CapStep
  <2>5. CASE s \notin Verify
    BY <1>3, <2>1, <2>3, <2>5, CapStep
  <2> QED
    BY <2>4, <2>5
<1> QED
  BY <1>1, <1>2, <1>3 DEF MakeRoom, Register

LEMMA CapKept == Types /\ Placed /\ CapHolds /\ [Next]_vars => CapHolds'
<1> SUFFICES ASSUME Types, Placed, CapHolds, [Next]_vars PROVE CapHolds'
  OBVIOUS
<1>0. \A l \in Launches : launches[l].pc # "free" => launches[l].s \in Sessions
  BY DEF Placed, LaunchHolds
<1>1. ASSUME NEW l \in Launches,
             \/ Compare(l) \/ Read(l) \/ MaterializeFails(l) \/ Install(l) \/ Listen(l)
             \/ Die(l) \/ Answer(l) \/ StandDown(l) \/ GiveUp(l) \/ Allocate(l) \/ Bindable(l)
      PROVE  UNCHANGED entries
  BY <1>1 DEF Compare, Read, MaterializeFails, Install, Listen, Die, Answer, StandDown,
              GiveUp, Allocate, Bindable, registry
<1>2. ASSUME NEW s \in Sessions,
             Ask(s) \/ OnDone(s) \/ Finally(s) \/ VerifyBoot(s) \/ Rebuild(s)
      PROVE  UNCHANGED entries
  BY <1>2 DEF Ask, OnDone, Finally, VerifyBoot, Rebuild, registry
<1>3. ASSUME NEW l \in Launches, Begin(l) PROVE CapHolds'
  BY <1>0, <1>3, StopCounts DEF Begin
<1>4. ASSUME NEW l \in Launches, Evicted(l) PROVE CapHolds'
  BY <1>0, <1>4, RoomCounts DEF Evicted
<1>5. ASSUME NEW l \in Launches, Mint(l) PROVE CapHolds'
  <2> DEFINE e == [status |-> "ready", static |-> TRUE, port |-> 0,
                   files |-> launches[l].files, launch |-> l]
  <2>1. launches[l].s \in Sessions
    BY <1>0, <1>5 DEF Mint
  <2>2. CASE MakeRoom(l, [owner EXCEPT ![launches[l].s] = l])
    BY <2>1, <2>2, RoomCounts
  <2>3. CASE Set(launches[l].s, e)
    <3>1. e.static
      OBVIOUS
    <3> HIDE DEF e
    <3> QED
      BY <2>1, <2>3, <3>1, EntryCounts
  <2>4. CASE UNCHANGED entries
    BY <2>4, StandsCounts
  <2> QED
    BY <1>5, <2>2, <2>3, <2>4 DEF Mint
<1>6. ASSUME NEW l \in Launches, Ready(l) PROVE CapHolds'
  <2> DEFINE e == [status |-> "ready", static |-> FALSE, port |-> launches[l].port,
                   files |-> launches[l].files, launch |-> l]
  <2>1. launches[l].pc = "probe" /\ Owns(l) /\ Set(launches[l].s, e)
    BY <1>6 DEF Ready
  <2>2. launches[l].s \in Sessions
    BY <1>0, <2>1
  <2>3. /\ entries[launches[l].s].status = "starting" /\ ~entries[launches[l].s].static
    BY <2>1 DEF Placed, LaunchHolds, Owns, Launching
  <2>4. CASE launches[l].s \notin Verify
    <3>1. CountsTowardCap(launches[l].s)
      BY <2>3, <2>4 DEF CountsTowardCap
    <3> HIDE DEF e
    <3> QED
      BY <2>1, <2>2, <3>1, EntryCounts
  <2>5. CASE launches[l].s \in Verify
    <3>1. PICK s \in Sessions : s = launches[l].s
      BY <2>2
    <3>2. \A t \in Sessions \ {s} : entries'[t] = entries[t]
      BY <2>1, <3>1 DEF Set, Types
    <3>3. \A t \in Sessions : CountsTowardCap(t)' => CountsTowardCap(t)
      BY <2>5, <3>1, <3>2 DEF CountsTowardCap
    <3> QED
      BY <3>3, CapStep
  <2> QED
    BY <2>4, <2>5
<1>7. ASSUME NEW l \in Launches, Settle(l) \/ Crash(l) PROVE CapHolds'
  <2>1. launches[l].s \in Sessions
    BY <1>0, <1>7 DEF Settle, Crash
  <2>2. launches[l].end \in {"none", "stopped", "unsupported", "failed"}
    BY DEF Types, LaunchRecords
  <2>3. ASSUME NEW st \in {"none", "stopped", "unsupported", "failed"},
               Set(launches[l].s, [NoEntry EXCEPT !.status = st, !.port = launches[l].port])
        PROVE  CapHolds'
    <3> DEFINE e == [NoEntry EXCEPT !.status = st, !.port = launches[l].port]
    <3>1. e.status = st
      BY DEF NoEntry
    <3> HIDE DEF e
    <3>2. Set(launches[l].s, e)
      BY <2>3 DEF e
    <3> QED
      BY <2>1, <3>1, <3>2, EntryCounts
  <2> QED
    BY <1>7, <2>2, <2>3, StandsCounts DEF Settle, Crash
<1>8. ASSUME NEW s \in Sessions, StopPreview(s) PROVE CapHolds'
  BY <1>8, StopCounts DEF StopPreview
<1>9. UNCHANGED vars => UNCHANGED entries
  BY DEF vars, registry
<1> QED
  BY <1>1, <1>2, <1>3, <1>4, <1>5, <1>6, <1>7, <1>8, <1>9, StandsCounts DEF Next, Advance

\* The heavy previews never pass the cap, however starts and evictions race: a start
\* counts its room and registers in one step (makeRoom of PreviewRegistry.ts).
THEOREM CapIsKept == Spec => []CapHolds
<1>1. Init => CapHolds
  <2> SUFFICES ASSUME Init PROVE CapHolds
    OBVIOUS
  <2>1. Heavy = {}
    BY DEF Init, Heavy, CountsTowardCap, NoEntry
  <2>2. Cardinality(Heavy) = 0
    BY <2>1, FS_EmptySet
  <2> QED
    BY <2>2, PreviewAssumption DEF CapHolds, Heavy
<1> QED
  BY <1>1, CapKept, PlacedHolds, PTL DEF Spec

-----------------------------------------------------------------------------
(* What is served                                                          *)

\* A session's preview, if it is ready, serves what last shipped, or a restart of it is
\* to come: after a done that waits, or in a start that has yet to compare or read.
Served(s) ==
  \/ s \in pendingDone
  \/ entries[s].status = "ready" => entries[s].files >= shipped[s]
  \/ \E l \in Launches : launches[l].s = s /\ launches[l].pc \in Reading

\* A start that has read the files holds what last shipped, unless a done came since.
FilesHold(l) ==
  LET q == launches[l] IN
  /\ q.pc \in {"files", "stopping", "evicting"} \cup Launching /\ q.s \notin pendingDone =>
       q.files >= shipped[q.s]
  /\ q.pc = "compare" /\ entries[q.s].status = "ready" => entries[q.s].files = q.files

Shipped(s) == shipped[s] <= code[s] /\ (s \in Verify => shipped[s] = 0)

Serving ==
  /\ \A s \in Sessions : Served(s) /\ Shipped(s)
  /\ \A l \in Launches : FilesHold(l)

Carrying == {"files", "stopping", "evicting"} \cup Launching

\* One launch moves on and no entry changes: a start that stops reading leaves an entry
\* that serves what shipped.
LEMMA ServeLocal ==
  ASSUME Types, Serving, NEW l \in Launches, NEW q \in LaunchRecords,
         launches' = [launches EXCEPT ![l] = q],
         UNCHANGED <<entries, pendingDone, shipped>>,
         \A s \in Sessions : code'[s] >= code[s] /\ code'[s] \in Nat,
         q.pc \in Carrying /\ q.s \notin pendingDone => q.files >= shipped[q.s],
         q.pc = "compare" /\ entries[q.s].status = "ready" => entries[q.s].files = q.files,
         launches[l].pc \in Reading =>
           \/ q.pc \in Reading /\ q.s = launches[l].s
           \/ entries[launches[l].s].status = "ready" =>
                entries[launches[l].s].files >= shipped[launches[l].s]
  PROVE  Serving'
<1>1. launches'[l] = q /\ \A k \in Launches \ {l} : launches'[k] = launches[k]
  BY DEF Types
<1>2. \A k \in Launches : FilesHold(k)'
  <2> SUFFICES ASSUME NEW k \in Launches PROVE FilesHold(k)'
    OBVIOUS
  <2>1. CASE k = l
    BY <1>1, <2>1 DEF FilesHold, Carrying
  <2>2. CASE k # l
    BY <1>1, <2>2 DEF Serving, FilesHold
  <2> QED
    BY <2>1, <2>2
<1>3. \A s \in Sessions : Shipped(s)'
  <2> SUFFICES ASSUME NEW s \in Sessions PROVE Shipped(s)'
    OBVIOUS
  <2>1. Shipped(s) /\ shipped[s] \in Nat /\ code[s] \in Nat
    BY DEF Serving, Types
  <2> QED
    BY <2>1 DEF Shipped
<1>4. \A s \in Sessions : Served(s)'
  <2> SUFFICES ASSUME NEW s \in Sessions, s \notin pendingDone, entries[s].status = "ready",
                      ~(entries[s].files >= shipped[s])
               PROVE  \E k \in Launches : launches'[k].s = s /\ launches'[k].pc \in Reading
    BY DEF Served
  <2>1. PICK k \in Launches : launches[k].s = s /\ launches[k].pc \in Reading
    BY DEF Serving, Served
  <2>2. CASE k = l
    BY <1>1, <2>1, <2>2
  <2>3. CASE k # l
    BY <1>1, <2>1, <2>3
  <2> QED
    BY <2>2, <2>3
<1> QED
  BY <1>2, <1>3, <1>4 DEF Serving

\* A launch past the stop, or up, writes its session's entry: if that says ready, it
\* serves the files the launch has read.
LEMMA ServeOwn ==
  ASSUME Types, Placed, Serving, NEW l \in Launches, NEW q \in LaunchRecords,
         NEW s \in Sessions, s = launches[l].s, launches[l].pc \in Past \cup {"up"},
         launches' = [launches EXCEPT ![l] = q], NEW e, Set(s, e), UNCHANGED coordinator,
         q.pc \notin {"files", "stopping", "evicting", "compare"},
         q.pc \in Launching => launches[l].pc \in Carrying /\ q.s = s /\ q.files = launches[l].files,
         e.status = "ready" => launches[l].pc \in Carrying /\ e.files = launches[l].files
  PROVE  Serving'
<1>1. launches'[l] = q /\ \A k \in Launches \ {l} : launches'[k] = launches[k]
  BY DEF Types
<1>2. entries'[s] = e /\ \A t \in Sessions \ {s} : entries'[t] = entries[t]
  BY DEF Set, Types
<1>3. UNCHANGED <<pendingDone, shipped, code>>
  BY DEF coordinator
<1>4. launches[l].pc \in Carrying /\ s \notin pendingDone => launches[l].files >= shipped[s]
  BY DEF Serving, FilesHold, Carrying
<1>5. \A k \in Launches : FilesHold(k)'
  <2> SUFFICES ASSUME NEW k \in Launches PROVE FilesHold(k)'
    OBVIOUS
  <2>1. CASE k = l
    BY <1>1, <1>3, <1>4, <2>1 DEF FilesHold, Launching
  <2>2. CASE k # l
    <3>1. FilesHold(k) /\ launches'[k] = launches[k] /\ LaunchHolds(k)
      BY <1>1, <2>2 DEF Serving, Placed
    <3>2. CASE launches[k].s # s \/ launches[k].pc = "free"
      <4>1. launches[k].pc # "free" => entries'[launches[k].s] = entries[launches[k].s]
        BY <1>2, <3>1, <3>2 DEF LaunchHolds
      <4> QED
        BY <1>3, <3>1, <4>1 DEF FilesHold, Launching
    <3>3. CASE launches[k].s = s /\ launches[k].pc # "free"
      <4>1. launches[l].pc = "up" /\ launches[k].pc \in Reading
        BY <2>2, <3>3, OthersOnlyRead
      <4>2. e.status # "ready"
        BY <4>1 DEF Carrying, Launching
      <4> QED
        BY <1>2, <1>3, <3>1, <3>3, <4>2 DEF FilesHold
    <3> QED
      BY <3>2, <3>3
  <2> QED
    BY <2>1, <2>2
<1>6. \A t \in Sessions : Shipped(t)'
  BY <1>3 DEF Serving, Shipped
<1>7. \A t \in Sessions : Served(t)'
  <2> SUFFICES ASSUME NEW t \in Sessions PROVE Served(t)'
    OBVIOUS
  <2>1. CASE t = s
    BY <1>2, <1>3, <1>4, <2>1 DEF Served
  <2>2. CASE t # s
    <3> SUFFICES ASSUME t \notin pendingDone, entries[t].status = "ready",
                        ~(entries[t].files >= shipped[t])
                 PROVE  \E k \in Launches : launches'[k].s = t /\ launches'[k].pc \in Reading
      BY <1>2, <1>3, <2>2 DEF Served
    <3>1. PICK k \in Launches : launches[k].s = t /\ launches[k].pc \in Reading
      BY DEF Serving, Served
    <3>2. k # l
      BY <2>2, <3>1
    <3> QED
      BY <1>1, <3>1, <3>2
  <2> QED
    BY <2>1, <2>2
<1> QED
  BY <1>5, <1>6, <1>7 DEF Serving

\* A stop ends the preview of its session, whatever launch it makes room for.
LEMMA ServeStop ==
  ASSUME Types, Placed, Serving, NEW s \in Sessions, NEW l \in Launches, NEW q \in LaunchRecords,
         NEW ow, NEW ls, ls = [launches EXCEPT ![l] = q], Stop(s, ow, ls),
         UNCHANGED coordinator, q.s = launches[l].s, q.files = launches[l].files,
         \/ q.pc = launches[l].pc
         \/ q.pc = "stopping" /\ launches[l].pc = "files" /\ launches[l].s = s
         \/ q.pc = "evicting" /\ launches[l].pc \in {"stopping", "evicting"}
  PROVE  Serving'
<1>1. ls[l] = q /\ \A k \in Launches \ {l} : ls[k] = launches[k]
  BY DEF Types
<1>2. \A k \in Launches :
        \/ launches'[k] = Free /\ ls[k].pc = "up"
        \/ /\ launches'[k].pc = ls[k].pc /\ launches'[k].s = launches[k].s
           /\ launches'[k].files = launches[k].files
  <2> SUFFICES ASSUME NEW k \in Launches, ~(k = entries[s].launch /\ ls[k].pc = "up")
               PROVE  /\ launches'[k].pc = ls[k].pc /\ launches'[k].s = launches[k].s
                      /\ launches'[k].files = launches[k].files
    BY DEF Stop, Stopped
  <2>1. ls[k] \in LaunchRecords /\ ls[k].s = launches[k].s /\ ls[k].files = launches[k].files
    BY <1>1 DEF Types
  <2>2. launches'[k] = [ls[k] EXCEPT !.child = "dead"] \/ launches'[k] = ls[k]
    BY DEF Stop, Stopped
  <2> QED
    BY <2>1, <2>2 DEF LaunchRecords
<1>3. UNCHANGED <<pendingDone, shipped, code>>
  BY DEF coordinator
<1>4. /\ entries'[s].status # "ready"
      /\ \A t \in Sessions \ {s} : entries'[t] = entries[t]
  <2>1. CASE entries[s] = NoEntry
    BY <2>1 DEF Stop, NoEntry
  <2>2. CASE entries[s] # NoEntry
    <3> DEFINE e == [entries[s] EXCEPT !.status = "stopped", !.launch = 0]
    <3>1. e.status = "stopped" /\ entries' = [entries EXCEPT ![s] = e]
      BY <2>2 DEF Types, Entries, Stop, Set
    <3> HIDE DEF e
    <3> QED
      BY <3>1 DEF Types
  <2> QED
    BY <2>1, <2>2
<1>5. Free.pc = "free"
  BY FreeRecord
<1>6. \A k \in Launches : FilesHold(k)'
  <2> SUFFICES ASSUME NEW k \in Launches, launches'[k].pc = ls[k].pc,
                      launches'[k].s = launches[k].s, launches'[k].files = launches[k].files
               PROVE  FilesHold(k)'
    BY <1>2, <1>5 DEF FilesHold, Launching
  <2>1. FilesHold(k) /\ LaunchHolds(k)
    BY DEF Serving, Placed
  <2>2. ls[k].pc \in Carrying => launches[k].pc \in Carrying
    BY <1>1 DEF Carrying
  <2>3. ls[k].pc = "compare" => launches[k].pc = "compare"
    BY <1>1
  <2>4. launches[k].pc = "compare" =>
          entries'[launches[k].s].status # "ready"
          \/ entries'[launches[k].s] = entries[launches[k].s]
    BY <1>4, <2>1 DEF LaunchHolds
  <2> QED
    BY <1>3, <2>1, <2>2, <2>3, <2>4 DEF FilesHold, Carrying
<1>7. \A t \in Sessions : Shipped(t)'
  BY <1>3 DEF Serving, Shipped
<1>8. \A t \in Sessions : Served(t)'
  <2> SUFFICES ASSUME NEW t \in Sessions, t # s PROVE Served(t)'
    BY <1>4 DEF Served
  <2> SUFFICES ASSUME t \notin pendingDone, entries[t].status = "ready",
                      ~(entries[t].files >= shipped[t])
               PROVE  \E k \in Launches : launches'[k].s = t /\ launches'[k].pc \in Reading
    BY <1>3, <1>4 DEF Served
  <2>1. PICK k \in Launches : launches[k].s = t /\ launches[k].pc \in Reading
    BY DEF Serving, Served
  <2>2. ls[k].pc = launches[k].pc
    BY <1>1, <2>1 DEF Reading
  <2> QED
    BY <1>2, <2>1, <2>2 DEF Reading
<1> QED
  BY <1>6, <1>7, <1>8 DEF Serving

\* A launch past the stop, or up, moves on by itself, with the files it has.
LEMMA ServeMoves ==
  ASSUME Types, Serving, NEW l \in Launches, NEW q \in LaunchRecords,
         launches' = [launches EXCEPT ![l] = q], UNCHANGED <<entries, coordinator>>,
         launches[l].pc \notin Reading, q.pc # "compare",
         q.pc \in Carrying =>
           launches[l].pc \in Carrying /\ q.s = launches[l].s /\ q.files = launches[l].files
  PROVE  Serving'
<1>1. UNCHANGED <<pendingDone, shipped, code>> /\ code \in [Sessions -> Nat]
  BY DEF coordinator, Types
<1>2. q.pc \in Carrying /\ q.s \notin pendingDone => q.files >= shipped[q.s]
  BY DEF Serving, FilesHold, Carrying
<1>3. \A s \in Sessions : code'[s] >= code[s] /\ code'[s] \in Nat
  BY <1>1
<1> QED
  BY <1>1, <1>2, <1>3, ServeLocal

\* The launch ends, or stands down.
LEMMA ServeEnds ==
  ASSUME Types, Serving, NEW l \in Launches, UNCHANGED <<entries, coordinator>>,
         launches[l].pc \notin Reading,
         \/ launches' = Gone(l)
         \/ \E end \in {"stopped", "unsupported", "failed"} : launches' = Ending(l, end)
  PROVE  Serving'
<1>1. CASE launches' = Gone(l)
  <2>1. launches' = [launches EXCEPT ![l] = Free]
    BY <1>1 DEF Gone
  <2> HIDE DEF Free
  <2> QED
    BY <2>1, FreeRecord, ServeMoves DEF Carrying, Launching
<1>2. ASSUME NEW end \in {"stopped", "unsupported", "failed"}, launches' = Ending(l, end)
      PROVE  Serving'
  <2>1. PICK q \in LaunchRecords : launches' = [launches EXCEPT ![l] = q] /\ q.pc = "tearing"
    BY <1>2, EndingRecord
  <2> QED
    BY <2>1, ServeMoves DEF Carrying, Launching
<1> QED
  BY <1>1, <1>2

LEMMA ServeSpawn ==
  ASSUME Types, Serving, NEW l \in Launches, launches[l].pc \in {"allocate", "bindable"},
         NEW p \in Ports \cup {0}, Spawn(l, p), UNCHANGED <<entries, coordinator>>
  PROVE  Serving'
<1>1. CASE Owns(l)
  <2> DEFINE q == [launches[l] EXCEPT !.pc = "probe", !.port = p, !.child = "booting"]
  <2>1. q \in LaunchRecords /\ q.pc = "probe" /\ q.s = launches[l].s
        /\ q.files = launches[l].files
    BY DEF Types, LaunchRecords, Stages, Alive
  <2>2. launches' = [launches EXCEPT ![l] = q]
    BY <1>1 DEF Spawn, Types
  <2> HIDE DEF q
  <2> QED
    BY <2>1, <2>2, ServeMoves DEF Carrying, Launching, Reading
<1>2. CASE ~Owns(l)
  BY <1>2, ServeEnds DEF Spawn, Reading
<1> QED
  BY <1>1, <1>2

\* The steps of a launch that take no entry with them.
LEMMA LaunchServes ==
  ASSUME Types, Placed, Serving, NEW l \in Launches,
         \/ Install(l) \/ Allocate(l) \/ Bindable(l) \/ StandDown(l) \/ GiveUp(l)
         \/ Listen(l) \/ Die(l) \/ Answer(l)
  PROVE  Serving'
<1>1. UNCHANGED <<entries, coordinator>>
  BY DEF Install, Allocate, Bindable, StandDown, GiveUp, Listen, Die, Answer, registry
<1>2. LaunchHolds(l) /\ launches[l] \in LaunchRecords
  BY DEF Placed, Types
<1>3. CASE Install(l)
  <2>1. CASE launches' = Ending(l, "failed")
    BY <1>1, <1>3, <2>1, ServeEnds DEF Install, Reading
  <2>2. CASE launches' = At(l, "allocate")
    <3> DEFINE q == [launches[l] EXCEPT !.pc = "allocate"]
    <3>1. q \in LaunchRecords /\ q.pc = "allocate" /\ q.s = launches[l].s
          /\ q.files = launches[l].files
      BY <1>2 DEF LaunchRecords, Stages
    <3>2. launches' = [launches EXCEPT ![l] = q]
      BY <2>2 DEF At, Types
    <3> HIDE DEF q
    <3> QED
      BY <1>1, <1>3, <3>1, <3>2, ServeMoves DEF Carrying, Launching, Reading, Install
  <2> QED
    BY <1>3, <2>1, <2>2 DEF Install
<1>4. CASE Allocate(l)
  <2>1. ASSUME NEW o \in Ports, Spawn(l, o) PROVE Serving'
    BY <1>1, <1>4, <2>1, ServeSpawn DEF Allocate
  <2>2. ASSUME NEW p \in Ports,
               launches' = [launches EXCEPT ![l].pc = "bindable", ![l].port = p]
        PROVE  Serving'
    <3> DEFINE q == [launches[l] EXCEPT !.pc = "bindable", !.port = p]
    <3>1. q \in LaunchRecords /\ q.pc = "bindable" /\ q.s = launches[l].s
          /\ q.files = launches[l].files
      BY <1>2 DEF LaunchRecords, Stages
    <3>2. launches' = [launches EXCEPT ![l] = q]
      BY <2>2 DEF Types
    <3> HIDE DEF q
    <3> QED
      BY <1>1, <1>4, <3>1, <3>2, ServeMoves DEF Carrying, Launching, Reading, Allocate
  <2> QED
    BY <1>4, <2>1, <2>2 DEF Allocate
<1>5. CASE Bindable(l)
  <2>1. CASE OsFree(launches[l].port)
    <3>1. launches[l].port \in Ports \cup {0} /\ launches[l].pc = "bindable"
      BY <1>2, <1>5 DEF LaunchRecords, Bindable
    <3> QED
      BY <1>1, <1>5, <2>1, <3>1, ServeSpawn DEF Bindable
  <2>2. CASE ~OsFree(launches[l].port)
    <3> DEFINE q == [launches[l] EXCEPT !.pc = "allocate", !.port = 0]
    <3>1. q \in LaunchRecords /\ q.pc = "allocate" /\ q.s = launches[l].s
          /\ q.files = launches[l].files
      BY <1>2 DEF LaunchRecords, Stages
    <3>2. launches' = [launches EXCEPT ![l] = q]
      BY <1>5, <2>2 DEF Bindable, Types
    <3> HIDE DEF q
    <3> QED
      BY <1>1, <1>5, <3>1, <3>2, ServeMoves DEF Carrying, Launching, Reading, Bindable
  <2> QED
    BY <2>1, <2>2
<1>6. CASE StandDown(l) \/ GiveUp(l)
  <2>1. launches[l].pc = "probe"
    BY <1>6 DEF StandDown, GiveUp
  <2> QED
    BY <1>1, <1>6, <2>1, ServeEnds DEF StandDown, GiveUp, Reading
<1>7. CASE Answer(l)
  <2> DEFINE q == [launches[l] EXCEPT !.answered = TRUE]
  <2>1. q \in LaunchRecords /\ q.pc = launches[l].pc /\ q.s = launches[l].s
        /\ q.files = launches[l].files /\ launches[l].pc = "probe"
    BY <1>2, <1>7 DEF LaunchRecords, Answer
  <2>2. launches' = [launches EXCEPT ![l] = q]
    BY <1>7 DEF Answer
  <2> HIDE DEF q
  <2> QED
    BY <1>1, <2>1, <2>2, ServeMoves DEF Reading
<1>8. CASE Listen(l) \/ Die(l)
  <2>1. PICK c \in {"listening", "dead"} :
          launches[l].child \in Alive /\ launches' = [launches EXCEPT ![l].child = c]
    BY <1>8 DEF Listen, Die, Alive
  <2> DEFINE q == [launches[l] EXCEPT !.child = c]
  <2>2. q \in LaunchRecords /\ q.pc = launches[l].pc /\ q.s = launches[l].s
        /\ q.files = launches[l].files /\ launches[l].pc \in {"probe", "up"}
    BY <1>2, <2>1 DEF LaunchRecords, Alive, LaunchHolds
  <2>3. launches' = [launches EXCEPT ![l] = q]
    BY <2>1
  <2> HIDE DEF q
  <2> QED
    BY <1>1, <2>2, <2>3, ServeMoves DEF Reading
<1> QED
  BY <1>3, <1>4, <1>5, <1>6, <1>7, <1>8

-----------------------------------------------------------------------------
(* What is served, over the coordinator's steps                            *)

LEMMA CompareServes ==
  ASSUME Types, Placed, Serving, NEW l \in Launches, Compare(l)
  PROVE  Serving'
<1> DEFINE s == launches[l].s
           q == IF code[s] = launches[l].files THEN Free ELSE Prewarm(s)
<1>1. /\ launches[l].pc = "compare" /\ launches' = [launches EXCEPT ![l] = q]
      /\ UNCHANGED <<entries, pendingDone, shipped, code>>
  BY DEF Compare, registry
<1>2. s \in Sessions
  BY <1>1 DEF Placed, LaunchHolds
<1>3. /\ Free \in LaunchRecords /\ Free.pc = "free"
      /\ Prewarm(s) \in LaunchRecords /\ Prewarm(s).pc = "read" /\ Prewarm(s).s = s
  BY <1>2 DEF Prewarm, Free, LaunchRecords, Stages, Alive
<1>4. /\ q \in LaunchRecords
      /\ \/ q.pc = "free" /\ code[s] = launches[l].files
         \/ q.pc = "read" /\ q.s = s
  BY <1>3
<1> HIDE DEF q
<1>5. FilesHold(l) /\ Shipped(s) /\ code[s] \in Nat /\ shipped[s] \in Nat
  BY <1>2 DEF Serving, Types
<1>6. code[s] = launches[l].files /\ entries[s].status = "ready" => entries[s].files >= shipped[s]
  BY <1>1, <1>5 DEF FilesHold, Shipped
<1>7. \A t \in Sessions : code'[t] >= code[t] /\ code'[t] \in Nat
  BY <1>1 DEF Types
<1> QED
  BY <1>1, <1>4, <1>6, <1>7, ServeLocal DEF Carrying, Launching, Reading

LEMMA ReadServes ==
  ASSUME Types, Placed, Serving, NEW l \in Launches, Read(l)
  PROVE  Serving'
<1> DEFINE s == launches[l].s
<1>1. launches[l].pc = "read" /\ UNCHANGED <<entries, pendingDone, shipped, code>>
  BY DEF Read, registry
<1>2. s \in Sessions
  BY <1>1 DEF Placed, LaunchHolds
<1>3. /\ Shipped(s) /\ code[s] \in Nat /\ shipped[s] \in Nat /\ entries[s].files \in Nat
      /\ launches[l] \in LaunchRecords
  BY <1>2 DEF Serving, Types, Entries
<1>4. \A t \in Sessions : code'[t] >= code[t] /\ code'[t] \in Nat
  BY <1>1 DEF Types
<1>5. CASE code[s] = 0 /\ launches' = [launches EXCEPT ![l] = Free]
  <2>1. entries[s].files >= shipped[s]
    BY <1>3, <1>5 DEF Shipped
  <2> HIDE DEF Free
  <2> QED
    BY <1>1, <1>4, <1>5, <2>1, FreeRecord, ServeLocal DEF Carrying, Launching, Reading
<1>6. ASSUME NEW k \in Kinds,
             launches' = [launches EXCEPT ![l].pc = "files", ![l].files = code[s], ![l].kind = k]
      PROVE  Serving'
  <2> DEFINE q == [launches[l] EXCEPT !.pc = "files", !.files = code[s], !.kind = k]
  <2>1. q \in LaunchRecords /\ q.pc = "files" /\ q.s = s /\ q.files = code[s]
    BY <1>3 DEF LaunchRecords, Stages
  <2>2. launches' = [launches EXCEPT ![l] = q]
    BY <1>6 DEF Types
  <2> HIDE DEF q
  <2>3. q.files >= shipped[q.s]
    BY <1>3, <2>1 DEF Shipped
  <2> QED
    BY <1>1, <1>4, <2>1, <2>2, <2>3, ServeLocal DEF Reading
<1> QED
  BY <1>5, <1>6 DEF Read

LEMMA VerifyBootServes ==
  ASSUME Types, Serving, NEW s \in Sessions, VerifyBoot(s)
  PROVE  Serving'
<1> DEFINE q == [Free EXCEPT !.pc = "files", !.s = s, !.kind = "heavy"]
<1>1. PICK l \in Launches : launches[l].pc = "free" /\ launches' = [launches EXCEPT ![l] = q]
  BY DEF VerifyBoot
<1>2. q \in LaunchRecords /\ q.pc = "files" /\ q.s = s /\ q.files = 0
  BY DEF Free, LaunchRecords, Stages, Alive
<1> HIDE DEF q
<1>3. UNCHANGED <<entries, pendingDone, shipped>> /\ shipped[s] = 0
  BY DEF VerifyBoot, registry, Serving, Shipped
<1>4. \A t \in Sessions : code'[t] >= code[t] /\ code'[t] \in Nat
  BY DEF VerifyBoot, Types
<1>5. q.files >= shipped[q.s] /\ q.pc # "compare" /\ launches[l].pc \notin Reading
  BY <1>1, <1>2, <1>3 DEF Reading
<1> QED
  BY <1>1, <1>2, <1>3, <1>4, <1>5, ServeLocal

\* New code is none that shipped.
LEMMA RebuildServes ==
  ASSUME Types, Serving, NEW s \in Sessions, Rebuild(s)
  PROVE  Serving'
<1>1. PICK l \in Launches : TRUE
  BY PreviewAssumption
<1>2. launches[l] \in LaunchRecords /\ launches' = [launches EXCEPT ![l] = launches[l]]
  BY DEF Types, Rebuild
<1>3. UNCHANGED <<entries, pendingDone, shipped>>
  BY DEF Rebuild, registry
<1>4. \A t \in Sessions : code'[t] >= code[t] /\ code'[t] \in Nat
  BY DEF Rebuild, Types
<1>5. FilesHold(l)
  BY DEF Serving
<1> QED
  BY <1>2, <1>3, <1>4, <1>5, ServeLocal DEF FilesHold, Carrying

\* A workspace that cannot be written leaves nothing to serve.
LEMMA MaterializeFailsServes ==
  ASSUME Types, Placed, Serving, NEW l \in Launches, MaterializeFails(l)
  PROVE  Serving'
<1>0. PICK s \in Sessions : s = launches[l].s
  BY DEF Placed, LaunchHolds, MaterializeFails
<1>1. /\ launches[l].pc = "files" /\ launches' = [launches EXCEPT ![l] = Free]
      /\ shipped' = [shipped EXCEPT ![s] = 0] /\ UNCHANGED <<entries, pendingDone, code>>
  BY <1>0 DEF MaterializeFails, registry
<1> HIDE DEF Free
<1>2. /\ launches'[l].pc = "free" /\ \A k \in Launches \ {l} : launches'[k] = launches[k]
      /\ shipped'[s] = 0 /\ \A t \in Sessions \ {s} : shipped'[t] = shipped[t]
  BY <1>1, FreeRecord DEF Types
<1>3. \A k \in Launches : FilesHold(k)'
  <2> SUFFICES ASSUME NEW k \in Launches PROVE FilesHold(k)'
    OBVIOUS
  <2>1. CASE k = l
    BY <1>2, <2>1 DEF FilesHold, Launching
  <2>2. CASE k # l
    <3>1. /\ FilesHold(k) /\ LaunchHolds(k) /\ launches[k].files \in Nat
          /\ launches'[k] = launches[k]
      BY <1>2, <2>2 DEF Serving, Placed, Types, LaunchRecords
    <3>2. launches[k].pc # "free" => shipped'[launches[k].s] \in {0, shipped[launches[k].s]}
      BY <1>2, <3>1 DEF LaunchHolds
    <3> QED
      BY <1>1, <3>1, <3>2 DEF FilesHold, Launching
  <2> QED
    BY <2>1, <2>2
<1>4. \A t \in Sessions : Shipped(t)'
  <2> SUFFICES ASSUME NEW t \in Sessions PROVE Shipped(t)'
    OBVIOUS
  <2>1. Shipped(t) /\ code[t] \in Nat /\ shipped'[t] \in {0, shipped[t]}
    BY <1>2 DEF Serving, Types
  <2> QED
    BY <1>1, <2>1 DEF Shipped
<1>5. \A t \in Sessions : Served(t)'
  <2> SUFFICES ASSUME NEW t \in Sessions PROVE Served(t)'
    OBVIOUS
  <2>1. CASE t = s
    <3>1. entries[t].files \in Nat /\ shipped'[t] = 0
      BY <1>2, <2>1 DEF Types, Entries
    <3> QED
      BY <1>1, <3>1 DEF Served
  <2>2. CASE t # s
    <3> SUFFICES ASSUME t \notin pendingDone, entries[t].status = "ready",
                        ~(entries[t].files >= shipped[t])
                 PROVE  \E k \in Launches : launches'[k].s = t /\ launches'[k].pc \in Reading
      BY <1>1, <1>2, <2>2 DEF Served
    <3>1. PICK k \in Launches : launches[k].s = t /\ launches[k].pc \in Reading
      BY DEF Serving, Served
    <3> QED
      BY <1>0, <1>2, <2>2, <3>1
  <2> QED
    BY <2>1, <2>2
<1> QED
  BY <1>3, <1>4, <1>5 DEF Serving

\* A start begins for a session that has none under way, whatever the session is told
\* has shipped.
LEMMA ServeBegins ==
  ASSUME Types, Placed, Serving, NEW s \in Sessions, NEW l \in Launches, NEW q \in LaunchRecords,
         launches' = [launches EXCEPT ![l] = q], launches[l].pc = "free",
         UNCHANGED <<entries, code>>, q.pc \in {"read", "compare"}, q.s = s,
         q.pc = "compare" => q.files = entries[s].files,
         \A k \in Launches : launches[k].s = s => launches[k].pc \notin Busy,
         \A t \in Sessions \ {s} :
           shipped'[t] = shipped[t] /\ (t \in pendingDone' <=> t \in pendingDone),
         shipped'[s] <= code[s], s \in Verify => shipped'[s] = 0
  PROVE  Serving'
<1>1. launches'[l] = q /\ \A k \in Launches \ {l} : launches'[k] = launches[k]
  BY DEF Types
<1>2. \A k \in Launches : FilesHold(k)'
  <2> SUFFICES ASSUME NEW k \in Launches PROVE FilesHold(k)'
    OBVIOUS
  <2>1. CASE k = l
    BY <1>1, <2>1 DEF FilesHold, Launching
  <2>2. CASE k # l
    <3>1. FilesHold(k) /\ LaunchHolds(k) /\ launches'[k] = launches[k]
      BY <1>1, <2>2 DEF Serving, Placed
    <3>2. CASE launches[k].s = s
      BY <3>1, <3>2 DEF FilesHold, Busy, Reading, Past, Launching
    <3>3. CASE launches[k].s # s
      BY <3>1, <3>3 DEF FilesHold, LaunchHolds, Launching
    <3> QED
      BY <3>2, <3>3
  <2> QED
    BY <2>1, <2>2
<1>3. \A t \in Sessions : Shipped(t)'
  BY DEF Serving, Shipped
<1>4. \A t \in Sessions : Served(t)'
  <2> SUFFICES ASSUME NEW t \in Sessions PROVE Served(t)'
    OBVIOUS
  <2>1. CASE t = s
    BY <1>1, <2>1 DEF Served, Reading
  <2>2. CASE t # s
    <3> SUFFICES ASSUME t \notin pendingDone, entries[t].status = "ready",
                        ~(entries[t].files >= shipped[t])
                 PROVE  \E k \in Launches : launches'[k].s = t /\ launches'[k].pc \in Reading
      BY <2>2 DEF Served
    <3>1. PICK k \in Launches : launches[k].s = t /\ launches[k].pc \in Reading
      BY DEF Serving, Served
    <3> QED
      BY <1>1, <3>1 DEF Reading
  <2> QED
    BY <2>1, <2>2
<1> QED
  BY <1>2, <1>3, <1>4 DEF Serving

LEMMA FirstStages ==
  ASSUME NEW s \in Sessions, NEW q \in {Explicit(s), Prewarm(s), Restart(s)}
  PROVE  q.pc \in {"read", "compare"} /\ (q.pc = "compare" => q.files = entries[s].files)
BY DEF Explicit, Prewarm, Restart, Free

LEMMA AskServes ==
  ASSUME Types, Placed, Serving, NEW s \in Sessions, Ask(s)
  PROVE  Serving'
<1>1. PICK l \in Launches : Begins(l, s, Explicit(s))
  BY DEF Ask
<1>2. s \notin Verify /\ s \notin inFlight /\ UNCHANGED <<entries, pendingDone, code, shipped>>
  BY DEF Ask, registry
<1>3. Shipped(s)
  BY DEF Serving
<1> DEFINE q == Explicit(s)
<1>4. /\ q \in LaunchRecords /\ q.s = s /\ q.pc \in {"read", "compare"}
      /\ q.pc = "compare" => q.files = entries[s].files
  BY FirstRecords, FirstStages
<1>5. launches[l].pc = "free" /\ launches' = [launches EXCEPT ![l] = q]
  BY <1>1 DEF Begins
<1> HIDE DEF q
<1>6. \A k \in Launches : launches[k].s = s => launches[k].pc \notin Busy
  BY <1>2, NoneIsBusy
<1>7. /\ shipped'[s] <= code[s] /\ (s \in Verify => shipped'[s] = 0)
      /\ \A t \in Sessions \ {s} :
           shipped'[t] = shipped[t] /\ (t \in pendingDone' <=> t \in pendingDone)
  BY <1>2, <1>3 DEF Shipped
<1> QED
  BY <1>2, <1>4, <1>5, <1>6, <1>7, ServeBegins

LEMMA OnDoneServes ==
  ASSUME Types, Placed, Serving, NEW s \in Sessions, OnDone(s)
  PROVE  Serving'
<1>1. /\ s \notin Verify /\ UNCHANGED <<entries, code>>
      /\ shipped'[s] = code[s] /\ \A t \in Sessions \ {s} : shipped'[t] = shipped[t]
  BY DEF OnDone, registry, Types
<1>2. code[s] \in Nat
  BY DEF Types
<1>3. CASE pendingDone' = pendingDone \cup {s} /\ UNCHANGED launches
  <2>1. \A k \in Launches : FilesHold(k)'
    <3> SUFFICES ASSUME NEW k \in Launches PROVE FilesHold(k)'
      OBVIOUS
    <3>1. FilesHold(k) /\ LaunchHolds(k)
      BY DEF Serving, Placed
    <3> QED
      BY <1>1, <1>3, <3>1 DEF FilesHold, LaunchHolds, Launching
  <2>2. \A t \in Sessions : Shipped(t)'
    BY <1>1, <1>2 DEF Serving, Shipped
  <2>3. \A t \in Sessions : Served(t)'
    <3> SUFFICES ASSUME NEW t \in Sessions, t # s PROVE Served(t)'
      BY <1>3 DEF Served
    <3>1. Served(t)
      BY DEF Serving
    <3> QED
      BY <1>1, <1>3, <3>1 DEF Served
  <2> QED
    BY <2>1, <2>2, <2>3 DEF Serving
<1>4. ASSUME s \notin inFlight, NEW l \in Launches, NEW q \in {Restart(s), Prewarm(s)},
             Begins(l, s, q), UNCHANGED pendingDone
      PROVE  Serving'
  <2>1. /\ q \in LaunchRecords /\ q.s = s /\ q.pc \in {"read", "compare"}
        /\ q.pc = "compare" => q.files = entries[s].files
    BY FirstRecords, FirstStages
  <2>2. launches[l].pc = "free" /\ launches' = [launches EXCEPT ![l] = q]
    BY <1>4 DEF Begins
  <2>3. \A k \in Launches : launches[k].s = s => launches[k].pc \notin Busy
    BY <1>1, <1>4, NoneIsBusy
  <2>4. /\ shipped'[s] <= code[s] /\ (s \in Verify => shipped'[s] = 0)
        /\ \A t \in Sessions \ {s} :
             shipped'[t] = shipped[t] /\ (t \in pendingDone' <=> t \in pendingDone)
    BY <1>1, <1>2, <1>4
  <2>5. UNCHANGED <<entries, code>>
    BY <1>1
  <2> QED
    BY <2>1, <2>2, <2>3, <2>4, <2>5, ServeBegins
<1> QED
  BY <1>3, <1>4 DEF OnDone

LEMMA FinallyServes ==
  ASSUME Types, Placed, Serving, NEW s \in Sessions, Finally(s)
  PROVE  Serving'
<1>1. /\ s \notin Verify /\ UNCHANGED <<entries, code, shipped>>
      /\ \A t \in Sessions \ {s} : t \in pendingDone' <=> t \in pendingDone
      /\ \A k \in Launches : launches[k].s = s => launches[k].pc \notin Busy
  BY DEF Finally, registry, Types, Busy, Reading, Past, Launching
<1>2. Shipped(s) /\ Served(s)
  BY DEF Serving
<1>3. CASE s \in pendingDone /\ entries[s].status = "ready"
  <2>1. PICK l \in Launches : Begins(l, s, Restart(s))
    BY <1>3 DEF Finally
  <2> DEFINE q == Restart(s)
  <2>2. /\ q \in LaunchRecords /\ q.s = s /\ q.pc \in {"read", "compare"}
        /\ q.pc = "compare" => q.files = entries[s].files
    BY FirstRecords, FirstStages
  <2>3. launches[l].pc = "free" /\ launches' = [launches EXCEPT ![l] = q]
    BY <2>1 DEF Begins
  <2> HIDE DEF q
  <2>4. /\ shipped'[s] <= code[s] /\ (s \in Verify => shipped'[s] = 0)
        /\ \A t \in Sessions \ {s} :
             shipped'[t] = shipped[t] /\ (t \in pendingDone' <=> t \in pendingDone)
    BY <1>1, <1>2 DEF Shipped
  <2> QED
    BY <1>1, <2>2, <2>3, <2>4, ServeBegins
<1>4. CASE ~(s \in pendingDone /\ entries[s].status = "ready")
  <2>1. UNCHANGED launches
    BY <1>4 DEF Finally
  <2>2. \A k \in Launches : FilesHold(k)'
    <3> SUFFICES ASSUME NEW k \in Launches PROVE FilesHold(k)'
      OBVIOUS
    <3>1. FilesHold(k) /\ LaunchHolds(k)
      BY DEF Serving, Placed
    <3> QED
      BY <1>1, <2>1, <3>1
         DEF FilesHold, LaunchHolds, Busy, Reading, Past, Launching
  <2>3. \A t \in Sessions : Shipped(t)'
    BY <1>1 DEF Serving, Shipped
  <2>4. \A t \in Sessions : Served(t)'
    <3> SUFFICES ASSUME NEW t \in Sessions PROVE Served(t)'
      OBVIOUS
    <3>1. CASE t = s
      BY <1>1, <1>2, <1>4, <2>1, <3>1 DEF Served, Busy
    <3>2. CASE t # s
      BY <1>1, <2>1, <3>2 DEF Serving, Served
    <3> QED
      BY <3>1, <3>2
  <2> QED
    BY <2>2, <2>3, <2>4 DEF Serving
<1> QED
  BY <1>3, <1>4

-----------------------------------------------------------------------------
(* What is served, over the steps that write an entry                      *)

LEMMA BeginServes ==
  ASSUME Types, Placed, Serving, NEW l \in Launches, Begin(l)
  PROVE  Serving'
<1> DEFINE s == launches[l].s
           q == [launches[l] EXCEPT !.pc = "stopping"]
<1>1. /\ launches[l].pc = "files" /\ Stop(s, owner, At(l, "stopping")) /\ UNCHANGED coordinator
      /\ s \in Sessions
  BY DEF Begin, Placed, LaunchHolds
<1>2. q \in LaunchRecords /\ q.pc = "stopping" /\ q.s = s /\ q.files = launches[l].files
  BY DEF Types, LaunchRecords, Stages
<1>3. At(l, "stopping") = [launches EXCEPT ![l] = q]
  BY DEF At, Types
<1> HIDE DEF q
<1> QED
  BY <1>1, <1>2, <1>3, ServeStop

LEMMA StopPreviewServes ==
  ASSUME Types, Placed, Serving, NEW s \in Sessions, StopPreview(s)
  PROVE  Serving'
<1>1. PICK l \in Launches : TRUE
  BY PreviewAssumption
<1>2. launches[l] \in LaunchRecords /\ launches = [launches EXCEPT ![l] = launches[l]]
  BY DEF Types
<1> QED
  BY <1>2, ServeStop DEF StopPreview

LEMMA RegisterServes ==
  ASSUME Types, Placed, Serving, NEW l \in Launches, launches[l].pc \in {"stopping", "evicting"},
         NEW ow, Register(l, ow), UNCHANGED coordinator
  PROVE  Serving'
<1>0. PICK s \in Sessions : s = launches[l].s
  BY NotYetLive
<1> DEFINE q == [Free EXCEPT !.pc = "install", !.s = s, !.files = launches[l].files]
           e == [NoEntry EXCEPT !.status = "starting", !.launch = l]
<1>1. CASE ow[s] = l
  <2>1. Set(s, e) /\ launches' = [launches EXCEPT ![l] = q]
    BY <1>0, <1>1 DEF Register
  <2>2. q \in LaunchRecords /\ q.pc = "install" /\ q.s = s /\ q.files = launches[l].files
    <3>1. launches[l].files \in Nat
      BY DEF Types, LaunchRecords
    <3> QED
      BY <3>1 DEF Free, LaunchRecords, Stages, Alive
  <2>3. e.status = "starting"
    BY DEF NoEntry
  <2> HIDE DEF q, e
  <2> QED
    BY <1>0, <2>1, <2>2, <2>3, ServeOwn DEF Past, Carrying
<1>2. CASE ow[s] # l
  BY <1>0, <1>2, ServeEnds DEF Register, Reading
<1> QED
  BY <1>1, <1>2

LEMMA MakeRoomServes ==
  ASSUME Types, Placed, Serving, NEW l \in Launches, launches[l].pc \in {"stopping", "evicting"},
         NEW ow, MakeRoom(l, ow), UNCHANGED coordinator
  PROVE  Serving'
<1>1. CASE AtCapacity /\ launches[l].s \notin Verify
  <2> DEFINE q == [launches[l] EXCEPT !.pc = "evicting"]
  <2>1. PICK s \in Sessions : Stop(s, ow, At(l, "evicting"))
    BY <1>1 DEF MakeRoom
  <2>2. q \in LaunchRecords /\ q.pc = "evicting" /\ q.s = launches[l].s
        /\ q.files = launches[l].files
    BY DEF Types, LaunchRecords, Stages
  <2>3. At(l, "evicting") = [launches EXCEPT ![l] = q]
    BY DEF At, Types
  <2> HIDE DEF q
  <2> QED
    BY <2>1, <2>2, <2>3, ServeStop
<1>2. CASE ~(AtCapacity /\ launches[l].s \notin Verify)
  BY <1>2, RegisterServes DEF MakeRoom
<1> QED
  BY <1>1, <1>2

LEMMA MintServes ==
  ASSUME Types, Placed, Serving, NEW l \in Launches, Mint(l)
  PROVE  Serving'
<1>0. PICK s \in Sessions : s = launches[l].s
  BY NotYetLive DEF Mint
<1>1. launches[l].pc = "stopping" /\ UNCHANGED coordinator
  BY DEF Mint
<1> DEFINE e == [status |-> "ready", static |-> TRUE, port |-> 0,
                 files |-> launches[l].files, launch |-> l]
           q == [Free EXCEPT !.pc = "up", !.s = s]
<1>2. ASSUME NEW ow, MakeRoom(l, ow) PROVE Serving'
  BY <1>1, <1>2, MakeRoomServes
<1>3. ASSUME UNCHANGED entries, NEW end \in {"stopped", "unsupported"}, launches' = Ending(l, end)
      PROVE  Serving'
  BY <1>1, <1>3, ServeEnds DEF Reading
<1>4. CASE Set(s, e) /\ launches' = [launches EXCEPT ![l] = q]
  <2>1. q \in LaunchRecords /\ q.pc = "up" /\ e.files = launches[l].files
    BY DEF Free, LaunchRecords, Stages, Alive
  <2> HIDE DEF q, e
  <2> QED
    BY <1>0, <1>1, <1>4, <2>1, ServeOwn DEF Past, Carrying, Launching
<1> QED
  BY <1>0, <1>2, <1>3, <1>4 DEF Mint

LEMMA ReadyServes ==
  ASSUME Types, Placed, Serving, NEW l \in Launches, Ready(l)
  PROVE  Serving'
<1>0. PICK s \in Sessions : s = launches[l].s
  BY DEF Placed, LaunchHolds, Ready
<1> DEFINE e == [status |-> "ready", static |-> FALSE, port |-> launches[l].port,
                 files |-> launches[l].files, launch |-> l]
           q == [Free EXCEPT !.pc = "up", !.s = s, !.port = launches[l].port,
                             !.child = launches[l].child]
<1>1. /\ launches[l].pc = "probe" /\ UNCHANGED coordinator
      /\ Set(s, e) /\ launches' = [launches EXCEPT ![l] = q]
  BY <1>0 DEF Ready
<1>2. q \in LaunchRecords /\ q.pc = "up" /\ e.files = launches[l].files
  <2>1. launches[l].port \in Ports \cup {0} /\ launches[l].child \in Alive \cup {"none", "dead"}
    BY DEF Types, LaunchRecords
  <2> QED
    BY <2>1 DEF Free, LaunchRecords, Stages
<1> HIDE DEF e, q
<1> QED
  BY <1>0, <1>1, <1>2, ServeOwn DEF Past, Launching, Carrying

\* A launch that is done with its session leaves an entry that is not ready.
LEMMA EndServes ==
  ASSUME Types, Placed, Serving, NEW l \in Launches, Settle(l) \/ Crash(l)
  PROVE  Serving'
<1>0. PICK s \in Sessions : s = launches[l].s
  BY DEF Placed, LaunchHolds, Settle, Crash
<1>1. UNCHANGED coordinator /\ launches[l].pc \in {"tearing", "up"}
      /\ launches' = [launches EXCEPT ![l] = Free]
  BY DEF Settle, Crash, Gone
<1>2. ASSUME NEW end \in {"none", "stopped", "unsupported", "failed"},
             Set(s, [NoEntry EXCEPT !.status = end, !.port = launches[l].port])
      PROVE  Serving'
  <2> DEFINE e == [NoEntry EXCEPT !.status = end, !.port = launches[l].port]
  <2>1. e.status # "ready"
    BY DEF NoEntry
  <2>2. Set(s, e)
    BY <1>2
  <2> HIDE DEF e, Free
  <2> QED
    BY <1>0, <1>1, <2>1, <2>2, FreeRecord, ServeOwn DEF Past, Launching
<1>3. CASE Crash(l)
  BY <1>0, <1>2, <1>3 DEF Crash
<1>4. CASE Settle(l) /\ Owns(l)
  <2>1. launches[l].end \in {"none", "stopped", "unsupported", "failed"}
    BY DEF Types, LaunchRecords
  <2> QED
    BY <1>0, <1>2, <1>4, <2>1 DEF Settle
<1>5. CASE Settle(l) /\ ~Owns(l)
  BY <1>5, ServeEnds DEF Settle, Reading
<1> QED
  BY <1>3, <1>4, <1>5

LEMMA ServingKept == Types /\ Placed /\ Serving /\ [Next]_vars => Serving'
<1> SUFFICES ASSUME Types, Placed, Serving, [Next]_vars PROVE Serving'
  OBVIOUS
<1>1. ASSUME NEW l \in Launches, Advance(l) PROVE Serving'
  BY <1>1, CompareServes, ReadServes, BeginServes, MintServes, LaunchServes, ReadyServes,
     EndServes, MakeRoomServes DEF Advance, Evicted
<1>2. ASSUME NEW l \in Launches, MaterializeFails(l) \/ Listen(l) \/ Die(l) \/ Answer(l) \/ Crash(l)
      PROVE  Serving'
  BY <1>2, MaterializeFailsServes, LaunchServes, EndServes
<1>3. ASSUME NEW s \in Sessions,
             \/ Ask(s) \/ OnDone(s) \/ Finally(s) \/ VerifyBoot(s) \/ StopPreview(s) \/ Rebuild(s)
      PROVE  Serving'
  BY <1>3, AskServes, OnDoneServes, FinallyServes, VerifyBootServes, StopPreviewServes,
     RebuildServes
<1>4. CASE UNCHANGED vars
  <2>1. UNCHANGED <<entries, launches, pendingDone, code, shipped>>
    BY <1>4 DEF vars, registry
  <2> QED
    BY <2>1 DEF Serving, Served, Shipped, FilesHold
<1> QED
  BY <1>1, <1>2, <1>3, <1>4 DEF Next

\* A preview that is ready serves what last shipped, or newer, once its session has no
\* start under way: a done that met a start was kept for the restart that follows it
\* (startPreviewForSession and onPipelineDone of preview.routes.ts).
THEOREM ReadyServesShipped == Spec => []ServesShipped
<1>1. Init => Serving
  <2> SUFFICES ASSUME Init PROVE Serving
    OBVIOUS
  <2>1. /\ \A s \in Sessions : entries[s].status = "none" /\ code[s] = 0 /\ shipped[s] = 0
        /\ \A l \in Launches : launches[l].pc = "free"
    BY DEF Init, NoEntry, Free
  <2> QED
    BY <2>1 DEF Serving, Served, Shipped, FilesHold, Launching
<1>2. Types /\ Placed /\ Serving => ServesShipped
  <2> SUFFICES ASSUME Types, Placed, Serving, NEW s \in Sessions, s \notin inFlight,
                      entries[s].status = "ready"
               PROVE  entries[s].files >= shipped[s]
    BY DEF ServesShipped
  <2>1. Served(s) /\ Shipped(s) /\ entries[s].files \in Nat /\ s \notin pendingDone
    BY DEF Serving, Types, Entries
  <2>2. CASE s \in Verify
    BY <2>1, <2>2 DEF Shipped
  <2>3. CASE s \notin Verify
    BY <2>1, <2>3, NoneIsBusy DEF Served, Busy
  <2> QED
    BY <2>2, <2>3
<1> QED
  BY <1>1, <1>2, ServingKept, PlacedHolds, PTL DEF Spec

=============================================================================
