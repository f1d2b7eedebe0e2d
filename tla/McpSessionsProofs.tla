-------------------------- MODULE McpSessionsProofs --------------------------
(***************************************************************************)
(* That the pool's reference counts are right until the shutdown closes    *)
(* it: a loop keeps the transport it was given, and no container runs that *)
(* the pool does not know of, for any number of loops, scopes and slots.   *)
(* The numbers keep their bounds afterwards too, when a loop may release   *)
(* an entry that it never joined.                                          *)
(***************************************************************************)
EXTENDS McpSessions, FiniteSetTheorems, TLAPS

Slots == {0} \cup Transports

Records ==
  [conn : Conns, init : {"none", "resolved", "rejected"}, refs : Int, timer : BOOLEAN,
   strays : Int]

Types ==
  /\ ShutdownTypeOK
  /\ pool \in [Keys -> Slots]
  /\ transports \in [Transports -> Records]
  /\ loops \in [Loops -> [pc : {"out", "waiting", "using"}, t : Slots]]

\* The shutdown has not closed the pool yet.
Before == phase \in {"serving", "http", "previews", "mcp"}

\* A pooled transport counts its users, and is on its way up, up, or failed; one that is
\* up is pooled; an idle timer runs only for one that is up and has no users.
TransportHolds(t) ==
  LET x == transports[t] IN
  /\ x.conn \notin {"abandoned", "orphan"} /\ x.strays = 0
  /\ x.conn = "connecting" => x.init = "none" /\ Pooled(t)
  /\ x.conn = "up" => x.init = "resolved" /\ Pooled(t)
  /\ x.conn = "late" => x.init = "rejected"
  /\ Pooled(t) => /\ x.refs = Cardinality(Users(t))
                  /\ x.conn \in {"connecting", "up"} \/ x.init = "rejected"
  /\ x.timer => x.conn = "up" /\ Users(t) = {}

\* A loop that is in has the transport of its scope, which is up if the loop uses it; or
\* it has yet to hear that the initialize failed.
LoopHolds(l) ==
  LET q == loops[l] IN
  /\ q.pc = "out" <=> q.t = 0
  /\ q.pc # "out" =>
       \/ pool[KeyOf[l]] = q.t /\ (q.pc = "using" => transports[q.t].conn = "up")
       \/ q.pc = "waiting" /\ transports[q.t].init = "rejected"
  /\ \A k \in Keys : pool[k] = q.t /\ q.t # 0 => k = KeyOf[l]

\* No transport is two scopes'.
ScopeHolds(k) == \A h \in Keys : pool[h] = pool[k] /\ pool[k] # 0 => h = k

Bookkept ==
  /\ \A t \in Transports : TransportHolds(t)
  /\ \A l \in Loops : LoopHolds(l)
  /\ \A k \in Keys : ScopeHolds(k)

-----------------------------------------------------------------------------
(* The close sequence                                                      *)

LEMMA Ranks ==
  ASSUME NEW n \in 1..8
  PROVE  Rank(CloseSequence[n]) = n
<1> DEFINE P(m) == m \in 1..8 /\ CloseSequence[m] = CloseSequence[n]
<1>1. Len(CloseSequence) = 8
  BY DEF CloseSequence
<1>2. \A m \in 1..8 : CloseSequence[m] = CloseSequence[n] => m = n
  BY DEF CloseSequence
<1>3. \E m \in 1..8 : CloseSequence[m] = CloseSequence[n]
  OBVIOUS
<1>4. Rank(CloseSequence[n]) = CHOOSE m \in 1..8 : CloseSequence[m] = CloseSequence[n]
  BY <1>1 DEF Rank
<1> QED
  BY <1>2, <1>3, <1>4

LEMMA BeforeIsRank ==
  ASSUME ShutdownTypeOK
  PROVE  Before <=> Rank(phase) <= Rank("mcp")
<1>1. Len(CloseSequence) = 8
  BY DEF CloseSequence
<1>2. PICK n \in 1..8 : phase = CloseSequence[n]
  BY <1>1 DEF ShutdownTypeOK, Phases
<1>3. Rank(phase) = n
  BY <1>2, Ranks
<1>4. CloseSequence[4] = "mcp"
  BY DEF CloseSequence
<1>5. Rank("mcp") = 4
  BY <1>4, Ranks
<1>6. Before <=> n \in 1..4
  BY <1>2 DEF Before, CloseSequence
<1> QED
  BY <1>3, <1>5, <1>6

\* A step of the sequence that leaves the pool open finds it open.
LEMMA ClosesForward ==
  ASSUME NEW p \in Phases, CloseStep(p), Before'
  PROVE  Before /\ p # "mcp"
<1>1. Len(CloseSequence) = 8
  BY DEF CloseSequence
<1>2. PICK n \in 1..8 : p = CloseSequence[n]
  BY <1>1 DEF Phases
<1>3. phase = p /\ phase' = CloseSequence[n + 1] /\ phase # "exited"
  BY <1>2, Ranks DEF CloseStep, Draining
<1>4. n # 8
  BY <1>2, <1>3 DEF CloseSequence
<1>5. n + 1 \in 2..4
  BY <1>2, <1>3, <1>4 DEF Before, CloseSequence
<1> QED
  BY <1>2, <1>3, <1>5 DEF Before, CloseSequence

LEMMA ShutdownTypes ==
  ASSUME ShutdownTypeOK, Signal \/ ForceExit \/ \E p \in Phases : CloseStep(p)
  PROVE  ShutdownTypeOK'
<1>1. Len(CloseSequence) = 8
  BY DEF CloseSequence
<1>2. "http" \in Phases /\ "exited" \in Phases
  <2>1. CloseSequence[2] = "http" /\ CloseSequence[8] = "exited"
    BY DEF CloseSequence
  <2> QED
    BY <1>1, <2>1 DEF Phases
<1>3. CASE Signal \/ ForceExit
  BY <1>2, <1>3 DEF Signal, ForceExit, ShutdownTypeOK
<1>4. ASSUME NEW p \in Phases, CloseStep(p) PROVE ShutdownTypeOK'
  <2>1. PICK n \in 1..8 : p = CloseSequence[n]
    BY <1>1 DEF Phases
  <2>2. phase = p /\ phase' = CloseSequence[n + 1] /\ phase # "exited"
    BY <1>4, <2>1, Ranks DEF CloseStep, Draining
  <2>3. n + 1 \in 1..8
    BY <2>1, <2>2 DEF CloseSequence
  <2>4. exit' \in {"clean", exit}
    BY <1>4 DEF CloseStep
  <2> QED
    BY <1>1, <2>2, <2>3, <2>4 DEF ShutdownTypeOK, Phases
<1> QED
  BY <1>3, <1>4

-----------------------------------------------------------------------------
(* The pool's steps                                                        *)

LEMMA SlotsAreNumbers == 0 \notin Transports
<1>1. Cardinality(Transports) \in Nat
  BY McpAssumption, FS_CardinalityType
<1> QED
  BY <1>1, McpAssumption

LEMMA UsersAreFew ==
  ASSUME NEW t
  PROVE  IsFiniteSet(Users(t)) /\ Cardinality(Users(t)) \in Nat
<1>1. Users(t) \subseteq Loops
  BY DEF Users
<1> QED
  BY <1>1, McpAssumption, FS_Subset, FS_CardinalityType

\* A transport moves on by itself.
LEMMA TransportStep ==
  ASSUME Types, Bookkept, NEW t \in Transports, NEW x \in Records,
         transports' = [transports EXCEPT ![t] = x], UNCHANGED <<pool, loops>>,
         TransportHolds(t)',
         Users(t) # {} =>
           /\ transports[t].conn = "up" => x.conn = "up"
           /\ transports[t].init = "rejected" => x.init = "rejected"
  PROVE  Bookkept'
<1>1. transports'[t] = x /\ \A u \in Transports \ {t} : transports'[u] = transports[u]
  BY DEF Types
<1>2. \A u \in Transports : Users(u)' = Users(u) /\ (Pooled(u)' <=> Pooled(u))
  BY DEF Users, Pooled
<1>3. \A u \in Transports : TransportHolds(u)'
  <2> SUFFICES ASSUME NEW u \in Transports, u # t PROVE TransportHolds(u)'
    OBVIOUS
  <2> QED
    BY <1>1, <1>2 DEF Bookkept, TransportHolds
<1>4. \A l \in Loops : LoopHolds(l)'
  <2> SUFFICES ASSUME NEW l \in Loops PROVE LoopHolds(l)'
    OBVIOUS
  <2>1. LoopHolds(l) /\ loops[l].t \in Slots
    BY DEF Bookkept, Types
  <2>2. loops[l].t = t => Users(t) # {}
    BY DEF Users
  <2>3. loops[l].t # 0 /\ loops[l].t # t => transports'[loops[l].t] = transports[loops[l].t]
    BY <1>1, <2>1 DEF Slots
  <2> QED
    BY <1>1, <2>1, <2>2, <2>3 DEF LoopHolds
<1>5. \A k \in Keys : ScopeHolds(k)'
  BY DEF Bookkept, ScopeHolds
<1> QED
  BY <1>3, <1>4, <1>5 DEF Bookkept

LEMMA BecomesStep ==
  ASSUME Types, Bookkept, NEW t \in Transports, NEW conn \in Conns \ {"abandoned", "orphan"},
         NEW init \in {"none", "resolved", "rejected"}, Becomes(t, conn, init),
         transports[t].conn # "up", transports[t].init = "rejected" => init = "rejected",
         conn # "connecting", conn = "up" => init = "resolved" /\ Pooled(t),
         conn = "late" => init = "rejected",
         Pooled(t) => conn = "up" \/ init = "rejected"
  PROVE  Bookkept'
<1> DEFINE x == [transports[t] EXCEPT !.conn = conn, !.init = init]
<1>1. transports[t] \in Records /\ TransportHolds(t)
  BY DEF Types, Bookkept
<1>2. /\ x \in Records /\ x.conn = conn /\ x.init = init /\ x.refs = transports[t].refs
      /\ x.timer = transports[t].timer /\ x.strays = transports[t].strays
  BY <1>1 DEF Records
<1>3. transports' = [transports EXCEPT ![t] = x] /\ UNCHANGED <<pool, loops>>
  BY DEF Becomes, Types
<1> HIDE DEF x
<1>4. transports'[t] = x
  BY <1>3 DEF Types
<1>5. Users(t)' = Users(t) /\ (Pooled(t)' <=> Pooled(t))
  BY <1>3 DEF Users, Pooled
<1>6. TransportHolds(t)'
  BY <1>1, <1>2, <1>4, <1>5 DEF TransportHolds
<1> QED
  BY <1>2, <1>3, <1>6, TransportStep

LEMMA ConnectionKeeps ==
  ASSUME Types, Bookkept, NEW t \in Transports,
         Connected(t) \/ ConnectFails(t) \/ ConnectTimesOut(t) \/ LateConnected(t) \/ Killed(t)
  PROVE  Bookkept'
<1>1. TransportHolds(t) /\ transports[t] \in Records
  BY DEF Bookkept, Types
<1>2. CASE Connected(t)
  BY <1>1, <1>2, BecomesStep DEF Connected, TransportHolds, Conns
<1>3. CASE ConnectFails(t)
  BY <1>1, <1>3, BecomesStep DEF ConnectFails, TransportHolds, Conns
<1>4. CASE ConnectTimesOut(t)
  BY <1>1, <1>4, BecomesStep DEF ConnectTimesOut, TransportHolds, Conns
<1>5. CASE LateConnected(t)
  BY <1>1, <1>5, BecomesStep DEF LateConnected, TransportHolds, Conns
<1>6. CASE Killed(t)
  <2>1. transports[t].init \in {"none", "resolved", "rejected"}
    BY <1>1 DEF Records
  <2> QED
    BY <1>1, <1>6, <2>1, BecomesStep DEF Killed, TransportHolds, Conns
<1> QED
  BY <1>2, <1>3, <1>4, <1>5, <1>6

LEMMA FreshRecord ==
  /\ Fresh \in Records /\ Fresh.conn = "none" /\ Fresh.init = "none" /\ Fresh.refs = 0
  /\ Fresh.timer = FALSE /\ Fresh.strays = 0
BY DEF Fresh, Records, Conns

LEMMA ForgetKeeps ==
  ASSUME Types, Bookkept, NEW t \in Transports, Forget(t)
  PROVE  Bookkept'
<1>1. /\ transports' = [transports EXCEPT ![t] = Fresh] /\ UNCHANGED <<pool, loops>>
      /\ ~Pooled(t) /\ Users(t) = {}
  BY DEF Forget
<1>2. transports'[t] = Fresh
  BY <1>1 DEF Types
<1>3. ~Pooled(t)'
  BY <1>1 DEF Pooled
<1> HIDE DEF Fresh
<1>4. TransportHolds(t)'
  BY <1>2, <1>3, FreshRecord DEF TransportHolds
<1> QED
  BY <1>1, <1>4, FreshRecord, TransportStep

LEMMA AcquireKeeps ==
  ASSUME Types, Bookkept, NEW l \in Loops, Acquire(l)
  PROVE  Bookkept'
<1> DEFINE k == KeyOf[l]
<1>1. PICK t \in EntryFor(k) : Joins(l, t, transports[t].refs + 1)
  BY DEF Acquire
<1>2. k \in Keys /\ t \in Transports /\ t # 0 /\ loops[l].pc = "out" /\ loops[l].t = 0
  BY <1>1, McpAssumption, SlotsAreNumbers DEF Acquire, EntryFor, Bookkept, LoopHolds
<1>3. IF pool[k] = 0 THEN Unused(t) ELSE t = pool[k]
  BY DEF EntryFor
<1> DEFINE x == [transports[t] EXCEPT !.refs = transports[t].refs + 1, !.timer = FALSE,
                   !.conn = IF pool[k] = 0 THEN "connecting" ELSE transports[t].conn]
           q == [pc |-> "waiting", t |-> t]
<1>4. transports[t] \in Records /\ TransportHolds(t) /\ ScopeHolds(k)
  BY <1>2 DEF Types, Bookkept
<1>5. /\ x.refs = transports[t].refs + 1 /\ x.timer = FALSE /\ x.init = transports[t].init
      /\ x.conn = (IF pool[k] = 0 THEN "connecting" ELSE transports[t].conn)
      /\ x.strays = transports[t].strays
  BY <1>4 DEF Records
<1>6. /\ transports' = [transports EXCEPT ![t] = x] /\ pool' = [pool EXCEPT ![k] = t]
      /\ loops' = [loops EXCEPT ![l] = q]
  BY <1>1 DEF Joins, Types
<1>7. q.pc = "waiting" /\ q.t = t
  OBVIOUS
<1> HIDE DEF x, q
<1>8. /\ transports'[t] = x /\ \A u \in Transports \ {t} : transports'[u] = transports[u]
      /\ pool'[k] = t /\ \A h \in Keys \ {k} : pool'[h] = pool[h]
      /\ loops'[l] = q /\ \A m \in Loops \ {l} : loops'[m] = loops[m]
  BY <1>2, <1>6 DEF Types
<1>9. /\ Users(t)' = Users(t) \cup {l} /\ l \notin Users(t)
      /\ \A u \in Transports \ {t} : Users(u)' = Users(u)
  BY <1>2, <1>7, <1>8, SlotsAreNumbers DEF Users
<1>10. Pooled(t)' /\ \A u \in Transports \ {t} : Pooled(u)' <=> Pooled(u)
  BY <1>2, <1>3, <1>8, SlotsAreNumbers DEF Pooled
<1>11. TransportHolds(t)'
  <2>1. transports[t].refs = Cardinality(Users(t)) /\ x.strays = 0
    <3>1. CASE pool[k] = 0
      BY <1>3, <1>5, <3>1, FS_EmptySet, FreshRecord DEF Unused
    <3>2. CASE pool[k] # 0
      BY <1>2, <1>3, <1>4, <1>5, <3>2 DEF TransportHolds, Pooled
    <3> QED
      BY <3>1, <3>2
  <2>2. Cardinality(Users(t)') = x.refs
    <3> DEFINE S == Users(t)
    <3>1. IsFiniteSet(S) /\ l \notin S
      BY <1>9, UsersAreFew
    <3>2. Cardinality(S \cup {l}) = Cardinality(S) + 1
      BY <3>1, FS_AddElement
    <3> QED
      BY <1>5, <1>9, <2>1, <3>2
  <2>3. \/ x.conn = "connecting" /\ x.init = "none"
        \/ x.conn = "up" /\ x.init = "resolved"
        \/ x.conn \notin {"connecting", "up", "abandoned", "orphan"} /\ x.init = "rejected"
    <3>1. CASE pool[k] = 0
      BY <1>3, <1>5, <3>1, FreshRecord DEF Unused
    <3>2. CASE pool[k] # 0
      <4>1. Pooled(t)
        BY <1>2, <1>3, <3>2 DEF Pooled
      <4> QED
        BY <1>4, <1>5, <3>2, <4>1 DEF TransportHolds
    <3> QED
      BY <3>1, <3>2
  <2> QED
    BY <1>5, <1>8, <1>10, <2>1, <2>2, <2>3 DEF TransportHolds
<1>12. \A u \in Transports : TransportHolds(u)'
  <2> SUFFICES ASSUME NEW u \in Transports, u # t PROVE TransportHolds(u)'
    BY <1>11
  <2> QED
    BY <1>8, <1>9, <1>10 DEF Bookkept, TransportHolds
<1>13. \A m \in Loops : LoopHolds(m)'
  <2> SUFFICES ASSUME NEW m \in Loops PROVE LoopHolds(m)'
    OBVIOUS
  <2>1. CASE m = l
    <3>1. \A h \in Keys : pool'[h] = t => h = k
      BY <1>2, <1>3, <1>4, <1>8 DEF ScopeHolds, Unused, Pooled
    <3> QED
      BY <1>2, <1>7, <1>8, <2>1, <3>1 DEF LoopHolds
  <2>2. CASE m # l
    <3>1. LoopHolds(m) /\ loops'[m] = loops[m] /\ loops[m].t \in Slots /\ KeyOf[m] \in Keys
      BY <1>8, <2>2, McpAssumption DEF Bookkept, Types
    <3>2. CASE loops[m].t = t
      <4>1. pool[k] = t
        BY <1>3, <3>2 DEF Unused, Users
      <4>2. pool' = pool /\ x.conn = transports[t].conn /\ x.init = transports[t].init
        BY <1>2, <1>5, <1>6, <4>1 DEF Types
      <4> QED
        BY <1>8, <3>1, <3>2, <4>2 DEF LoopHolds
    <3>3. CASE loops[m].t # t
      <4>1. loops[m].pc # "out" => transports'[loops[m].t] = transports[loops[m].t]
        BY <1>8, <3>1, <3>3 DEF LoopHolds, Slots
      <4>2. pool[k] # t => pool[k] = 0
        BY <1>3
      <4> QED
        BY <1>8, <3>1, <3>3, <4>1, <4>2 DEF LoopHolds
    <3> QED
      BY <3>2, <3>3
  <2> QED
    BY <2>1, <2>2
<1>14. \A h \in Keys : ScopeHolds(h)'
  <2> SUFFICES ASSUME NEW h \in Keys, NEW g \in Keys, pool'[g] = pool'[h], pool'[h] # 0
               PROVE  g = h
    BY DEF ScopeHolds
  <2>1. ScopeHolds(h) /\ ScopeHolds(g)
    BY DEF Bookkept
  <2> QED
    BY <1>2, <1>3, <1>8, <2>1 DEF ScopeHolds, Unused, Pooled
<1> QED
  BY <1>12, <1>13, <1>14 DEF Bookkept

LEMMA AcquiredKeeps ==
  ASSUME Types, Bookkept, NEW l \in Loops, Acquired(l)
  PROVE  Bookkept'
<1> DEFINE t == loops[l].t
           q == [loops[l] EXCEPT !.pc = "using"]
<1>1. /\ loops[l].pc = "waiting" /\ transports[t].init = "resolved"
      /\ loops' = [loops EXCEPT ![l] = q] /\ UNCHANGED <<pool, transports>>
  BY DEF Acquired, Types
<1>2. q.pc = "using" /\ q.t = t
  BY DEF Types
<1> HIDE DEF q
<1>3. loops'[l] = q /\ \A m \in Loops \ {l} : loops'[m] = loops[m]
  BY <1>1 DEF Types
<1>4. \A u \in Transports : Users(u)' = Users(u) /\ (Pooled(u)' <=> Pooled(u))
  BY <1>1, <1>2, <1>3 DEF Users, Pooled
<1>5. \A u \in Transports : TransportHolds(u)'
  BY <1>1, <1>4 DEF Bookkept, TransportHolds
<1>6. \A m \in Loops : LoopHolds(m)'
  <2> SUFFICES ASSUME NEW m \in Loops PROVE LoopHolds(m)'
    OBVIOUS
  <2>1. LoopHolds(m)
    BY DEF Bookkept
  <2>2. CASE m = l
    <3>1. t \in Transports /\ pool[KeyOf[l]] = t /\ KeyOf[l] \in Keys
      BY <1>1, <2>1, <2>2, McpAssumption DEF LoopHolds, Types, Slots
    <3>2. transports[t].conn = "up"
      BY <1>1, <3>1 DEF Bookkept, TransportHolds, Pooled
    <3> QED
      BY <1>1, <1>2, <1>3, <2>1, <2>2, <3>1, <3>2 DEF LoopHolds
  <2>3. CASE m # l
    BY <1>1, <1>3, <2>1, <2>3 DEF LoopHolds
  <2> QED
    BY <2>2, <2>3
<1>7. \A k \in Keys : ScopeHolds(k)'
  BY <1>1 DEF Bookkept, ScopeHolds
<1> QED
  BY <1>5, <1>6, <1>7 DEF Bookkept

\* A loop goes: its transport counts one user less, and leaves the pool if it failed.
LEMMA LeavesStep ==
  ASSUME Types, Bookkept, NEW l \in Loops, NEW t \in Transports, t = loops[l].t,
         NEW x \in Records, transports' = [transports EXCEPT ![t] = x],
         loops' = [loops EXCEPT ![l] = [pc |-> "out", t |-> 0]],
         x.conn = transports[t].conn, x.init = transports[t].init,
         x.strays = transports[t].strays,
         x.timer => x.conn = "up" /\ Users(t) = {l},
         \/ UNCHANGED pool /\ (Pooled(t) => x.refs = transports[t].refs - 1)
         \/ /\ x.init = "rejected" /\ pool[KeyOf[l]] = t
            /\ pool' = [pool EXCEPT ![KeyOf[l]] = 0]
  PROVE  Bookkept'
<1> DEFINE k == KeyOf[l]
           q == [pc |-> "out", t |-> 0]
<1>1. q.pc = "out" /\ q.t = 0 /\ loops' = [loops EXCEPT ![l] = q]
  OBVIOUS
<1> HIDE DEF q
<1>2. /\ transports'[t] = x /\ \A u \in Transports \ {t} : transports'[u] = transports[u]
      /\ loops'[l] = q /\ \A m \in Loops \ {l} : loops'[m] = loops[m]
      /\ k \in Keys /\ t # 0
  BY <1>1, McpAssumption, SlotsAreNumbers DEF Types
<1>3. /\ Users(t)' = Users(t) \ {l} /\ l \in Users(t)
      /\ \A u \in Transports \ {t} : Users(u)' = Users(u)
  BY <1>1, <1>2, SlotsAreNumbers DEF Users
<1>4. /\ \A h \in Keys : pool'[h] = pool[h] \/ (h = k /\ pool[h] = t /\ pool'[h] = 0)
      /\ LoopHolds(l) /\ TransportHolds(t)
  BY <1>2 DEF Types, Bookkept
<1>5. \A u \in Transports \ {t} : Pooled(u)' <=> Pooled(u)
  BY <1>2, <1>4, SlotsAreNumbers DEF Pooled
<1>6. \/ UNCHANGED pool /\ (Pooled(t) => x.refs = transports[t].refs - 1)
      \/ x.init = "rejected" /\ ~Pooled(t)'
  <2>1. CASE pool[k] = t /\ x.init = "rejected" /\ pool' = [pool EXCEPT ![k] = 0]
    <3>1. \A h \in Keys : pool[h] = t => h = k
      BY <1>2, <1>4 DEF LoopHolds
    <3>2. pool'[k] = 0
      BY <1>2, <2>1 DEF Types
    <3> QED
      BY <1>2, <1>4, <2>1, <3>1, <3>2 DEF Pooled
  <2> QED
    BY <2>1
<1>7. TransportHolds(t)'
  <2>1. Cardinality(Users(t)') = Cardinality(Users(t)) - 1
    BY <1>3, UsersAreFew, FS_RemoveElement
  <2>2. Pooled(t)' => Pooled(t)
    BY <1>2, <1>4 DEF Pooled
  <2>3. x.timer => Users(t)' = {}
    BY <1>3
  <2>4. CASE UNCHANGED pool /\ (Pooled(t) => x.refs = transports[t].refs - 1)
    <3>1. Pooled(t)' <=> Pooled(t)
      BY <2>4 DEF Pooled
    <3> QED
      BY <1>2, <1>4, <2>1, <2>3, <2>4, <3>1 DEF TransportHolds
  <2>5. CASE x.init = "rejected" /\ ~Pooled(t)'
    BY <1>2, <1>4, <2>3, <2>5 DEF TransportHolds
  <2> QED
    BY <1>6, <2>4, <2>5
<1>8. \A u \in Transports : TransportHolds(u)'
  <2> SUFFICES ASSUME NEW u \in Transports, u # t PROVE TransportHolds(u)'
    BY <1>7
  <2> QED
    BY <1>2, <1>3, <1>5 DEF Bookkept, TransportHolds
<1>9. \A m \in Loops : LoopHolds(m)'
  <2> SUFFICES ASSUME NEW m \in Loops PROVE LoopHolds(m)'
    OBVIOUS
  <2>1. CASE m = l
    BY <1>1, <1>2, <2>1 DEF LoopHolds
  <2>2. CASE m # l
    <3>1. LoopHolds(m) /\ loops'[m] = loops[m] /\ loops[m].t \in Slots /\ KeyOf[m] \in Keys
      BY <1>2, <2>2, McpAssumption DEF Bookkept, Types
    <3>2. loops[m].pc # "out" => /\ transports'[loops[m].t].conn = transports[loops[m].t].conn
                                 /\ transports'[loops[m].t].init = transports[loops[m].t].init
      BY <1>2, <3>1 DEF LoopHolds, Slots
    <3>3. \A h \in Keys : pool'[h] = loops[m].t /\ loops[m].t # 0 => h = KeyOf[m]
      BY <1>4, <3>1 DEF LoopHolds
    <3>4. loops[m].t = t /\ loops[m].pc = "using" => transports[t].conn = "up"
      BY <3>1 DEF LoopHolds
    <3>5. loops[m].t = t /\ pool' # pool => loops[m].pc # "using" /\ x.init = "rejected"
      BY <1>4, <1>6, <3>4 DEF TransportHolds
    <3>6. loops[m].t # t /\ pool[KeyOf[m]] = loops[m].t => pool'[KeyOf[m]] = loops[m].t
      BY <1>4, <3>1
    <3>7. loops[m].pc \in {"out", "waiting", "using"}
      BY DEF Types
    <3> QED
      BY <1>2, <3>1, <3>2, <3>3, <3>5, <3>6, <3>7 DEF LoopHolds
  <2> QED
    BY <2>1, <2>2
<1>10. \A h \in Keys : ScopeHolds(h)'
  BY <1>4 DEF Bookkept, ScopeHolds
<1> QED
  BY <1>8, <1>9, <1>10 DEF Bookkept

LEMMA AcquireFailsKeeps ==
  ASSUME Types, Bookkept, NEW l \in Loops, AcquireFails(l)
  PROVE  Bookkept'
<1> DEFINE k == KeyOf[l]
<1>1. PICK t \in Transports : t = loops[l].t /\ transports[t].init = "rejected"
  BY DEF AcquireFails, Bookkept, LoopHolds, Types, Slots
<1>2. transports[t] \in Records /\ TransportHolds(t)
  BY DEF Types, Bookkept
<1> DEFINE x == [transports[t] EXCEPT !.refs = transports[t].refs - 1]
<1>3. /\ transports' = [transports EXCEPT ![t] = x]
      /\ loops' = [loops EXCEPT ![l] = [pc |-> "out", t |-> 0]]
      /\ pool' = IF pool[k] = t THEN [pool EXCEPT ![k] = 0] ELSE pool
  BY <1>1 DEF AcquireFails, Types
<1>4. /\ x \in Records /\ x.refs = transports[t].refs - 1 /\ x.conn = transports[t].conn
      /\ x.init = transports[t].init /\ x.strays = transports[t].strays
      /\ x.timer = transports[t].timer
  BY <1>2 DEF Records
<1> HIDE DEF x
<1>5. ~x.timer
  BY <1>1, <1>2, <1>4 DEF TransportHolds
<1> QED
  BY <1>1, <1>3, <1>4, <1>5, LeavesStep

LEMMA ReleaseKeeps ==
  ASSUME Types, Bookkept, NEW l \in Loops, Release(l)
  PROVE  Bookkept'
<1>1. PICK t \in Transports : t = loops[l].t /\ t = pool[KeyOf[l]] /\ transports[t].conn = "up"
  BY DEF Release, Bookkept, LoopHolds, Types, Slots
<1>2. /\ transports[t] \in Records /\ TransportHolds(t) /\ Pooled(t) /\ t # 0
      /\ l \in Users(t)
  BY <1>1, McpAssumption, SlotsAreNumbers DEF Types, Bookkept, Pooled, Users
<1>3. transports[t].refs = Cardinality(Users(t)) /\ ~transports[t].timer
  BY <1>2, Zenon DEF TransportHolds
<1>4. /\ IsFiniteSet(Users(t) \ {l}) /\ Cardinality(Users(t) \ {l}) = transports[t].refs - 1
      /\ Cardinality(Users(t) \ {l}) \in Nat
  BY <1>2, <1>3, UsersAreFew, FS_RemoveElement, FS_CardinalityType
<1> DEFINE refs == IF transports[t].refs > 0 THEN transports[t].refs - 1 ELSE 0
           x == [transports[t] EXCEPT !.refs = refs,
                   !.strays = transports[t].strays
                                + (IF refs = 0 /\ transports[t].timer THEN 1 ELSE 0),
                   !.timer = transports[t].timer \/ refs = 0]
<1>5. refs = transports[t].refs - 1 /\ refs = Cardinality(Users(t) \ {l})
  BY <1>3, <1>4, UsersAreFew
<1>6. /\ transports' = [transports EXCEPT ![t] = x] /\ UNCHANGED pool
      /\ loops' = [loops EXCEPT ![l] = [pc |-> "out", t |-> 0]]
  <2>1. transports' = [transports EXCEPT ![t].refs = refs,
           ![t].strays = @ + IF refs = 0 /\ transports[t].timer THEN 1 ELSE 0,
           ![t].timer = @ \/ refs = 0]
    BY <1>1, <1>2 DEF Release
  <2>2. transports' = [transports EXCEPT ![t] = x]
    BY <2>1 DEF Types
  <2> QED
    BY <2>2 DEF Release
<1> HIDE DEF refs
<1>7. /\ x \in Records /\ x.refs = refs /\ x.conn = transports[t].conn
      /\ x.init = transports[t].init /\ x.strays = transports[t].strays
      /\ x.timer => refs = 0
  <2>1. refs \in Int
    BY <1>4, <1>5
  <2> DEFINE strays == transports[t].strays + (IF refs = 0 /\ transports[t].timer THEN 1 ELSE 0)
             timer == transports[t].timer \/ refs = 0
  <2>2. strays = transports[t].strays /\ strays \in Int
    BY <1>2, <1>3 DEF Records
  <2>3. timer \in BOOLEAN /\ (timer => refs = 0)
    BY <1>3
  <2>4. x = [transports[t] EXCEPT !.refs = refs, !.strays = strays, !.timer = timer]
    BY Zenon
  <2> HIDE DEF strays, timer, x
  <2> QED
    BY <1>2, <2>1, <2>2, <2>3, <2>4 DEF Records
<1>8. x.timer => Users(t) = {l}
  <2>1. refs = 0 => Users(t) \ {l} = {}
    BY <1>4, <1>5, FS_EmptySet
  <2> QED
    BY <1>2, <1>7, <2>1
<1> HIDE DEF x
<1> QED
  BY <1>1, <1>5, <1>6, <1>7, <1>8, LeavesStep

\* An idle timer finds its transport up, pooled and unused.
LEMMA IdleKeeps ==
  ASSUME Types, Bookkept, NEW t \in Transports, NEW stray \in BOOLEAN, Idle(t, stray)
  PROVE  Bookkept'
<1>1. /\ TransportHolds(t) /\ transports[t] \in Records
      /\ \A k \in Keys : pool'[k] = pool[k] \/ (pool[k] = t /\ pool'[k] = 0)
  BY DEF Bookkept, Types, Idle
<1>2. /\ ~stray /\ transports[t].conn = "up" /\ Users(t) = {} /\ Pooled(t)
      /\ transports[t].refs = 0 /\ transports[t].strays = 0 /\ transports[t].init = "resolved"
  BY <1>1, FS_EmptySet DEF Idle, TransportHolds
<1> DEFINE x == Closed(Spent(t, stray))
<1>3. /\ x.conn = "closing" /\ x.init = transports[t].init /\ x.timer = FALSE
      /\ x.strays = 0
  BY <1>1, <1>2 DEF Closed, Spent, Records
<1>4. /\ transports' = [transports EXCEPT ![t] = x] /\ UNCHANGED loops
      /\ pool' = [k \in Keys |-> IF pool[k] = t THEN 0 ELSE pool[k]]
  BY <1>2 DEF Idle
<1> HIDE DEF x
<1>5. /\ transports'[t] = x /\ \A u \in Transports \ {t} : transports'[u] = transports[u]
      /\ t # 0
  BY <1>4, SlotsAreNumbers DEF Types
<1>6. /\ \A u \in Transports : Users(u)' = Users(u)
      /\ ~Pooled(t)' /\ \A u \in Transports \ {t} : Pooled(u)' <=> Pooled(u)
  BY <1>4, <1>5, SlotsAreNumbers DEF Users, Pooled
<1>7. \A u \in Transports : TransportHolds(u)'
  <2> SUFFICES ASSUME NEW u \in Transports PROVE TransportHolds(u)'
    OBVIOUS
  <2>1. CASE u = t
    BY <1>3, <1>5, <1>6, <2>1 DEF TransportHolds
  <2>2. CASE u # t
    BY <1>5, <1>6, <2>2 DEF Bookkept, TransportHolds
  <2> QED
    BY <2>1, <2>2
<1>8. \A l \in Loops : LoopHolds(l)'
  <2> SUFFICES ASSUME NEW l \in Loops PROVE LoopHolds(l)'
    OBVIOUS
  <2>1. LoopHolds(l) /\ loops[l].t # t /\ loops[l].t \in Slots /\ KeyOf[l] \in Keys
    BY <1>2, McpAssumption DEF Bookkept, Types, Users
  <2>2. loops[l].pc # "out" => transports'[loops[l].t] = transports[loops[l].t]
    BY <1>5, <2>1 DEF LoopHolds, Slots
  <2> QED
    BY <1>1, <1>4, <2>1, <2>2 DEF LoopHolds
<1>9. \A k \in Keys : ScopeHolds(k)'
  BY <1>1 DEF Bookkept, ScopeHolds
<1> QED
  BY <1>7, <1>8, <1>9 DEF Bookkept

-----------------------------------------------------------------------------
(* Types                                                                   *)

LEMMA ClosedRecord ==
  ASSUME NEW x \in Records
  PROVE  Closed(x) \in Records
BY DEF Closed, Records, Conns

LEMMA SpentRecord ==
  ASSUME Types, NEW t \in Transports, NEW stray \in BOOLEAN
  PROVE  Spent(t, stray) \in Records
<1>1. transports[t] \in Records
  BY DEF Types
<1>2. transports[t].strays - 1 \in Int
  BY <1>1 DEF Records
<1>3. \A n \in Int : [transports[t] EXCEPT !.strays = n] \in Records
  BY <1>1 DEF Records
<1>4. [transports[t] EXCEPT !.timer = FALSE] \in Records
  BY <1>1 DEF Records
<1> QED
  BY <1>2, <1>3, <1>4 DEF Spent

LEMMA LoopTypes ==
  ASSUME Types, NEW l \in Loops, Acquire(l) \/ Acquired(l) \/ AcquireFails(l) \/ Release(l)
  PROVE  Types'
<1>1. UNCHANGED <<phase, exit>> /\ KeyOf[l] \in Keys
  BY McpAssumption DEF Acquire, Acquired, AcquireFails, Release, Alive
<1>2. CASE Acquire(l)
  <2>1. PICK t \in EntryFor(KeyOf[l]) : Joins(l, t, transports[t].refs + 1)
    BY <1>2 DEF Acquire
  <2>2. t \in Transports /\ transports[t] \in Records
    BY DEF EntryFor, Types
  <2> DEFINE x == [transports[t] EXCEPT !.refs = transports[t].refs + 1, !.timer = FALSE,
                     !.conn = IF pool[KeyOf[l]] = 0 THEN "connecting" ELSE transports[t].conn]
  <2>3. transports' = [transports EXCEPT ![t] = x]
    BY <2>1, <2>2 DEF Joins, Types
  <2>4. x \in Records
    <3> DEFINE conn == IF pool[KeyOf[l]] = 0 THEN "connecting" ELSE transports[t].conn
    <3>1. conn \in Conns /\ transports[t].refs + 1 \in Int
      BY <2>2 DEF Records, Conns
    <3> HIDE DEF conn
    <3>2. [transports[t] EXCEPT !.refs = transports[t].refs + 1, !.timer = FALSE, !.conn = conn]
            \in Records
      BY <2>2, <3>1 DEF Records
    <3> QED
      BY <3>2 DEF conn
  <2> HIDE DEF x
  <2>5. /\ pool' = [pool EXCEPT ![KeyOf[l]] = t]
        /\ loops' = [loops EXCEPT ![l] = [pc |-> "waiting", t |-> t]]
    BY <2>1 DEF Joins
  <2> QED
    BY <1>1, <2>2, <2>3, <2>4, <2>5 DEF Types, Slots, ShutdownTypeOK
<1>3. CASE Acquired(l)
  BY <1>1, <1>3 DEF Acquired, Types, ShutdownTypeOK
<1>4. CASE AcquireFails(l)
  <2>1. transports' \in [Transports -> Records]
    <3> DEFINE x(t) == [transports[t] EXCEPT !.refs = @ - 1]
    <3>1. \A t \in Transports : x(t) \in Records
      BY DEF Types, Records
    <3>2. transports' = [transports EXCEPT ![loops[l].t] = x(loops[l].t)]
      BY <1>4 DEF AcquireFails, Types
    <3> HIDE DEF x
    <3> QED
      BY <3>1, <3>2 DEF Types
  <2> QED
    BY <1>1, <1>4, <2>1 DEF AcquireFails, Types, Slots, ShutdownTypeOK
<1>5. CASE Release(l)
  <2> DEFINE t == pool[KeyOf[l]]
  <2>1. CASE t = 0
    BY <1>1, <1>5, <2>1 DEF Release, Types, Slots, ShutdownTypeOK
  <2>2. CASE t # 0
    <3> DEFINE refs == IF transports[t].refs > 0 THEN transports[t].refs - 1 ELSE 0
               x == [transports[t] EXCEPT !.refs = refs,
                       !.strays = transports[t].strays
                                    + (IF refs = 0 /\ transports[t].timer THEN 1 ELSE 0),
                       !.timer = transports[t].timer \/ refs = 0]
    <3>1. t \in Transports /\ transports[t] \in Records
      BY <1>1, <2>2 DEF Types, Slots
    <3>2. x \in Records
      <4>1. refs \in Int
        BY <3>1 DEF Records
      <4> HIDE DEF refs
      <4>2. transports[t].strays + (IF refs = 0 /\ transports[t].timer THEN 1 ELSE 0) \in Int
        BY <3>1 DEF Records
      <4> QED
        BY <3>1, <4>1, <4>2 DEF Records
    <3>3. transports' = [transports EXCEPT ![t] = x] /\ UNCHANGED pool
          /\ loops' = [loops EXCEPT ![l] = [pc |-> "out", t |-> 0]]
      BY <1>5, <2>2, <3>1 DEF Release, Types
    <3> HIDE DEF x
    <3> QED
      BY <1>1, <3>2, <3>3 DEF Types, Slots, ShutdownTypeOK
  <2> QED
    BY <2>1, <2>2
<1> QED
  BY <1>2, <1>3, <1>4, <1>5

LEMMA TransportTypes ==
  ASSUME Types, NEW t \in Transports,
         \/ \E stray \in BOOLEAN : Idle(t, stray)
         \/ Connected(t) \/ ConnectFails(t) \/ ConnectTimesOut(t) \/ LateConnected(t)
         \/ Killed(t) \/ Forget(t)
  PROVE  Types'
<1>1. ASSUME NEW x \in Records, transports' = [transports EXCEPT ![t] = x],
             pool' \in [Keys -> Slots], UNCHANGED loops, Alive
      PROVE  Types'
  BY <1>1 DEF Types, Alive, ShutdownTypeOK
<1>2. ASSUME NEW stray \in BOOLEAN, Idle(t, stray) PROVE Types'
  <2> DEFINE keep == ~Pooled(t) \/ transports[t].refs > 0
             x == IF keep THEN Spent(t, stray) ELSE Closed(Spent(t, stray))
  <2>1. x \in Records
    BY SpentRecord, ClosedRecord
  <2>2. /\ transports' = [transports EXCEPT ![t] = x] /\ UNCHANGED loops /\ Alive
        /\ pool' = [k \in Keys |-> IF pool[k] = t /\ ~keep THEN 0 ELSE pool[k]]
    BY <1>2 DEF Idle
  <2> HIDE DEF x, keep
  <2>3. pool' \in [Keys -> Slots]
    BY <2>2 DEF Types, Slots
  <2> QED
    BY <1>1, <2>1, <2>2, <2>3
<1>3. ASSUME NEW conn \in Conns, NEW init \in {"none", "resolved", "rejected"},
             Becomes(t, conn, init)
      PROVE  Types'
  <2> DEFINE x == [transports[t] EXCEPT !.conn = conn, !.init = init]
  <2>1. x \in Records
    BY DEF Types, Records
  <2>2. transports' = [transports EXCEPT ![t] = x] /\ UNCHANGED <<pool, loops>> /\ Alive
    BY <1>3 DEF Becomes, Types
  <2> HIDE DEF x
  <2>3. pool' \in [Keys -> Slots]
    BY <2>2 DEF Types
  <2> QED
    BY <1>1, <2>1, <2>2, <2>3
<1>4. CASE Connected(t) \/ ConnectFails(t) \/ ConnectTimesOut(t) \/ LateConnected(t)
  BY <1>3, <1>4 DEF Connected, ConnectFails, ConnectTimesOut, LateConnected, Conns
<1>5. CASE Killed(t)
  <2>1. transports[t].init \in {"none", "resolved", "rejected"}
    BY DEF Types, Records
  <2> QED
    BY <1>3, <1>5, <2>1 DEF Killed, Conns
<1>6. CASE Forget(t)
  <2>1. transports' = [transports EXCEPT ![t] = Fresh] /\ UNCHANGED <<pool, loops>> /\ Alive
    BY <1>6 DEF Forget
  <2>2. pool' \in [Keys -> Slots]
    BY <2>1 DEF Types
  <2> QED
    BY <1>1, <2>1, <2>2, FreshRecord
<1> QED
  BY <1>2, <1>4, <1>5, <1>6

LEMMA CloseAllTypes ==
  ASSUME Types, CloseAll
  PROVE  Types'
<1>1. CloseStep("mcp") /\ "mcp" \in Phases
  <2>1. CloseSequence[4] = "mcp" /\ Len(CloseSequence) = 8
    BY DEF CloseSequence
  <2> QED
    BY <2>1 DEF CloseAll, Phases
<1>2. ShutdownTypeOK'
  BY <1>1, ShutdownTypes DEF Types
<1>3. \A t \in Transports : (IF Pooled(t) THEN Closed(transports[t]) ELSE transports[t]) \in Records
  BY ClosedRecord DEF Types
<1>4. transports' \in [Transports -> Records]
  BY <1>3 DEF CloseAll
<1> QED
  BY <1>2, <1>4 DEF CloseAll, Types, Slots

-----------------------------------------------------------------------------

LEMMA InitHolds == Init => Types /\ Before /\ Bookkept
<1> SUFFICES ASSUME Init PROVE Types /\ Before /\ Bookkept
  OBVIOUS
<1>1. phase = "serving" /\ exit = "none" /\ "serving" \in Phases
  <2>1. CloseSequence[1] = "serving" /\ Len(CloseSequence) = 8
    BY DEF CloseSequence
  <2> QED
    BY <2>1 DEF Init, ShutdownInit, Phases
<1>2. Types
  BY <1>1, FreshRecord DEF Init, Types, ShutdownTypeOK, Slots
<1>3. \A t \in Transports : TransportHolds(t)
  <2> SUFFICES ASSUME NEW t \in Transports PROVE TransportHolds(t)
    OBVIOUS
  <2>1. transports[t] = Fresh /\ ~Pooled(t)
    BY SlotsAreNumbers DEF Init, Pooled
  <2> QED
    BY <2>1, FreshRecord DEF TransportHolds
<1>4. \A l \in Loops : LoopHolds(l)
  BY DEF Init, LoopHolds
<1>5. \A k \in Keys : ScopeHolds(k)
  BY DEF Init, ScopeHolds
<1> QED
  BY <1>1, <1>2, <1>3, <1>4, <1>5 DEF Before, Bookkept

LEMMA PoolStands ==
  ASSUME Bookkept, UNCHANGED <<pool, transports, loops>>
  PROVE  Bookkept'
<1>1. \A t \in Transports : Users(t)' = Users(t) /\ (Pooled(t)' <=> Pooled(t))
  BY DEF Users, Pooled
<1>2. \A t \in Transports : TransportHolds(t)'
  BY <1>1 DEF Bookkept, TransportHolds
<1>3. \A l \in Loops : LoopHolds(l)'
  BY DEF Bookkept, LoopHolds
<1>4. \A k \in Keys : ScopeHolds(k)'
  BY DEF Bookkept, ScopeHolds
<1> QED
  BY <1>2, <1>3, <1>4 DEF Bookkept

LEMMA NextHolds ==
  Types /\ (Before => Bookkept) /\ [Next]_vars => Types' /\ (Before' => Bookkept')
<1> SUFFICES ASSUME Types, Before => Bookkept, [Next]_vars
             PROVE  Types' /\ (Before' => Bookkept')
  OBVIOUS
<1>1. ASSUME NEW l \in Loops, Acquire(l) \/ Acquired(l) \/ AcquireFails(l) \/ Release(l)
      PROVE  Types' /\ (Before' => Bookkept')
  <2>1. Before' => Before
    BY <1>1 DEF Acquire, Acquired, AcquireFails, Release, Alive, Before
  <2> QED
    BY <1>1, <2>1, LoopTypes, AcquireKeeps, AcquiredKeeps, AcquireFailsKeeps, ReleaseKeeps
<1>2. ASSUME NEW t \in Transports,
             \/ \E stray \in BOOLEAN : Idle(t, stray)
             \/ Connected(t) \/ ConnectFails(t) \/ ConnectTimesOut(t) \/ LateConnected(t)
             \/ Killed(t) \/ Forget(t)
      PROVE  Types' /\ (Before' => Bookkept')
  <2>1. Before' => Before
    BY <1>2 DEF Idle, Connected, ConnectFails, ConnectTimesOut, LateConnected, Killed,
                Forget, Becomes, Alive, Before
  <2> QED
    BY <1>2, <2>1, TransportTypes, IdleKeeps, ConnectionKeeps, ForgetKeeps
<1>3. CASE CloseAll
  <2>1. ~Before'
    <3>1. "mcp" \in Phases
      <4>1. CloseSequence[4] = "mcp" /\ Len(CloseSequence) = 8
        BY DEF CloseSequence
      <4> QED
        BY <4>1 DEF Phases
    <3> QED
      BY <1>3, <3>1, ClosesForward DEF CloseAll
  <2> QED
    BY <1>3, <2>1, CloseAllTypes
<1>4. CASE ShutdownStep
  <2>1. ShutdownTypeOK' /\ UNCHANGED <<pool, transports, loops>>
    BY <1>4, ShutdownTypes DEF ShutdownStep, Types
  <2>2. Before' => Before
    BY <1>4, ClosesForward DEF ShutdownStep, Signal, ForceExit, Before
  <2>3. Bookkept => Bookkept'
    BY <2>1, PoolStands
  <2> QED
    BY <2>1, <2>2, <2>3 DEF Types
<1>5. CASE UNCHANGED vars
  <2>1. UNCHANGED <<phase, exit, pool, transports, loops>>
    BY <1>5 DEF vars
  <2>2. Bookkept => Bookkept'
    BY <2>1, PoolStands
  <2> QED
    BY <2>1, <2>2 DEF Types, ShutdownTypeOK, Before
<1> QED
  BY <1>1, <1>2, <1>3, <1>4, <1>5 DEF Next

LEMMA BookkeepingHolds == Spec => [](Types /\ (Before => Bookkept))
BY InitHolds, NextHolds, PTL DEF Spec

\* A pooled entry counts exactly the loops that hold its transport, until the shutdown
\* closes the pool: the idle timer is armed for an entry that nobody uses, and no other.
THEOREM CountsAreUsers ==
  Spec => [](Rank(phase) <= Rank("mcp") =>
               \A t \in Transports : Pooled(t) => transports[t].refs = Cardinality(Users(t)))
<1>1. Types /\ (Before => Bookkept) =>
        (Rank(phase) <= Rank("mcp") =>
           \A t \in Transports : Pooled(t) => transports[t].refs = Cardinality(Users(t)))
  BY BeforeIsRank DEF Types, Bookkept, TransportHolds
<1> QED
  BY <1>1, BookkeepingHolds, PTL

\* A loop that was given a transport finds it up until it releases it, or the shutdown
\* closes the pool: no idle timer and no other loop's failure takes it away
\* (McpSessionPool.ts acquire, release and the idle timer).
THEOREM UsedStaysUp == Spec => []UsedIsUp
<1>1. Types /\ (Before => Bookkept) => UsedIsUp
  <2> SUFFICES ASSUME Types, Bookkept, NEW l \in Loops, loops[l].pc = "using"
               PROVE  transports[loops[l].t].conn = "up"
    BY BeforeIsRank DEF UsedIsUp, Types
  <2> QED
    BY DEF Bookkept, LoopHolds
<1> QED
  BY <1>1, BookkeepingHolds, PTL

\* A container that runs is one the pool knows of, so that the idle timer or the shutdown
\* ends it (StdioDockerTransport.ts initialize and close).
THEOREM NoneIsOrphaned == Spec => []NoOrphan
<1>1. Types /\ (Before => Bookkept) => NoOrphan
  <2> SUFFICES ASSUME Types, Bookkept, NEW t \in Transports,
                      transports[t].conn \in {"up", "orphan"}
               PROVE  Pooled(t)
    BY BeforeIsRank DEF NoOrphan, Types
  <2> QED
    BY DEF Bookkept, TransportHolds
<1> QED
  BY <1>1, BookkeepingHolds, PTL

-----------------------------------------------------------------------------
(* The bounds of the numbers, in every phase                               *)

Most == Cardinality(Loops)

\* The loops of a scope that hold a transport other than the scope's.
Strangers(k, t) == {l \in Loops : KeyOf[l] = k /\ loops[l].t \notin {0, t}}

Within(t) ==
  LET x == transports[t] IN
  /\ x.refs <= Most /\ Cardinality(Users(t)) <= x.refs + Most
  /\ 0 <= x.strays /\ x.strays <= Most

\* An entry counts no more than its users.  A timer is left to stray only when a loop that
\* the entry does not count releases it: one of its users, or a stranger.
HeldAt(k, t) ==
  LET x == transports[t]
      users == Cardinality(Users(t))
  IN pool[k] = t => /\ x.refs <= users
                    /\ x.timer => x.refs <= 0
                    /\ x.strays + users - x.refs + Cardinality(Strangers(k, t)) <= Most

Scoped ==
  /\ \A l \in Loops : loops[l].pc = "out" <=> loops[l].t = 0
  /\ \A l \in Loops, k \in Keys : pool[k] = loops[l].t /\ loops[l].t # 0 => k = KeyOf[l]
  /\ \A k \in Keys : ScopeHolds(k)

Limits == Scoped /\ \A t \in Transports : Within(t) /\ \A k \in Keys : HeldAt(k, t)

LEMMA MostIsNat == Most \in Nat
BY McpAssumption, FS_CardinalityType DEF Most

LEMMA CountsAreNats ==
  ASSUME NEW t, NEW k
  PROVE  /\ IsFiniteSet(Users(t)) /\ Cardinality(Users(t)) \in 0..Most
         /\ IsFiniteSet(Strangers(k, t)) /\ Cardinality(Strangers(k, t)) \in 0..Most
<1>1. Users(t) \subseteq Loops /\ Strangers(k, t) \subseteq Loops
  BY DEF Users, Strangers
<1> QED
  BY <1>1, McpAssumption, MostIsNat, FS_Subset, FS_CardinalityType DEF Most

\* No loop comes or goes, no entry counts anew, and no timer is armed.
Stays(t) ==
  LET x == transports[t]
      y == transports'[t]
  IN /\ y.strays \in 0..x.strays /\ (y.timer => x.timer)
     /\ y.refs = x.refs \/ (y.refs = 0 /\ ~Pooled(t))

LEMMA LimitsStay ==
  ASSUME Types, Types', Limits,
         \A l \in Loops : /\ loops'[l].t = loops[l].t
                          /\ loops'[l].pc = "out" <=> loops[l].pc = "out",
         \A k \in Keys : pool'[k] \in {pool[k], 0},
         \A t \in Transports : Stays(t)
  PROVE  Limits'
<1>1. \A t, k : Users(t)' = Users(t) /\ Strangers(k, t)' = Strangers(k, t)
  BY DEF Users, Strangers
<1>2. ASSUME NEW t \in Transports PROVE Within(t)'
  <2>1. /\ Cardinality(Users(t)) \in 0..Most /\ Most \in Nat /\ Most' = Most
        /\ Cardinality(Users(t)') = Cardinality(Users(t))
    BY <1>1, CountsAreNats, MostIsNat DEF Most
  <2>2. /\ transports[t].refs \in Int /\ transports[t].strays \in Int
        /\ transports'[t].refs \in Int /\ transports'[t].strays \in Int
    BY DEF Types, Records
  <2> QED
    BY <2>1, <2>2 DEF Limits, Within, Stays
<1>3. ASSUME NEW t \in Transports, NEW k \in Keys PROVE HeldAt(k, t)'
  <2> SUFFICES ASSUME pool'[k] = t PROVE HeldAt(k, t)'
    BY DEF HeldAt
  <2>1. pool[k] = t /\ Pooled(t)
    BY SlotsAreNumbers DEF Pooled
  <2>2. /\ Cardinality(Users(t)) \in 0..Most /\ Most \in Nat /\ Most' = Most
        /\ Cardinality(Strangers(k, t)) \in 0..Most
        /\ Users(t)' = Users(t) /\ Strangers(k, t)' = Strangers(k, t)
    BY <1>1, CountsAreNats, MostIsNat DEF Most
  <2>3. /\ transports[t].refs \in Int /\ transports[t].strays \in Int
        /\ transports'[t].refs = transports[t].refs /\ transports'[t].strays \in Int
        /\ transports'[t].strays <= transports[t].strays
        /\ transports'[t].timer => transports[t].timer
    BY <2>1 DEF Types, Records, Stays
  <2> QED
    BY <2>1, <2>2, <2>3 DEF Limits, HeldAt
<1>4. Scoped'
  <2>1. \A k \in Keys : ScopeHolds(k)'
    BY DEF Limits, Scoped, ScopeHolds
  <2>2. \A l \in Loops, k \in Keys :
          pool'[k] = loops'[l].t /\ loops'[l].t # 0 => k = KeyOf[l]
    BY DEF Limits, Scoped
  <2> QED
    BY <2>1, <2>2 DEF Limits, Scoped
<1> QED
  BY <1>2, <1>3, <1>4 DEF Limits

\* A loop goes.
LEMMA Leaving ==
  ASSUME Types, NEW l \in Loops, loops' = [loops EXCEPT ![l] = [pc |-> "out", t |-> 0]],
         NEW u \in Transports, NEW k
  PROVE  /\ Users(u)' = Users(u) \ {l} /\ Strangers(k, u)' = Strangers(k, u) \ {l}
         /\ Cardinality(Users(u)') =
              IF loops[l].t = u THEN Cardinality(Users(u)) - 1 ELSE Cardinality(Users(u))
         /\ Cardinality(Strangers(k, u)') =
              IF l \in Strangers(k, u) THEN Cardinality(Strangers(k, u)) - 1
                                       ELSE Cardinality(Strangers(k, u))
<1>1. loops'[l].t = 0 /\ \A m \in Loops \ {l} : loops'[m] = loops[m]
  BY DEF Types
<1>2. u # 0
  BY SlotsAreNumbers
<1>3. Users(u)' = Users(u) \ {l} /\ (l \in Users(u) <=> loops[l].t = u)
  BY <1>1, <1>2 DEF Users
<1>4. Strangers(k, u)' = Strangers(k, u) \ {l}
  BY <1>1 DEF Strangers
<1>5. IsFiniteSet(Users(u)) /\ IsFiniteSet(Strangers(k, u))
  BY CountsAreNats
<1> QED
  BY <1>3, <1>4, <1>5, FS_RemoveElement

\* The entries a leaving loop does not touch.
LEMMA LeavingOthers ==
  ASSUME Types, Limits, NEW l \in Loops,
         loops' = [loops EXCEPT ![l] = [pc |-> "out", t |-> 0]],
         \A k \in Keys : pool'[k] \in {pool[k], 0},
         NEW u \in Transports, transports'[u] = transports[u]
  PROVE  /\ Within(u)'
         /\ \A k \in Keys : pool'[k] = u /\ loops[l].t # u => HeldAt(k, u)'
<1>1. /\ Cardinality(Users(u)) \in 0..Most /\ Most \in Nat /\ Most' = Most
      /\ transports[u].refs \in Int /\ transports[u].strays \in Int
  BY CountsAreNats, MostIsNat DEF Most, Types, Records
<1>2. Within(u)'
  <2>1. Cardinality(Users(u)') =
          IF loops[l].t = u THEN Cardinality(Users(u)) - 1 ELSE Cardinality(Users(u))
    BY Leaving
  <2>2. Cardinality(Users(u)') \in Int /\ Cardinality(Users(u)') <= Cardinality(Users(u))
    BY <1>1, <2>1
  <2> QED
    BY <1>1, <2>2 DEF Limits, Within
<1>3. ASSUME NEW k \in Keys, pool'[k] = u, loops[l].t # u PROVE HeldAt(k, u)'
  <2>1. Cardinality(Users(u)') = Cardinality(Users(u))
    BY <1>3, Leaving
  <2>2. /\ Cardinality(Strangers(k, u)) \in Nat /\ Cardinality(Strangers(k, u)') \in Int
        /\ Cardinality(Strangers(k, u)') <= Cardinality(Strangers(k, u))
    <3>1. Cardinality(Strangers(k, u)') =
            IF l \in Strangers(k, u) THEN Cardinality(Strangers(k, u)) - 1
                                     ELSE Cardinality(Strangers(k, u))
      BY Leaving
    <3>2. Cardinality(Strangers(k, u)) \in Nat
      BY CountsAreNats, MostIsNat
    <3> QED
      BY <3>1, <3>2
  <2>3. pool[k] = u
    BY <1>3, SlotsAreNumbers
  <2> QED
    BY <1>1, <2>1, <2>2, <2>3 DEF Limits, HeldAt
<1> QED
  BY <1>2, <1>3

LEMMA LeavingScoped ==
  ASSUME Types, Scoped, NEW l \in Loops,
         loops' = [loops EXCEPT ![l] = [pc |-> "out", t |-> 0]],
         \A k \in Keys : pool'[k] \in {pool[k], 0}
  PROVE  Scoped'
<1>1. /\ loops'[l].t = 0 /\ loops'[l].pc = "out"
      /\ \A m \in Loops \ {l} : loops'[m] = loops[m]
  BY DEF Types
<1>2. \A k \in Keys : ScopeHolds(k)'
  BY DEF Scoped, ScopeHolds
<1>3. \A m \in Loops, k \in Keys : pool'[k] = loops'[m].t /\ loops'[m].t # 0 => k = KeyOf[m]
  BY <1>1 DEF Scoped
<1> QED
  BY <1>1, <1>2, <1>3 DEF Scoped

LEMMA AcquireFailsLimits ==
  ASSUME Types, Limits, NEW l \in Loops, AcquireFails(l)
  PROVE  Limits'
<1>1. PICK t \in Transports : t = loops[l].t
  BY DEF AcquireFails, Limits, Scoped, Types, Slots
<1>2. /\ loops' = [loops EXCEPT ![l] = [pc |-> "out", t |-> 0]]
      /\ pool' = IF pool[KeyOf[l]] = t THEN [pool EXCEPT ![KeyOf[l]] = 0] ELSE pool
      /\ transports' = [transports EXCEPT ![t].refs = @ - 1]
      /\ KeyOf[l] \in Keys /\ t # 0
  BY <1>1, SlotsAreNumbers, McpAssumption DEF AcquireFails
<1>3. transports[t] \in Records
  BY DEF Types
<1>4. /\ transports'[t].refs = transports[t].refs - 1
      /\ transports'[t].strays = transports[t].strays
      /\ \A u \in Transports \ {t} : transports'[u] = transports[u]
  BY <1>2, <1>3 DEF Types, Records
<1>5. /\ \A k \in Keys : pool'[k] \in {pool[k], 0}
      /\ \A k \in Keys : pool'[k] # t
  <2>1. \A k \in Keys : pool[k] = t => k = KeyOf[l]
    BY <1>1, <1>2 DEF Limits, Scoped
  <2> QED
    BY <1>2, <2>1 DEF Types
<1>6. Within(t)'
  <2>1. /\ Cardinality(Users(t)) \in 0..Most /\ Most \in Nat /\ Most' = Most
        /\ transports[t].refs \in Int /\ transports[t].strays \in Int
    BY <1>3, CountsAreNats, MostIsNat DEF Most, Records
  <2>2. Cardinality(Users(t)') = Cardinality(Users(t)) - 1
    BY <1>1, <1>2, Leaving
  <2> QED
    BY <1>4, <2>1, <2>2 DEF Limits, Within
<1>7. \A u \in Transports : Within(u)' /\ \A k \in Keys : HeldAt(k, u)'
  <2> SUFFICES ASSUME NEW u \in Transports
               PROVE  Within(u)' /\ \A k \in Keys : HeldAt(k, u)'
    OBVIOUS
  <2>1. CASE u = t
    BY <1>5, <1>6, <2>1 DEF HeldAt
  <2>2. CASE u # t
    <3>1. Within(u)' /\ \A k \in Keys : pool'[k] = u => HeldAt(k, u)'
      BY <1>1, <1>2, <1>4, <1>5, <2>2, LeavingOthers
    <3> QED
      BY <3>1 DEF HeldAt
  <2> QED
    BY <2>1, <2>2
<1>8. Scoped'
  BY <1>2, <1>5, LeavingScoped DEF Limits
<1> QED
  BY <1>7, <1>8 DEF Limits

LEMMA ReleaseLimits ==
  ASSUME Types, Limits, NEW l \in Loops, Release(l)
  PROVE  Limits'
<1>1. /\ loops' = [loops EXCEPT ![l] = [pc |-> "out", t |-> 0]] /\ UNCHANGED pool
      /\ KeyOf[l] \in Keys /\ loops[l].t # 0
  BY McpAssumption DEF Release, Limits, Scoped
<1>2. Scoped'
  BY <1>1, LeavingScoped DEF Limits
<1> DEFINE p == pool[KeyOf[l]]
<1>3. ASSUME NEW u \in Transports, u # p, transports'[u] = transports[u]
      PROVE  Within(u)' /\ \A k \in Keys : HeldAt(k, u)'
  <2>1. \A k \in Keys : pool[k] = u => loops[l].t # u
    BY <1>1, <1>3 DEF Limits, Scoped
  <2>2. Within(u)' /\ \A k \in Keys : pool'[k] = u /\ loops[l].t # u => HeldAt(k, u)'
    BY <1>1, <1>3, LeavingOthers
  <2> QED
    BY <1>1, <2>1, <2>2 DEF HeldAt
<1>4. CASE p = 0
  <2>1. transports' = transports /\ 0 \notin Transports
    BY <1>4, SlotsAreNumbers DEF Release
  <2> QED
    BY <1>2, <1>3, <1>4, <2>1 DEF Limits
<1>5. CASE p # 0
  <2>1. PICK t \in Transports : t = p
    BY <1>1, <1>5 DEF Types, Slots
  <2>2. transports[t] \in Records
    BY DEF Types
  <2>3. PICK r \in Int, s \in Int, n \in Int :
          /\ r = transports[t].refs /\ s = transports[t].strays
          /\ n = IF r > 0 THEN r - 1 ELSE 0
    BY <2>2 DEF Records
  <2>4. PICK d \in {0, 1} : d = IF n = 0 /\ transports[t].timer THEN 1 ELSE 0
    OBVIOUS
  <2>5. transports' = [transports EXCEPT ![t].refs = n, ![t].strays = s + d,
                         ![t].timer = @ \/ n = 0]
    BY <1>5, <2>1, <2>3, <2>4 DEF Release
  <2>6. /\ transports'[t].refs = n /\ transports'[t].strays = s + d
        /\ transports'[t].timer = (transports[t].timer \/ n = 0)
        /\ \A u \in Transports \ {t} : transports'[u] = transports[u]
    BY <2>2, <2>5 DEF Types, Records
  <2> DEFINE U == Cardinality(Users(t))
             S == Cardinality(Strangers(KeyOf[l], t))
  <2>7. PICK uu \in 0..Most, ss \in 0..Most : uu = U /\ ss = S
    BY CountsAreNats
  <2>8. PICK un \in 0..Most, sn \in 0..Most :
          /\ un = Cardinality(Users(t)') /\ sn = Cardinality(Strangers(KeyOf[l], t)')
          /\ \/ un = uu - 1 /\ sn = ss
             \/ un = uu /\ sn = ss - 1
    <3>1. /\ Users(t)' = Users(t) \ {l}
          /\ Strangers(KeyOf[l], t)' = Strangers(KeyOf[l], t) \ {l}
          /\ Cardinality(Users(t)') = IF loops[l].t = t THEN uu - 1 ELSE uu
          /\ Cardinality(Strangers(KeyOf[l], t)') =
               IF l \in Strangers(KeyOf[l], t) THEN ss - 1 ELSE ss
      BY <1>1, <2>7, Leaving
    <3>2. Users(t)' \subseteq Loops /\ Strangers(KeyOf[l], t)' \subseteq Loops
      BY <3>1 DEF Users, Strangers
    <3>3. /\ Cardinality(Users(t)') \in 0..Most
          /\ Cardinality(Strangers(KeyOf[l], t)') \in 0..Most
      BY <3>2, McpAssumption, MostIsNat, FS_Subset, FS_CardinalityType DEF Most
    <3>4. l \in Strangers(KeyOf[l], t) <=> loops[l].t # t
      BY <1>1 DEF Strangers
    <3> QED
      BY <3>1, <3>3, <3>4
  <2>9. /\ r <= uu /\ (transports[t].timer => r <= 0) /\ s + uu - r + ss <= Most
        /\ r <= Most /\ uu <= r + Most /\ 0 <= s /\ s <= Most
    <3>1. Within(t) /\ HeldAt(KeyOf[l], t)
      BY <1>1 DEF Limits
    <3> QED
      BY <2>1, <2>3, <2>7, <3>1 DEF Within, HeldAt
  <2>10. /\ d = 1 => r <= 0 /\ n = 0
         /\ n >= 0 /\ n <= Most /\ un <= n + Most /\ 0 <= s + d /\ s + d <= Most
         /\ n <= un /\ s + d + un - n + sn <= Most
    <3>1. d = 1 => transports[t].timer /\ n = 0
      BY <2>4
    <3>2. d = 1 => r <= 0 /\ n = 0
      BY <2>9, <3>1
    <3> QED
      BY <2>3, <2>8, <2>9, <3>2, MostIsNat
  <2>11. (transports[t].timer \/ n = 0) => n <= 0
    BY <2>3, <2>9
  <2>12. Within(t)' /\ HeldAt(KeyOf[l], t)'
    <3>1. Most' = Most
      BY DEF Most
    <3>2. Within(t)'
      BY <2>6, <2>8, <2>10, <3>1 DEF Within
    <3>3. HeldAt(KeyOf[l], t)'
      BY <2>6, <2>8, <2>10, <2>11, <3>1 DEF HeldAt
    <3> QED
      BY <3>2, <3>3
  <2>13. \A k \in Keys : HeldAt(k, t)'
    <3>1. \A k \in Keys : pool'[k] = t => k = KeyOf[l]
      BY <1>1, <1>5, <2>1 DEF Limits, Scoped, ScopeHolds
    <3> QED
      BY <2>12, <3>1 DEF HeldAt
  <2> QED
    BY <1>2, <1>3, <2>1, <2>6, <2>12, <2>13 DEF Limits
<1> QED
  BY <1>4, <1>5

LEMMA AcquireLimits ==
  ASSUME Types, Limits, NEW l \in Loops, Acquire(l)
  PROVE  Limits'
<1> DEFINE k == KeyOf[l]
<1>1. PICK t \in EntryFor(k) : Joins(l, t, transports[t].refs + 1)
  BY DEF Acquire
<1>2. k \in Keys /\ t \in Transports /\ t # 0 /\ loops[l].pc = "out" /\ loops[l].t = 0
  BY <1>1, McpAssumption, SlotsAreNumbers DEF Acquire, EntryFor, Limits, Scoped
<1>3. IF pool[k] = 0 THEN Unused(t) ELSE t = pool[k]
  BY DEF EntryFor
<1>4. transports[t] \in Records
  BY <1>2 DEF Types
<1>5. /\ pool' = [pool EXCEPT ![k] = t]
      /\ loops' = [loops EXCEPT ![l] = [pc |-> "waiting", t |-> t]]
      /\ transports' = [transports EXCEPT ![t].refs = transports[t].refs + 1, ![t].timer = FALSE,
                          ![t].conn = IF pool[k] = 0 THEN "connecting" ELSE @]
  BY <1>1 DEF Joins
<1>6. /\ transports'[t].refs = transports[t].refs + 1 /\ transports'[t].timer = FALSE
      /\ transports'[t].strays = transports[t].strays
      /\ \A u \in Transports \ {t} : transports'[u] = transports[u]
      /\ pool'[k] = t /\ \A h \in Keys \ {k} : pool'[h] = pool[h]
      /\ loops'[l].t = t /\ loops'[l].pc = "waiting"
      /\ \A m \in Loops \ {l} : loops'[m] = loops[m]
  BY <1>2, <1>4, <1>5 DEF Types, Records
<1>7. /\ Users(t)' = Users(t) \cup {l} /\ l \notin Users(t)
      /\ \A u \in Transports \ {t} : Users(u)' = Users(u)
      /\ \A h \in Keys, u \in Transports :
           h # k \/ u = t => Strangers(h, u)' = Strangers(h, u)
  <2>1. /\ Users(t)' = Users(t) \cup {l} /\ l \notin Users(t)
        /\ \A u \in Transports \ {t} : Users(u)' = Users(u)
    BY <1>2, <1>6, SlotsAreNumbers DEF Users
  <2>2. ASSUME NEW h \in Keys, NEW u \in Transports, h # k \/ u = t
        PROVE  Strangers(h, u)' = Strangers(h, u)
    <3>1. ASSUME NEW m \in Loops
          PROVE  (KeyOf[m] = h /\ loops'[m].t \notin {0, u})
                   <=> (KeyOf[m] = h /\ loops[m].t \notin {0, u})
      BY <1>2, <1>6, <2>2
    <3> QED
      BY <3>1 DEF Strangers
  <2> QED
    BY <2>1, <2>2
<1>8. \A h \in Keys \ {k} : pool[h] # t
  BY <1>2, <1>3 DEF Limits, Scoped, ScopeHolds, Unused, Pooled
<1>9. Within(t)' /\ HeldAt(k, t)'
  <2>1. PICK r \in Int, s \in Int : r = transports[t].refs /\ s = transports[t].strays
    BY <1>4 DEF Records
  <2>2. PICK uu \in 0..Most, ss \in 0..Most :
          uu = Cardinality(Users(t)) /\ ss = Cardinality(Strangers(k, t))
    BY CountsAreNats
  <2>3. Cardinality(Users(t)') = uu + 1 /\ uu + 1 <= Most
    <3>1. Users(t)' \subseteq Loops
      BY <1>7 DEF Users
    <3>2. Cardinality(Users(t)') <= Most
      BY <3>1, McpAssumption, FS_Subset DEF Most
    <3>3. Cardinality(Users(t)') = uu + 1
      BY <1>7, <2>2, CountsAreNats, FS_AddElement
    <3> QED
      BY <3>2, <3>3
  <2>4. Within(t) /\ HeldAt(k, t)
    BY <1>2 DEF Limits
  <2>5. r <= uu /\ s + uu - r + ss <= Most /\ uu <= r + Most /\ 0 <= s /\ s <= Most
    <3>1. CASE pool[k] = 0
      <4>1. transports[t] = Fresh /\ Users(t) = {}
        BY <1>3, <3>1 DEF Unused
      <4>2. r = 0 /\ s = 0 /\ uu = 0
        BY <2>1, <2>2, <4>1, FreshRecord, FS_EmptySet
      <4> QED
        BY <2>2, <4>2, MostIsNat
    <3>2. CASE pool[k] # 0
      BY <1>3, <2>1, <2>2, <2>4, <3>2 DEF Within, HeldAt
    <3> QED
      BY <3>1, <3>2
  <2>6. Most' = Most /\ Strangers(k, t)' = Strangers(k, t)
    BY <1>2, <1>7 DEF Most
  <2>7. Within(t)'
    BY <1>6, <2>1, <2>3, <2>5, <2>6, MostIsNat DEF Within
  <2>8. HeldAt(k, t)'
    BY <1>6, <2>1, <2>2, <2>3, <2>5, <2>6, MostIsNat DEF HeldAt
  <2> QED
    BY <2>7, <2>8
<1>10. \A u \in Transports : Within(u)' /\ \A h \in Keys : HeldAt(h, u)'
  <2> SUFFICES ASSUME NEW u \in Transports
               PROVE  Within(u)' /\ \A h \in Keys : HeldAt(h, u)'
    OBVIOUS
  <2>1. CASE u = t
    <3>1. \A h \in Keys \ {k} : HeldAt(h, t)'
      BY <1>6, <1>8 DEF HeldAt
    <3> QED
      BY <1>9, <2>1, <3>1
  <2>2. CASE u # t
    <3>1. Most' = Most
      BY DEF Most
    <3>2. Within(u)'
      BY <1>6, <1>7, <2>2, <3>1 DEF Limits, Within
    <3>3. \A h \in Keys : HeldAt(h, u)'
      <4> SUFFICES ASSUME NEW h \in Keys, pool'[h] = u PROVE HeldAt(h, u)'
        BY DEF HeldAt
      <4>1. h # k /\ pool[h] = u /\ Strangers(h, u)' = Strangers(h, u)
        BY <1>6, <1>7, <2>2
      <4> QED
        BY <1>6, <1>7, <2>2, <3>1, <4>1 DEF Limits, HeldAt
    <3> QED
      BY <3>2, <3>3
  <2> QED
    BY <2>1, <2>2
<1>11. Scoped'
  <2>1. \A h \in Keys : ScopeHolds(h)'
    BY <1>2, <1>3, <1>6, <1>8 DEF Limits, Scoped, ScopeHolds
  <2>2. \A m \in Loops : loops'[m].pc = "out" <=> loops'[m].t = 0
    BY <1>2, <1>6 DEF Limits, Scoped
  <2>3. ASSUME NEW m \in Loops, NEW h \in Keys, pool'[h] = loops'[m].t, loops'[m].t # 0
        PROVE  h = KeyOf[m]
    <3>1. CASE m = l
      BY <1>6, <1>8, <2>3, <3>1
    <3>2. CASE m # l
      <4>1. loops'[m].t = loops[m].t
        BY <1>6, <3>2
      <4>2. CASE h # k
        BY <1>6, <2>3, <4>1, <4>2 DEF Limits, Scoped
      <4>3. CASE h = k
        <5>1. loops[m].t = t /\ m \in Users(t)
          BY <1>6, <2>3, <4>1, <4>3 DEF Users
        <5>2. pool[k] = t
          BY <1>3, <5>1 DEF Unused
        <5> QED
          BY <1>2, <4>3, <5>1, <5>2 DEF Limits, Scoped
      <4> QED
        BY <4>2, <4>3
    <3> QED
      BY <3>1, <3>2
  <2> QED
    BY <2>1, <2>2, <2>3 DEF Scoped
<1> QED
  BY <1>10, <1>11 DEF Limits

LEMMA TransportLimits ==
  ASSUME Types, Types', Limits, NEW t \in Transports,
         \/ \E stray \in BOOLEAN : Idle(t, stray)
         \/ Connected(t) \/ ConnectFails(t) \/ ConnectTimesOut(t) \/ LateConnected(t)
         \/ Killed(t) \/ Forget(t)
  PROVE  Limits'
<1>1. transports[t] \in Records /\ Within(t)
  BY DEF Types, Limits
<1>2. \A u \in Transports : transports'[u] = transports[u] => Stays(u)
  <2> SUFFICES ASSUME NEW u \in Transports, transports'[u] = transports[u] PROVE Stays(u)
    OBVIOUS
  <2>1. transports[u].strays \in Int /\ 0 <= transports[u].strays
    BY DEF Types, Records, Limits, Within
  <2> QED
    BY <2>1 DEF Stays
<1>3. ASSUME NEW x, transports' = [transports EXCEPT ![t] = x], UNCHANGED loops,
             \A k \in Keys : pool'[k] \in {pool[k], 0},
             x.strays \in 0..transports[t].strays, x.timer => transports[t].timer,
             x.refs = transports[t].refs \/ (x.refs = 0 /\ ~Pooled(t))
      PROVE  Limits'
  <2>1. transports'[t] = x /\ \A u \in Transports \ {t} : transports'[u] = transports[u]
    BY <1>3 DEF Types
  <2>2. \A u \in Transports : Stays(u)
    BY <1>2, <1>3, <2>1 DEF Stays
  <2> QED
    BY <1>3, <2>2, LimitsStay
<1>4. ASSUME NEW stray \in BOOLEAN, Idle(t, stray) PROVE Limits'
  <2> DEFINE keep == ~Pooled(t) \/ transports[t].refs > 0
             y == Spent(t, stray)
             x == IF keep THEN y ELSE Closed(y)
  <2>1. /\ transports' = [transports EXCEPT ![t] = x] /\ UNCHANGED loops
        /\ pool' = [k \in Keys |-> IF pool[k] = t /\ ~keep THEN 0 ELSE pool[k]]
    BY <1>4 DEF Idle
  <2>2. /\ y.strays \in 0..transports[t].strays /\ (y.timer => transports[t].timer)
        /\ y.refs = transports[t].refs
    <3>1. CASE stray
      <4>1. y = [transports[t] EXCEPT !.strays = transports[t].strays - 1]
        BY <3>1 DEF Spent
      <4>2. y.strays = transports[t].strays - 1 /\ y.timer = transports[t].timer
            /\ y.refs = transports[t].refs
        BY <1>1, <4>1 DEF Records
      <4>3. transports[t].strays > 0 /\ transports[t].strays \in Int
        BY <1>1, <1>4, <3>1 DEF Idle, Records
      <4> QED
        BY <4>2, <4>3
    <3>2. CASE ~stray
      <4>1. y = [transports[t] EXCEPT !.timer = FALSE]
        BY <3>2 DEF Spent
      <4>2. y.strays = transports[t].strays /\ ~y.timer /\ y.refs = transports[t].refs
        BY <1>1, <4>1 DEF Records
      <4>3. transports[t].strays >= 0 /\ transports[t].strays \in Int
        BY <1>1 DEF Records, Within
      <4> QED
        BY <4>2, <4>3
    <3> QED
      BY <3>1, <3>2
  <2>3. y \in Records
    BY SpentRecord
  <2>4. /\ Closed(y).strays = y.strays /\ ~Closed(y).timer /\ Closed(y).refs = y.refs
    BY <2>3 DEF Closed, Records
  <2>5. /\ x.strays \in 0..transports[t].strays /\ (x.timer => transports[t].timer)
        /\ x.refs = transports[t].refs
    BY <2>2, <2>4
  <2> HIDE DEF x, y, keep
  <2>6. \A k \in Keys : pool'[k] \in {pool[k], 0}
    BY <2>1
  <2> QED
    BY <1>3, <2>1, <2>5, <2>6
<1>5. ASSUME NEW conn, NEW init, Becomes(t, conn, init) PROVE Limits'
  <2> DEFINE x == [transports[t] EXCEPT !.conn = conn, !.init = init]
  <2>1. transports' = [transports EXCEPT ![t] = x] /\ UNCHANGED <<pool, loops>>
    BY <1>5 DEF Becomes, Types
  <2>2. /\ x.strays = transports[t].strays /\ x.timer = transports[t].timer
        /\ x.refs = transports[t].refs
    BY <1>1 DEF Records
  <2>3. transports[t].strays \in 0..transports[t].strays
    BY <1>1 DEF Records, Within
  <2> HIDE DEF x
  <2> QED
    BY <1>3, <2>1, <2>2, <2>3
<1>6. CASE Connected(t) \/ ConnectFails(t) \/ ConnectTimesOut(t) \/ LateConnected(t) \/ Killed(t)
  BY <1>5, <1>6 DEF Connected, ConnectFails, ConnectTimesOut, LateConnected, Killed
<1>7. CASE Forget(t)
  <2>1. transports' = [transports EXCEPT ![t] = Fresh] /\ UNCHANGED <<pool, loops>> /\ ~Pooled(t)
    BY <1>7 DEF Forget
  <2>2. 0 \in 0..transports[t].strays
    BY <1>1 DEF Records, Within
  <2> QED
    BY <1>3, <2>1, <2>2, FreshRecord
<1> QED
  BY <1>4, <1>6, <1>7

LEMMA CloseAllLimits ==
  ASSUME Types, Types', Limits, CloseAll
  PROVE  Limits'
<1>1. \A t \in Transports : Stays(t)
  <2> SUFFICES ASSUME NEW t \in Transports PROVE Stays(t)
    OBVIOUS
  <2>1. transports[t] \in Records /\ 0 <= transports[t].strays /\ transports[t].strays \in Int
    BY DEF Types, Records, Limits, Within
  <2>2. transports'[t] = IF Pooled(t) THEN Closed(transports[t]) ELSE transports[t]
    BY DEF CloseAll
  <2>3. /\ Closed(transports[t]).strays = transports[t].strays /\ ~Closed(transports[t]).timer
        /\ Closed(transports[t]).refs = transports[t].refs
    BY <2>1 DEF Closed, Records
  <2> QED
    BY <2>1, <2>2, <2>3 DEF Stays
<1>2. UNCHANGED loops /\ \A k \in Keys : pool'[k] \in {pool[k], 0}
  BY DEF CloseAll
<1> QED
  BY <1>1, <1>2, LimitsStay

LEMMA StandingLimits ==
  ASSUME Types, Types', Limits,
         \/ UNCHANGED <<pool, transports, loops>>
         \/ \E l \in Loops : Acquired(l)
  PROVE  Limits'
<1>1. UNCHANGED <<pool, transports>>
  BY DEF Acquired
<1>2. \A t \in Transports : Stays(t)
  <2> SUFFICES ASSUME NEW t \in Transports PROVE Stays(t)
    OBVIOUS
  <2>1. 0 <= transports[t].strays /\ transports[t].strays \in Int
    BY DEF Types, Records, Limits, Within
  <2> QED
    BY <1>1, <2>1 DEF Stays
<1>3. \A l \in Loops : loops'[l].t = loops[l].t /\ (loops'[l].pc = "out" <=> loops[l].pc = "out")
  <2>1. ASSUME NEW m \in Loops, Acquired(m), NEW l \in Loops
        PROVE  loops'[l].t = loops[l].t /\ (loops'[l].pc = "out" <=> loops[l].pc = "out")
    <3>1. loops' = [loops EXCEPT ![m].pc = "using"] /\ loops[m].pc = "waiting"
      BY <2>1 DEF Acquired
    <3> QED
      BY <3>1 DEF Types
  <2> QED
    BY <2>1
<1> QED
  BY <1>1, <1>2, <1>3, LimitsStay

LEMMA LimitsInit == Init => Limits
<1> SUFFICES ASSUME Init PROVE Limits
  OBVIOUS
<1>1. Scoped
  BY DEF Init, Scoped, ScopeHolds
<1>2. ASSUME NEW t \in Transports PROVE Within(t) /\ \A k \in Keys : HeldAt(k, t)
  <2>1. transports[t] = Fresh /\ \A k \in Keys : pool[k] # t
    BY SlotsAreNumbers DEF Init
  <2>2. Cardinality(Users(t)) \in 0..Most /\ Most \in Nat
    BY CountsAreNats, MostIsNat
  <2> QED
    BY <2>1, <2>2, FreshRecord DEF Within, HeldAt
<1> QED
  BY <1>1, <1>2 DEF Limits

LEMMA LimitsNext == Types /\ Types' /\ Limits /\ [Next]_vars => Limits'
<1> SUFFICES ASSUME Types, Types', Limits, [Next]_vars PROVE Limits'
  OBVIOUS
<1>1. ASSUME NEW l \in Loops, Acquire(l) \/ Acquired(l) \/ AcquireFails(l) \/ Release(l)
      PROVE  Limits'
  BY <1>1, AcquireLimits, StandingLimits, AcquireFailsLimits, ReleaseLimits
<1>2. ASSUME NEW t \in Transports,
             \/ \E stray \in BOOLEAN : Idle(t, stray)
             \/ Connected(t) \/ ConnectFails(t) \/ ConnectTimesOut(t) \/ LateConnected(t)
             \/ Killed(t) \/ Forget(t)
      PROVE  Limits'
  BY <1>2, TransportLimits
<1>3. CASE CloseAll
  BY <1>3, CloseAllLimits
<1>4. CASE ShutdownStep
  BY <1>4, StandingLimits DEF ShutdownStep
<1>5. CASE UNCHANGED vars
  BY <1>5, StandingLimits DEF vars
<1> QED
  BY <1>1, <1>2, <1>3, <1>4, <1>5 DEF Next

\* Every variable keeps its type in every phase: no count of an entry passes the number of
\* loops in either direction, and no more idle timers are left to stray than there are
\* loops, whatever a release finds in the pool (McpSessionPool.ts acquire and release).
THEOREM PoolTyped == Spec => []TypeOK
<1>1. Types /\ (Before => Bookkept) /\ Limits => TypeOK
  <2> SUFFICES ASSUME Types, Before => Bookkept, Limits PROVE TypeOK
    OBVIOUS
  <2>1. Rank(phase) <= Rank("mcp") =>
          \A t \in Transports : Pooled(t) => transports[t].refs = Cardinality(Users(t))
    BY BeforeIsRank DEF Types, Bookkept, TransportHolds
  <2> DEFINE R == [conn : Conns, init : {"none", "resolved", "rejected"}, refs : -Most..Most,
                     timer : BOOLEAN, strays : 0..Most]
  <2>2. ASSUME NEW t \in Transports PROVE transports[t] \in R
    <3>1. transports[t] \in Records /\ Within(t)
      BY DEF Types, Limits
    <3>2. transports[t].refs \in -Most..Most /\ transports[t].strays \in 0..Most
      <4>1. Cardinality(Users(t)) \in 0..Most /\ Most \in Nat
        BY CountsAreNats, MostIsNat
      <4> QED
        BY <3>1, <4>1 DEF Records, Within
    <3> QED
      BY <3>1, <3>2 DEF Records
  <2> HIDE DEF R
  <2>3. transports \in [Transports -> R]
    BY <2>2 DEF Types
  <2> QED
    BY <2>1, <2>3 DEF R, Most, Types, Slots, TypeOK
<1>2. Spec => []Limits
  <2>1. Types /\ (Before => Bookkept) /\ Limits /\ [Next]_vars
          => Types' /\ (Before' => Bookkept') /\ Limits'
    BY NextHolds, LimitsNext
  <2> QED
    BY InitHolds, LimitsInit, <2>1, PTL DEF Spec
<1> QED
  BY <1>1, <1>2, BookkeepingHolds, PTL

=============================================================================
