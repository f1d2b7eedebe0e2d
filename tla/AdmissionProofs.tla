--------------------------- MODULE AdmissionProofs ---------------------------
(***************************************************************************)
(* That the cap on active runs is exceeded by no more than the starts that *)
(* raced through its check, that an owner who is out of tokens and of work *)
(* starts no model call, and that the ledger says what was charged, for    *)
(* any number of owners, requests and sessions and any budget, cap and     *)
(* window.  Admits is the invariant of the first two, Accounts of the      *)
(* third.                                                                  *)
(***************************************************************************)
EXTENDS Admission, FiniteSetTheorems, TLAPS

Steps == {"idle", "policy", "quota", "count", "create", "seed", "open", "call", "scribe"}
Statuses ==
  {"none", "composing", "awaiting_spec_approval", "spec_resolution", "building", "parked", "ended"}

Runs == [status : Statuses, owner : Owners \cup {None}, agent : {"none", "out"}]
Queries ==
  [pc : Steps, op : {"none", "start", "chat", "approve"}, o : Owners \cup {None},
   s : Sessions \cup {None}, pro : BOOLEAN]

Typed ==
  /\ clock \in Nat
  /\ ledger \in [Owners -> [used : Nat, period : Nat, start : Nat]]
  /\ session \in [Sessions -> Runs] /\ req \in [Requests -> Queries]
  /\ overlap \in [Owners -> Nat] /\ dry \in [Owners -> BOOLEAN]

\* A request under way has its caller.  One that approves, or that opens the build it has
\* seeded, has a session of the caller's, or of nobody's.
RequestHolds(r) ==
  LET q == req[r] IN
  /\ q.pc # "idle" => q.o \in Owners
  /\ q.op = "approve" => q.pc \in {"count", "open"}
  /\ q.op = "approve" \/ q.pc \in {"seed", "open"} =>
       q.s \in Sessions /\ session[q.s].owner \in {q.o, Anon}
  /\ q.pc = "seed" => session[q.s].owner = q.o

\* The requests let through whose run is not active yet, or no longer.
Entering(o) == {r \in Requests : req[r].o = o /\ req[r].pc \in {"create", "open"}}

Raced(o) == IF overlap[o] > 1 THEN overlap[o] - 1 ELSE 0

\* Those who are let through count against the cap as if their runs were active.
CapInv(o) ==
  /\ Cardinality(Admitted(o)) <= overlap[o]
  /\ o # Anon => Cardinality(Active(o)) + Cardinality(Entering(o)) <= MaxActive + Raced(o)

\* An owner who ran dry is out of tokens; what they still ask will be refused, or opens a
\* session of nobody's.
DryInv(o) ==
  dry[o] =>
    /\ Exhausted(o)
    /\ \A r \in Requests : req[r].o = o =>
         \/ req[r].pc \in {"idle", "policy"} \/ req[r].op = "approve"
         \/ req[r].pc = "quota" /\ ~req[r].pro
    /\ \A s \in Sessions : session[s].owner = o =>
         session[s].status = "ended" /\ session[s].agent # "out"

Admits ==
  /\ Typed
  /\ \A r \in Requests : RequestHolds(r)
  /\ \A o \in Owners : CapInv(o) /\ DryInv(o)

-----------------------------------------------------------------------------
(* Types                                                                   *)

LEMMA WatchTypes ==
  ASSUME Typed, Watch
  PROVE  /\ overlap' \in [Owners -> Nat] /\ dry' \in [Owners -> BOOLEAN]
         /\ \A o \in Owners : /\ overlap[o] <= overlap'[o]
                             /\ Cardinality(Admitted(o)') \in Nat
                             /\ Cardinality(Admitted(o)') <= overlap'[o]
<1>1. \A o \in Owners : Cardinality(Admitted(o)') \in Nat
  <2> TAKE o \in Owners
  <2>1. Admitted(o)' \in SUBSET Requests
    BY DEF Admitted
  <2> QED
    BY <2>1, AdmissionAssumption, FS_Subset, FS_CardinalityType
<1>2. overlap \in [Owners -> Nat] /\ dry \in [Owners -> BOOLEAN]
  BY DEF Typed
<1>3. /\ overlap' = [o \in Owners |-> IF Cardinality(Admitted(o)') > overlap[o]
                                    THEN Cardinality(Admitted(o)') ELSE overlap[o]]
      /\ dry' = [o \in Owners |-> Exhausted(o)' /\ (dry[o] \/ Quiet(o)')]
  BY DEF Watch
<1>4. dry' \in [Owners -> BOOLEAN]
  <2>1. \A o \in Owners : (Exhausted(o)' /\ (dry[o] \/ Quiet(o)')) \in BOOLEAN
    OBVIOUS
  <2> QED
    BY <1>3, <2>1, Zenon
<1> HIDE DEF Admitted
<1>5. \A o \in Owners : overlap'[o] = IF Cardinality(Admitted(o)') > overlap[o]
                                    THEN Cardinality(Admitted(o)') ELSE overlap[o]
  BY <1>3, Zenon
<1>6. \A o \in Owners : overlap'[o] \in Nat
  BY <1>1, <1>2, <1>5
<1>7. overlap' \in [Owners -> Nat]
  <2>1. overlap' = [o \in Owners |-> overlap'[o]]
    BY <1>3, Zenon
  <2> QED
    BY <1>6, <2>1, Zenon
<1> QED
  BY <1>1, <1>2, <1>4, <1>5, <1>7

-----------------------------------------------------------------------------
(* What a step does to the requests and the sessions                       *)

IsRequest(r, q) == q \in Queries /\ req' = [req EXCEPT ![r] = q]
IsRun(s, x) == x \in Runs /\ session' = [session EXCEPT ![s] = x]
OfSame(q, p) == q.op = p.op /\ q.o = p.o /\ q.s = p.s

\* A request moves on by itself: it is answered, or from one of its steps to the next.
Advances(r, q) ==
  \/ q = Idle
  \/ /\ req[r].pc = "idle" /\ q.o \in Owners
     /\ \/ q.pc = "policy" /\ q.op \in {"start", "chat"}
        \/ q.pc = "count" /\ q.op = "approve" /\ q.s \in Sessions
           /\ session[q.s].owner \in {q.o, Anon}
  \/ /\ OfSame(q, req[r])
     /\ \/ req[r].pc = "policy" /\ q.pc = "quota" /\ q.pro = (req[r].o \in pro)
        \/ req[r].pc = "quota" /\ q.pc \in {"call", "count"}
           /\ (req[r].pro \/ PeriodTokens(req[r].o) < Budget)
        \/ req[r].pc = "count" /\ q.pc = (IF req[r].op = "approve" THEN "open" ELSE "create")
           /\ (req[r].o = Anon \/ Cardinality(Active(req[r].o)) < MaxActive)
        \/ req[r].pc = "call" /\ q.pc = "scribe"

\* A session moves on by itself; one that is over, and whose agents are, never does.
Lives(s, x) ==
  /\ x.owner = session[s].owner
  /\ ~(session[s].status = "ended" /\ session[s].agent # "out")
  /\ x.status \in {"composing", "building"} => session[s].status \in {"composing", "building"}

LEMMA IdleIsQuery == Idle \in Queries
BY DEF Idle, Queries, Steps

LEMMA AskAdvances ==
  ASSUME Typed, NEW r \in Requests, Ask(r)
  PROVE  \E q \in Queries : IsRequest(r, q) /\ Advances(r, q)
<1>1. req[r].pc = "idle"
  BY DEF Ask
<1>2. ASSUME NEW o \in Owners, NEW op \in {"start", "chat"},
             req' = [req EXCEPT ![r] = [Idle EXCEPT !.pc = "policy", !.op = op, !.o = o]]
      PROVE  \E q \in Queries : IsRequest(r, q) /\ Advances(r, q)
  <2> DEFINE q == [Idle EXCEPT !.pc = "policy", !.op = op, !.o = o]
  <2>1. q \in Queries /\ q.o = o /\ q.pc = "policy" /\ q.op = op
    BY DEF Idle, Queries, Steps
  <2>2. IsRequest(r, q)
    BY <1>2, <2>1 DEF IsRequest
  <2> HIDE DEF q
  <2>3. Advances(r, q)
    BY <1>1, <2>1 DEF Advances
  <2> QED
    BY <2>1, <2>2, <2>3
<1>3. ASSUME NEW o \in Owners, NEW s \in Sessions, session[s].owner \in {o, Anon},
             req' = [req EXCEPT ![r] =
               [Idle EXCEPT !.pc = "count", !.op = "approve", !.o = o, !.s = s]]
      PROVE  \E q \in Queries : IsRequest(r, q) /\ Advances(r, q)
  <2> DEFINE q == [Idle EXCEPT !.pc = "count", !.op = "approve", !.o = o, !.s = s]
  <2>1. q \in Queries /\ q.o = o /\ q.pc = "count" /\ q.op = "approve" /\ q.s = s
    BY DEF Idle, Queries, Steps
  <2>2. IsRequest(r, q)
    BY <1>3, <2>1 DEF IsRequest
  <2> HIDE DEF q
  <2>3. Advances(r, q)
    BY <1>1, <1>3, <2>1 DEF Advances
  <2> QED
    BY <2>1, <2>2, <2>3
<1> QED
  BY <1>2, <1>3 DEF Ask

LEMMA AnswerAdvances ==
  ASSUME NEW r \in Requests, Answer(r)
  PROVE  \E q \in Queries : IsRequest(r, q) /\ Advances(r, q)
BY IdleIsQuery DEF Answer, IsRequest, Advances

\* A request goes to another step and keeps the rest of what it knows.
LEMMA Goes ==
  ASSUME Typed, NEW r \in Requests, NEW step \in Steps, Goto(r, step)
  PROVE  \E q \in Queries : /\ IsRequest(r, q) /\ OfSame(q, req[r])
                            /\ q.pc = step /\ q.pro = req[r].pro
<1> DEFINE q == [req[r] EXCEPT !.pc = step]
<1>1. req[r] \in Queries
  BY DEF Typed
<1>2. /\ q \in Queries /\ q.pc = step /\ q.op = req[r].op /\ q.o = req[r].o /\ q.s = req[r].s
      /\ q.pro = req[r].pro
  BY <1>1 DEF Queries
<1>3. req' = [req EXCEPT ![r] = q]
  BY DEF Goto, Typed
<1> HIDE DEF q
<1> QED
  BY <1>2, <1>3 DEF IsRequest, OfSame

LEMMA RequestAdvances ==
  ASSUME Typed, NEW r \in Requests,
         \/ Ask(r) \/ Policy(r) \/ Quota(r) \/ Count(r) \/ Fail(r) \/ Reply(r) \/ Draft(r)
  PROVE  UNCHANGED session /\ \E q \in Queries : IsRequest(r, q) /\ Advances(r, q)
<1>1. UNCHANGED session
  BY DEF Ask, Policy, Quota, Count, Fail, Reply, Draft, work
<1> DEFINE Advanced == \E q \in Queries : IsRequest(r, q) /\ Advances(r, q)
<1> HIDE DEF Advanced
<1>2. ASSUME Answer(r) PROVE Advanced
  BY <1>2, AnswerAdvances DEF Advanced
<1>3. ASSUME Ask(r) PROVE Advanced
  BY <1>3, AskAdvances DEF Advanced
<1>4. ASSUME Policy(r) PROVE Advanced
  <2> DEFINE q == [req[r] EXCEPT !.pc = "quota", !.pro = req[r].o \in pro]
  <2>1. req[r] \in Queries /\ (req[r].o \in pro) \in BOOLEAN
    BY DEF Typed
  <2>2. /\ q \in Queries /\ q.pc = "quota" /\ q.op = req[r].op /\ q.o = req[r].o
        /\ q.s = req[r].s /\ q.pro = (req[r].o \in pro)
    BY <2>1 DEF Queries, Steps
  <2>3. req' = [req EXCEPT ![r] = q]
    BY <1>4 DEF Policy, Typed
  <2>4. req[r].pc = "policy"
    BY <1>4 DEF Policy
  <2> HIDE DEF q
  <2> QED
    BY <2>2, <2>3, <2>4 DEF IsRequest, OfSame, Advances, Advanced
<1>5. ASSUME Quota(r) /\ ~Answer(r) PROVE Advanced
  <2>1. PICK step \in {"call", "count"} : Goto(r, step)
    BY <1>5 DEF Quota
  <2>2. req[r].pc = "quota" /\ (req[r].pro \/ PeriodTokens(req[r].o) < Budget)
    BY <1>5 DEF Quota
  <2>3. step \in Steps
    BY DEF Steps
  <2> QED
    BY <2>1, <2>2, <2>3, Goes DEF Advances, Advanced
<1>6. ASSUME Count(r) /\ ~Answer(r) PROVE Advanced
  <2> DEFINE step == IF req[r].op = "approve" THEN "open" ELSE "create"
  <2>1. Goto(r, step) /\ step \in Steps
    BY <1>6 DEF Count, Steps
  <2>2. req[r].pc = "count" /\ (req[r].o = Anon \/ Cardinality(Active(req[r].o)) < MaxActive)
    BY <1>6 DEF Count
  <2>3. PICK q \in Queries : IsRequest(r, q) /\ OfSame(q, req[r]) /\ q.pc = step
    BY <2>1, Goes
  <2> QED
    BY <2>2, <2>3 DEF Advances, Advanced
<1>7. ASSUME Reply(r) /\ ~Answer(r) PROVE Advanced
  <2>1. Goto(r, "scribe") /\ "scribe" \in Steps /\ req[r].pc = "call"
    BY <1>7 DEF Reply, Steps
  <2> QED
    BY <2>1, Goes DEF Advances, Advanced
<1>8. ASSUME Fail(r) \/ Draft(r) PROVE Advanced
  BY <1>2, <1>8 DEF Fail, Draft
<1>9. Advanced
  BY <1>2, <1>3, <1>4, <1>5, <1>6, <1>7, <1>8
<1> QED
  BY <1>1, <1>9 DEF Advanced

LEMMA BecomesRun ==
  ASSUME Typed, NEW s \in Sessions, NEW status \in Statuses, Becomes(s, status)
  PROVE  \E x \in Runs : /\ IsRun(s, x) /\ x.status = status /\ x.agent = "none"
                         /\ x.owner = session[s].owner
<1> DEFINE x == [session[s] EXCEPT !.status = status, !.agent = "none"]
<1>1. session[s] \in Runs
  BY DEF Typed
<1>2. x \in Runs /\ x.status = status /\ x.agent = "none" /\ x.owner = session[s].owner
  BY <1>1 DEF Runs
<1>3. session' = [session EXCEPT ![s] = x]
  BY DEF Becomes, Typed
<1> HIDE DEF x
<1> QED
  BY <1>2, <1>3 DEF IsRun

LEMMA SessionLives ==
  ASSUME Typed, NEW s \in Sessions, CallAgent(s) \/ AgentEnds(s) \/ End(s) \/ Resolve(s)
  PROVE  UNCHANGED req /\ \E x \in Runs : IsRun(s, x) /\ Lives(s, x)
<1>1. UNCHANGED req
  BY DEF CallAgent, AgentEnds, End, Resolve
<1> DEFINE Lived == \E x \in Runs : IsRun(s, x) /\ Lives(s, x)
<1>2. session[s] \in Runs /\ session[s].status \in Statuses
  BY DEF Typed, Runs
<1> HIDE DEF Lived
<1>3. ASSUME CallAgent(s)
      PROVE  Lived
  <2> DEFINE x == [session[s] EXCEPT !.agent = "out"]
  <2>1. x \in Runs /\ x.status = session[s].status /\ x.owner = session[s].owner
    BY <1>2 DEF Runs
  <2>2. session' = [session EXCEPT ![s] = x] /\ session[s].status \in {"building", "parked"}
    BY <1>3 DEF CallAgent, Typed
  <2> HIDE DEF x
  <2> QED
    BY <2>1, <2>2 DEF IsRun, Lives, Lived
<1>4. ASSUME session' = [session EXCEPT ![s].status = "ended"], session[s].status # "ended"
      PROVE  Lived
  <2> DEFINE x == [session[s] EXCEPT !.status = "ended"]
  <2>1. x \in Runs /\ x.status = "ended" /\ x.owner = session[s].owner
    BY <1>2 DEF Runs, Statuses
  <2>2. session' = [session EXCEPT ![s] = x]
    BY <1>4 DEF Typed
  <2> HIDE DEF x
  <2> QED
    BY <1>4, <2>1, <2>2 DEF IsRun, Lives, Lived
<1>5. ASSUME NEW status \in Statuses, Becomes(s, status),
             ~(session[s].status = "ended" /\ session[s].agent # "out"),
             status \in {"composing", "building"} => session[s].status \in {"composing", "building"}
      PROVE  Lived
  BY <1>5, BecomesRun DEF Lives, Lived
<1>6. ASSUME AgentEnds(s)
      PROVE  Lived
  <2>1. session[s].agent = "out"
    BY <1>6 DEF AgentEnds
  <2>2. PICK status \in NextStatuses(session[s].status) \cup {session[s].status} :
          Becomes(s, status)
    BY <1>6 DEF AgentEnds
  <2>3. /\ status \in Statuses
        /\ status \in {"composing", "building"} => session[s].status \in {"composing", "building"}
    BY <1>2 DEF NextStatuses, Statuses
  <2> QED
    BY <1>5, <2>1, <2>2, <2>3
<1>7. ASSUME End(s)
      PROVE  Lived
  BY <1>4, <1>7 DEF End
<1>8. ASSUME Resolve(s)
      PROVE  Lived
  <2>1. "awaiting_spec_approval" \in Statuses
    BY DEF Statuses
  <2> QED
    BY <1>4, <1>5, <1>8, <2>1 DEF Resolve
<1> QED
  BY <1>1, <1>3, <1>6, <1>7, <1>8 DEF Lived

LEMMA CreateMoves ==
  ASSUME Typed, NEW r \in Requests, Create(r)
  PROVE  \E s \in Sessions, q \in Queries, x \in Runs :
           /\ IsRequest(r, q) /\ IsRun(s, x) /\ session[s].owner = None
           /\ session[s].status = "none" /\ x.status = "composing" /\ x.owner = req[r].o
           /\ \/ q = Idle
              \/ q.pc = "seed" /\ q.op = req[r].op /\ q.o = req[r].o /\ q.s = s
<1>1. req[r] \in Queries /\ req[r].pc = "create"
  BY DEF Typed, Create
<1>2. PICK s \in Sessions, seeded \in BOOLEAN :
        /\ session[s] = NoSession
        /\ session' = [session EXCEPT ![s] =
             [status |-> "composing", owner |-> req[r].o,
              agent |-> IF seeded THEN "none" ELSE "out"]]
        /\ req' = [req EXCEPT ![r] = IF seeded THEN [@ EXCEPT !.pc = "seed", !.s = s] ELSE Idle]
  BY DEF Create
<1> DEFINE q == IF seeded THEN [req[r] EXCEPT !.pc = "seed", !.s = s] ELSE Idle
<1> DEFINE x == [status |-> "composing", owner |-> req[r].o,
                 agent |-> IF seeded THEN "none" ELSE "out"]
<1>3. x \in Runs /\ x.status = "composing" /\ x.owner = req[r].o
  BY <1>1 DEF Runs, Queries, Statuses
<1>4. /\ q \in Queries
      /\ \/ q = Idle
         \/ q.pc = "seed" /\ q.op = req[r].op /\ q.o = req[r].o /\ q.s = s
  <2>1. CASE seeded
    BY <1>1, <2>1 DEF Queries, Steps
  <2>2. CASE ~seeded
    BY <2>2, IdleIsQuery
  <2> QED
    BY <2>1, <2>2
<1>5. req' = [req EXCEPT ![r] = q] /\ session' = [session EXCEPT ![s] = x]
  BY <1>2 DEF Typed
<1>6. session[s].owner = None /\ session[s].status = "none"
  BY <1>2 DEF NoSession
<1> HIDE DEF q, x
<1> QED
  BY <1>3, <1>4, <1>5, <1>6 DEF IsRequest, IsRun

LEMMA SeedMoves ==
  ASSUME Typed, NEW r \in Requests, Seed(r), RequestHolds(r)
  PROVE  \E q \in Queries, x \in Runs :
           /\ IsRequest(r, q) /\ OfSame(q, req[r]) /\ q.pc = "open"
           /\ IsRun(req[r].s, x) /\ x.owner = req[r].o /\ session[req[r].s].owner = req[r].o
           /\ session[req[r].s].status = "composing" /\ x.status = "awaiting_spec_approval"
<1>1. req[r].s \in Sessions /\ session[req[r].s].owner = req[r].o
  BY DEF Seed, RequestHolds
<1>2. "open" \in Steps /\ "awaiting_spec_approval" \in Statuses
  BY DEF Steps, Statuses
<1>3. PICK q \in Queries : IsRequest(r, q) /\ OfSame(q, req[r]) /\ q.pc = "open"
  BY <1>2, Goes DEF Seed
<1>4. PICK x \in Runs : /\ IsRun(req[r].s, x) /\ x.status = "awaiting_spec_approval"
                        /\ x.owner = session[req[r].s].owner
  BY <1>1, <1>2, BecomesRun DEF Seed
<1> QED
  BY <1>1, <1>3, <1>4 DEF Seed

LEMMA OpenMoves ==
  ASSUME Typed, NEW r \in Requests, Open(r), RequestHolds(r)
  PROVE  /\ IsRequest(r, Idle) /\ req[r].pc = "open" /\ session[req[r].s].owner \in {req[r].o, Anon}
         /\ session[req[r].s].status = "awaiting_spec_approval" /\ req[r].s \in Sessions
         /\ \E x \in Runs : /\ IsRun(req[r].s, x) /\ x.status = "building"
                            /\ x.owner = session[req[r].s].owner
<1>1. req[r].s \in Sessions /\ session[req[r].s].owner \in {req[r].o, Anon}
  BY DEF Open, RequestHolds
<1>2. "building" \in Statuses
  BY DEF Statuses
<1> QED
  BY <1>1, <1>2, BecomesRun, IdleIsQuery DEF Open, Answer, IsRequest

\* A step moves one request and one session at most; or the server restarts.
LEMMA StepMoves ==
  ASSUME Typed, \A r \in Requests : RequestHolds(r), Step
  PROVE  \/ UNCHANGED <<req, session>>
         \/ \E r \in Requests : /\ UNCHANGED session
                               /\ \E q \in Queries : IsRequest(r, q) /\ Advances(r, q)
         \/ \E s \in Sessions : /\ UNCHANGED req
                               /\ \E x \in Runs : IsRun(s, x) /\ Lives(s, x)
         \/ \E r \in Requests : Create(r) \/ Seed(r) \/ Open(r)
         \/ Crash
<1>1. ASSUME NEW o \in Owners, Subscription(o) \/ \E t \in Times : Land(o, t) \/ LandFails(o, t)
      PROVE  UNCHANGED <<req, session>>
  BY <1>1 DEF Subscription, Land, LandFails, work
<1>2. ASSUME Tick PROVE UNCHANGED <<req, session>>
  BY <1>2 DEF Tick, work
<1> QED
  BY <1>1, <1>2, RequestAdvances, SessionLives DEF Step

LEMMA CrashMoves ==
  ASSUME Typed, Crash
  PROVE  /\ req' \in [Requests -> Queries] /\ session' \in [Sessions -> Runs]
         /\ \A r \in Requests : req'[r] = Idle
         /\ \A s \in Sessions : /\ session'[s].owner = session[s].owner
                               /\ session'[s].status = session[s].status
                               /\ session'[s].agent = "none"
<1> DEFINE x(s) == [session[s] EXCEPT !.agent = "none"]
<1>1. \A s \in Sessions : /\ x(s) \in Runs /\ x(s).owner = session[s].owner
                          /\ x(s).status = session[s].status /\ x(s).agent = "none"
  BY DEF Typed, Runs
<1>2. session' = [s \in Sessions |-> x(s)] /\ req' = [r \in Requests |-> Idle]
  BY DEF Crash
<1> HIDE DEF x
<1> QED
  BY <1>1, <1>2, IdleIsQuery

LEMMA TypesKept ==
  ASSUME Admits, Next
  PROVE  Typed'
<1>1. /\ overlap' \in [Owners -> Nat] /\ dry' \in [Owners -> BOOLEAN]
      /\ Typed /\ Step /\ \A r \in Requests : RequestHolds(r)
  BY WatchTypes DEF Admits, Next
<1>2. clock' \in Nat /\ ledger' \in [Owners -> [used : Nat, period : Nat, start : Nat]]
  <2>1. CASE UNCHANGED <<clock, ledger>>
    BY <1>1, <2>1 DEF Typed
  <2>2. ASSUME NEW o \in Owners, NEW t \in Times, Land(o, t)
        PROVE  clock' \in Nat /\ ledger' \in [Owners -> [used : Nat, period : Nat, start : Nat]]
    <3> DEFINE opens == ledger[o].used = 0 \/ Expired(o, t)
               x == [used |-> ledger[o].used + 1,
                     period |-> IF opens THEN 1 ELSE ledger[o].period + 1,
                     start |-> IF opens THEN clock ELSE ledger[o].start]
    <3>1. /\ ledger[o] \in [used : Nat, period : Nat, start : Nat] /\ clock \in Nat
          /\ ledger \in [Owners -> [used : Nat, period : Nat, start : Nat]] /\ UNCHANGED clock
      BY <1>1, <2>2 DEF Typed, Land
    <3>2. ledger' = [ledger EXCEPT ![o] = x]
      BY <2>2 DEF Land
    <3> HIDE DEF opens
    <3>3. x \in [used : Nat, period : Nat, start : Nat]
      BY <3>1
    <3> HIDE DEF x
    <3> QED
      BY <3>1, <3>2, <3>3
  <2>3. CASE Tick
    BY <1>1, <2>3 DEF Tick, store, Typed
  <2>4. ASSUME NEW r \in Requests,
               \/ Ask(r) \/ Policy(r) \/ Quota(r) \/ Count(r) \/ Fail(r)
               \/ Create(r) \/ Seed(r) \/ Open(r) \/ Reply(r) \/ Draft(r)
        PROVE  UNCHANGED <<clock, ledger>>
    BY <2>4 DEF Ask, Policy, Quota, Count, Fail, Create, Seed, Open, Reply, Draft, store
  <2>5. ASSUME NEW s \in Sessions, CallAgent(s) \/ AgentEnds(s) \/ End(s) \/ Resolve(s)
        PROVE  UNCHANGED <<clock, ledger>>
    BY <2>5 DEF CallAgent, AgentEnds, End, Resolve, store
  <2>6. ASSUME NEW o \in Owners, Subscription(o) \/ \E t \in Times : LandFails(o, t)
        PROVE  UNCHANGED <<clock, ledger>>
    BY <2>6 DEF Subscription, LandFails, store
  <2>7. CASE Crash
    BY <2>1, <2>7 DEF Crash
  <2> QED
    BY <1>1, <2>1, <2>2, <2>3, <2>4, <2>5, <2>6, <2>7 DEF Step
<1>3. req' \in [Requests -> Queries] /\ session' \in [Sessions -> Runs]
  <2>1. req \in [Requests -> Queries] /\ session \in [Sessions -> Runs]
    BY <1>1 DEF Typed
  <2>2. ASSUME NEW r \in Requests, NEW q \in Queries, IsRequest(r, q)
        PROVE  req' \in [Requests -> Queries]
    BY <2>1, <2>2 DEF IsRequest
  <2>3. ASSUME NEW s \in Sessions, NEW x \in Runs, IsRun(s, x)
        PROVE  session' \in [Sessions -> Runs]
    BY <2>1, <2>3 DEF IsRun
  <2>4. ASSUME NEW r \in Requests, Create(r)
        PROVE  req' \in [Requests -> Queries] /\ session' \in [Sessions -> Runs]
    BY <1>1, <2>2, <2>3, <2>4, CreateMoves
  <2>5. ASSUME NEW r \in Requests, Seed(r)
        PROVE  req' \in [Requests -> Queries] /\ session' \in [Sessions -> Runs]
    <3>1. req[r].s \in Sessions
      BY <1>1, <2>5 DEF Seed, RequestHolds
    <3> QED
      BY <1>1, <2>2, <2>3, <2>5, <3>1, SeedMoves
  <2>6. ASSUME NEW r \in Requests, Open(r)
        PROVE  req' \in [Requests -> Queries] /\ session' \in [Sessions -> Runs]
    BY <1>1, <2>2, <2>3, <2>6, OpenMoves, IdleIsQuery
  <2>7. CASE Crash
    BY <1>1, <2>7, CrashMoves
  <2> QED
    BY <1>1, <2>1, <2>2, <2>3, <2>4, <2>5, <2>6, <2>7, StepMoves
<1> QED
  BY <1>1, <1>2, <1>3 DEF Typed

-----------------------------------------------------------------------------
(* Whose sessions the requests are about                                   *)

\* A request that does not move keeps its promise while sessions keep their owners.
LEMMA RequestStays ==
  ASSUME NEW r \in Requests, RequestHolds(r), req'[r] = req[r], req[r] \in Queries,
         \A s \in Sessions : session[s].owner # None => session'[s].owner = session[s].owner
  PROVE  RequestHolds(r)'
<1>1. req[r].o \in Owners => None \notin {req[r].o, Anon}
  BY AdmissionAssumption
<1> QED
  BY <1>1 DEF RequestHolds, Queries, Steps

LEMMA IdleHolds ==
  ASSUME NEW r, req'[r] = Idle
  PROVE  RequestHolds(r)'
BY DEF RequestHolds, Idle

LEMMA RequestsKept ==
  ASSUME Admits, Step
  PROVE  \A r \in Requests : RequestHolds(r)'
<1>1. /\ Typed /\ \A r \in Requests : RequestHolds(r) /\ req[r] \in Queries
      /\ req \in [Requests -> Queries] /\ session \in [Sessions -> Runs]
  BY DEF Admits, Typed
<1>2. CASE UNCHANGED <<req, session>>
  BY <1>1, <1>2, RequestStays
<1>3. ASSUME NEW r \in Requests, NEW q \in Queries, IsRequest(r, q), Advances(r, q),
             UNCHANGED session
      PROVE  \A p \in Requests : RequestHolds(p)'
  <2>1. req'[r] = q /\ \A p \in Requests \ {r} : req'[p] = req[p]
    BY <1>1, <1>3 DEF IsRequest
  <2>2. CASE q = Idle
    BY <1>1, <1>3, <2>1, <2>2, RequestStays, IdleHolds
  <2>3. CASE q # Idle
    <3>1. RequestHolds(r)'
      BY <1>1, <1>3, <2>1, <2>3 DEF Advances, OfSame, RequestHolds
    <3> QED
      BY <1>1, <1>3, <2>1, <3>1, RequestStays
  <2> QED
    BY <2>2, <2>3
<1>4. ASSUME NEW s \in Sessions, NEW x \in Runs, IsRun(s, x), Lives(s, x), UNCHANGED req
      PROVE  \A p \in Requests : RequestHolds(p)'
  <2>1. \A t \in Sessions : session'[t].owner = session[t].owner
    BY <1>1, <1>4 DEF IsRun, Lives
  <2> QED
    BY <1>1, <1>4, <2>1, RequestStays
<1>5. ASSUME NEW r \in Requests, Create(r)
      PROVE  \A p \in Requests : RequestHolds(p)'
  <2>1. PICK s \in Sessions, q \in Queries, x \in Runs :
           /\ IsRequest(r, q) /\ IsRun(s, x) /\ session[s].owner = None
           /\ session[s].status = "none" /\ x.status = "composing" /\ x.owner = req[r].o
           /\ \/ q = Idle
              \/ q.pc = "seed" /\ q.op = req[r].op /\ q.o = req[r].o /\ q.s = s
    BY <1>1, <1>5, CreateMoves
  <2>2. /\ req'[r] = q /\ \A p \in Requests \ {r} : req'[p] = req[p]
        /\ session'[s] = x /\ \A t \in Sessions \ {s} : session'[t] = session[t]
    BY <1>1, <2>1 DEF IsRequest, IsRun
  <2>3. \A t \in Sessions : session[t].owner # None => session'[t].owner = session[t].owner
    BY <2>1, <2>2
  <2>4. req[r].pc = "create"
    BY <1>5 DEF Create
  <2>5. RequestHolds(r)'
    <3>1. CASE q = Idle
      BY <2>2, <3>1, IdleHolds
    <3>2. CASE q.pc = "seed" /\ q.op = req[r].op /\ q.o = req[r].o /\ q.s = s
      BY <1>1, <2>1, <2>2, <2>4, <3>2 DEF RequestHolds
    <3> QED
      BY <2>1, <3>1, <3>2
  <2> QED
    BY <1>1, <2>2, <2>3, <2>5, RequestStays
<1>6. ASSUME NEW r \in Requests, Seed(r)
      PROVE  \A p \in Requests : RequestHolds(p)'
  <2>1. PICK q \in Queries, x \in Runs :
           /\ IsRequest(r, q) /\ OfSame(q, req[r]) /\ q.pc = "open"
           /\ IsRun(req[r].s, x) /\ x.owner = req[r].o /\ session[req[r].s].owner = req[r].o
    BY <1>1, <1>6, SeedMoves
  <2>2. req[r].pc = "seed" /\ req[r].s \in Sessions
    BY <1>1, <1>6 DEF Seed, RequestHolds
  <2>3. /\ req'[r] = q /\ \A p \in Requests \ {r} : req'[p] = req[p]
        /\ \A t \in Sessions : session'[t].owner = session[t].owner
    BY <1>1, <2>1, <2>2 DEF IsRequest, IsRun
  <2>4. RequestHolds(r)'
    BY <1>1, <2>1, <2>2, <2>3 DEF RequestHolds, OfSame
  <2> QED
    BY <1>1, <2>3, <2>4, RequestStays
<1>7. ASSUME NEW r \in Requests, Open(r)
      PROVE  \A p \in Requests : RequestHolds(p)'
  <2>1. /\ IsRequest(r, Idle) /\ req[r].s \in Sessions
        /\ \E x \in Runs : IsRun(req[r].s, x) /\ x.owner = session[req[r].s].owner
    BY <1>1, <1>7, OpenMoves
  <2>2. /\ req'[r] = Idle /\ \A p \in Requests \ {r} : req'[p] = req[p]
        /\ \A t \in Sessions : session'[t].owner = session[t].owner
    BY <1>1, <2>1 DEF IsRequest, IsRun
  <2> QED
    BY <1>1, <2>2, RequestStays, IdleHolds
<1>8. CASE Crash
  BY <1>1, <1>8, CrashMoves, IdleHolds
<1> QED
  BY <1>1, <1>2, <1>3, <1>4, <1>5, <1>6, <1>7, <1>8, StepMoves

-----------------------------------------------------------------------------
(* The cap on active runs                                                  *)

LEMMA FewActive ==
  ASSUME NEW o
  PROVE  /\ IsFiniteSet(Active(o)) /\ IsFiniteSet(Entering(o)) /\ IsFiniteSet(Admitted(o))
         /\ IsFiniteSet(Active(o)') /\ IsFiniteSet(Entering(o)') /\ IsFiniteSet(Admitted(o)')
         /\ Entering(o)' \subseteq Admitted(o)'
<1>1. /\ Active(o) \subseteq Sessions /\ Active(o)' \subseteq Sessions
      /\ Entering(o) \subseteq Requests /\ Entering(o)' \subseteq Requests
      /\ Admitted(o) \subseteq Requests /\ Admitted(o)' \subseteq Requests
      /\ Entering(o)' \subseteq Admitted(o)'
  BY DEF Active, Entering, Admitted
<1> QED
  BY <1>1, AdmissionAssumption, FS_Subset

Load(o) == Cardinality(Active(o)) + Cardinality(Entering(o))

LEMMA LoadIsNat ==
  ASSUME NEW o
  PROVE  /\ Cardinality(Active(o)) \in Nat /\ Cardinality(Active(o)') \in Nat
         /\ Cardinality(Entering(o)) \in Nat /\ Cardinality(Entering(o)') \in Nat
         /\ Load(o) \in Nat /\ Load(o)' \in Nat
<1>1. /\ Cardinality(Active(o)) \in Nat /\ Cardinality(Active(o)') \in Nat
      /\ Cardinality(Entering(o)) \in Nat /\ Cardinality(Entering(o)') \in Nat
  BY FewActive, FS_CardinalityType
<1> HIDE DEF Active, Entering
<1> QED
  BY <1>1 DEF Load

\* The load does not grow but by what the cap's check lets through.
LEMMA LoadKept ==
  ASSUME Typed, Watch, NEW o \in Owners, CapInv(o),
         o # Anon => \/ Load(o)' <= Load(o)
                     \/ /\ Active(o)' = Active(o) /\ Cardinality(Active(o)) < MaxActive
                        /\ Entering(o)' # {}
  PROVE  CapInv(o)'
<1>1. /\ overlap[o] \in Nat /\ overlap'[o] \in Nat /\ overlap[o] <= overlap'[o]
      /\ Cardinality(Admitted(o)') \in Nat /\ Cardinality(Admitted(o)') <= overlap'[o]
  BY WatchTypes DEF Typed
<1>2. MaxActive \in Nat
  BY AdmissionAssumption
<1>3. Raced(o) \in Nat /\ Raced(o)' \in Nat /\ Raced(o) <= Raced(o)'
  BY <1>1 DEF Raced
<1>4. CASE Load(o)' <= Load(o)
  <2>1. o # Anon => Load(o) <= MaxActive + Raced(o)
    BY DEF CapInv, Load
  <2>2. o # Anon => Load(o)' <= MaxActive + Raced(o)'
    BY <1>2, <1>3, <1>4, <2>1, LoadIsNat
  <2> QED
    BY <1>1, <2>2 DEF CapInv, Load
<1>5. ASSUME Active(o)' = Active(o), Cardinality(Active(o)) < MaxActive, Entering(o)' # {}
      PROVE  CapInv(o)'
  <2>1. /\ Cardinality(Entering(o)') <= Cardinality(Admitted(o)')
        /\ Cardinality(Entering(o)') # 0
    BY <1>5, FewActive, FS_Subset, FS_EmptySet
  <2>2. Cardinality(Entering(o)') <= overlap'[o] /\ overlap'[o] >= 1
    BY <1>1, <2>1, LoadIsNat
  <2>3. Raced(o)' = overlap'[o] - 1
    BY <1>1, <2>2 DEF Raced
  <2>4. Cardinality(Active(o)') + Cardinality(Entering(o)') <= MaxActive + Raced(o)'
    <3>1. Cardinality(Active(o)') = Cardinality(Active(o))
      BY <1>5
    <3> QED
      BY <1>1, <1>2, <1>5, <2>2, <2>3, <3>1, LoadIsNat
  <2> QED
    BY <1>1, <2>4 DEF CapInv
<1>6. CASE o = Anon
  BY <1>1, <1>6 DEF CapInv
<1> QED
  BY <1>4, <1>5, <1>6

LEMMA LoadShrinks ==
  ASSUME NEW o, Active(o)' \subseteq Active(o), Entering(o)' \subseteq Entering(o)
  PROVE  Load(o)' <= Load(o)
<1>1. /\ Cardinality(Active(o)') <= Cardinality(Active(o))
      /\ Cardinality(Entering(o)') <= Cardinality(Entering(o))
  BY FewActive, FS_Subset
<1> QED
  BY <1>1, LoadIsNat DEF Load

\* A request hands its place over to its session.
LEMMA LoadMoves ==
  ASSUME NEW o, NEW r \in Entering(o), NEW s,
         Active(o)' \subseteq Active(o) \cup {s}, Entering(o)' \subseteq Entering(o) \ {r}
  PROVE  Load(o)' <= Load(o)
<1>1. /\ IsFiniteSet(Active(o) \cup {s})
      /\ Cardinality(Active(o) \cup {s}) <= Cardinality(Active(o)) + 1
  <2>1. /\ IsFiniteSet(Active(o) \cup {s})
        /\ Cardinality(Active(o) \cup {s}) = IF s \in Active(o) THEN Cardinality(Active(o)) ELSE Cardinality(Active(o)) + 1
    BY FewActive, FS_AddElement
  <2> HIDE DEF Active, Entering
  <2> QED
    BY <2>1, LoadIsNat
<1>2. /\ IsFiniteSet(Entering(o) \ {r})
      /\ Cardinality(Entering(o) \ {r}) = Cardinality(Entering(o)) - 1
  BY FewActive, FS_RemoveElement
<1>3. /\ Cardinality(Active(o)') <= Cardinality(Active(o) \cup {s})
      /\ Cardinality(Entering(o)') <= Cardinality(Entering(o) \ {r})
  BY <1>1, <1>2, FS_Subset
<1>4. Cardinality(Active(o) \cup {s}) \in Nat
  BY <1>1, FS_CardinalityType
<1> QED
  BY <1>1, <1>2, <1>3, <1>4, LoadIsNat DEF Load

\* A session hands its place back to its request.
LEMMA LoadReturns ==
  ASSUME NEW o, NEW r, NEW s \in Active(o),
         Active(o)' \subseteq Active(o) \ {s}, Entering(o)' \subseteq Entering(o) \cup {r}
  PROVE  Load(o)' <= Load(o)
<1>1. /\ IsFiniteSet(Entering(o) \cup {r})
      /\ Cardinality(Entering(o) \cup {r}) <= Cardinality(Entering(o)) + 1
  <2>1. /\ IsFiniteSet(Entering(o) \cup {r})
        /\ Cardinality(Entering(o) \cup {r}) = IF r \in Entering(o) THEN Cardinality(Entering(o)) ELSE Cardinality(Entering(o)) + 1
    BY FewActive, FS_AddElement
  <2> HIDE DEF Active, Entering
  <2> QED
    BY <2>1, LoadIsNat
<1>2. /\ IsFiniteSet(Active(o) \ {s})
      /\ Cardinality(Active(o) \ {s}) = Cardinality(Active(o)) - 1
  BY FewActive, FS_RemoveElement
<1>3. /\ Cardinality(Active(o)') <= Cardinality(Active(o) \ {s})
      /\ Cardinality(Entering(o)') <= Cardinality(Entering(o) \cup {r})
  BY <1>1, <1>2, FS_Subset
<1>4. Cardinality(Entering(o) \cup {r}) \in Nat
  BY <1>1, FS_CardinalityType
<1> QED
  BY <1>1, <1>2, <1>3, <1>4, LoadIsNat DEF Load

LEMMA CapKept ==
  ASSUME Admits, Next, NEW o \in Owners
  PROVE  CapInv(o)'
<1>1. /\ Typed /\ Step /\ Watch /\ CapInv(o) /\ \A r \in Requests : RequestHolds(r)
      /\ req \in [Requests -> Queries] /\ session \in [Sessions -> Runs]
  BY DEF Admits, Next, Typed
<1>2. CASE UNCHANGED <<req, session>>
  <2>1. Active(o)' = Active(o) /\ Entering(o)' = Entering(o)
    BY <1>2 DEF Active, Entering
  <2> QED
    BY <1>1, <2>1, LoadShrinks, LoadKept
<1>3. ASSUME NEW r \in Requests, NEW q \in Queries, IsRequest(r, q), Advances(r, q),
             UNCHANGED session
      PROVE  CapInv(o)'
  <2>1. req'[r] = q /\ \A p \in Requests \ {r} : req'[p] = req[p]
    BY <1>1, <1>3 DEF IsRequest
  <2>2. Active(o)' = Active(o)
    BY <1>3 DEF Active
  <2>3. CASE q.pc \notin {"create", "open"} \/ q.o # o
    <3>1. Entering(o)' \subseteq Entering(o)
      BY <2>1, <2>3 DEF Entering
    <3> QED
      BY <1>1, <2>2, <3>1, LoadShrinks, LoadKept
  <2>4. CASE q.pc \in {"create", "open"} /\ q.o = o
    <3>1. o = Anon \/ Cardinality(Active(o)) < MaxActive
      BY <1>3, <2>4 DEF Advances, OfSame, Idle
    <3>2. Entering(o)' # {}
      BY <2>1, <2>4 DEF Entering
    <3> QED
      BY <1>1, <2>2, <3>1, <3>2, LoadKept
  <2> QED
    BY <2>3, <2>4
<1>4. ASSUME NEW s \in Sessions, NEW x \in Runs, IsRun(s, x), Lives(s, x), UNCHANGED req
      PROVE  CapInv(o)'
  <2>1. session'[s] = x /\ \A t \in Sessions \ {s} : session'[t] = session[t]
    BY <1>1, <1>4 DEF IsRun
  <2>2. Active(o)' \subseteq Active(o)
    BY <1>4, <2>1 DEF Active, Lives
  <2>3. Entering(o)' = Entering(o)
    BY <1>4 DEF Entering
  <2> QED
    BY <1>1, <2>2, <2>3, LoadShrinks, LoadKept
<1>5. ASSUME NEW r \in Requests, Create(r)
      PROVE  CapInv(o)'
  <2>1. PICK s \in Sessions, q \in Queries, x \in Runs :
           /\ IsRequest(r, q) /\ IsRun(s, x) /\ session[s].owner = None
           /\ session[s].status = "none" /\ x.status = "composing" /\ x.owner = req[r].o
           /\ \/ q = Idle
              \/ q.pc = "seed" /\ q.op = req[r].op /\ q.o = req[r].o /\ q.s = s
    BY <1>1, <1>5, CreateMoves
  <2>2. /\ req'[r] = q /\ \A p \in Requests \ {r} : req'[p] = req[p]
        /\ session'[s] = x /\ \A t \in Sessions \ {s} : session'[t] = session[t]
    BY <1>1, <2>1 DEF IsRequest, IsRun
  <2>3. req[r].pc = "create" /\ q.pc \notin {"create", "open"}
    BY <1>5, <2>1 DEF Create, Idle
  <2>4. Entering(o)' \subseteq Entering(o) \ {r}
    BY <2>2, <2>3 DEF Entering
  <2>5. CASE req[r].o = o
    <3>1. r \in Entering(o)
      BY <2>3, <2>5 DEF Entering
    <3>2. Active(o)' \subseteq Active(o) \cup {s}
      BY <2>2 DEF Active
    <3> QED
      BY <1>1, <2>4, <3>1, <3>2, LoadMoves, LoadKept
  <2>6. CASE req[r].o # o
    <3>1. Active(o)' \subseteq Active(o)
      BY <2>1, <2>2, <2>6 DEF Active
    <3> QED
      BY <1>1, <2>4, <3>1, LoadShrinks, LoadKept
  <2> QED
    BY <2>5, <2>6
<1>6. ASSUME NEW r \in Requests, Seed(r)
      PROVE  CapInv(o)'
  <2>1. PICK q \in Queries, x \in Runs :
           /\ IsRequest(r, q) /\ OfSame(q, req[r]) /\ q.pc = "open"
           /\ IsRun(req[r].s, x) /\ x.owner = req[r].o /\ session[req[r].s].owner = req[r].o
           /\ session[req[r].s].status = "composing" /\ x.status = "awaiting_spec_approval"
    BY <1>1, <1>6, SeedMoves
  <2>2. req[r].pc = "seed" /\ req[r].s \in Sessions
    BY <1>1, <1>6 DEF Seed, RequestHolds
  <2> DEFINE s == req[r].s
  <2>3. /\ req'[r] = q /\ \A p \in Requests \ {r} : req'[p] = req[p]
        /\ session'[s] = x /\ \A t \in Sessions \ {s} : session'[t] = session[t]
    BY <1>1, <2>1, <2>2 DEF IsRequest, IsRun
  <2>4. Active(o)' \subseteq Active(o) \ {s}
    BY <2>1, <2>3 DEF Active
  <2>5. CASE req[r].o = o
    <3>1. s \in Active(o)
      BY <2>1, <2>2, <2>5 DEF Active
    <3>2. Entering(o)' \subseteq Entering(o) \cup {r}
      BY <2>3 DEF Entering
    <3> QED
      BY <1>1, <2>4, <3>1, <3>2, LoadReturns, LoadKept
  <2>6. CASE req[r].o # o
    <3>1. Entering(o)' \subseteq Entering(o)
      BY <2>1, <2>3, <2>6 DEF Entering, OfSame
    <3> QED
      BY <1>1, <2>4, <3>1, LoadShrinks, LoadKept
  <2> QED
    BY <2>5, <2>6
<1>7. ASSUME NEW r \in Requests, Open(r)
      PROVE  CapInv(o)'
  <2> DEFINE s == req[r].s
  <2>1. /\ IsRequest(r, Idle) /\ req[r].pc = "open" /\ session[s].owner \in {req[r].o, Anon}
        /\ s \in Sessions
        /\ \E x \in Runs : IsRun(s, x) /\ x.status = "building" /\ x.owner = session[s].owner
    BY <1>1, <1>7, OpenMoves
  <2>2. /\ req'[r] = Idle /\ \A p \in Requests \ {r} : req'[p] = req[p]
        /\ session'[s].owner = session[s].owner
        /\ \A t \in Sessions \ {s} : session'[t] = session[t]
    BY <1>1, <2>1 DEF IsRequest, IsRun
  <2>3. Entering(o)' \subseteq Entering(o) \ {r}
    BY <2>2 DEF Entering, Idle
  <2>4. CASE req[r].o = o
    <3>1. r \in Entering(o)
      BY <2>1, <2>4 DEF Entering
    <3>2. Active(o)' \subseteq Active(o) \cup {s}
      BY <2>2 DEF Active
    <3> QED
      BY <1>1, <2>3, <3>1, <3>2, LoadMoves, LoadKept
  <2>5. CASE req[r].o # o /\ o # Anon
    <3>1. Active(o)' \subseteq Active(o)
      BY <2>1, <2>2, <2>5 DEF Active
    <3> QED
      BY <1>1, <2>3, <3>1, LoadShrinks, LoadKept
  <2>6. CASE o = Anon
    BY <1>1, <2>6, LoadKept
  <2> QED
    BY <2>4, <2>5, <2>6
<1>8. CASE Crash
  <2>1. /\ \A r \in Requests : req'[r] = Idle
        /\ \A s \in Sessions : /\ session'[s].owner = session[s].owner
                               /\ session'[s].status = session[s].status
    BY <1>1, <1>8, CrashMoves
  <2>2. Active(o)' \subseteq Active(o) /\ Entering(o)' \subseteq Entering(o)
    BY <2>1 DEF Active, Entering, Idle
  <2> QED
    BY <1>1, <2>2, LoadShrinks, LoadKept
<1> QED
  BY <1>1, <1>2, <1>3, <1>4, <1>5, <1>6, <1>7, <1>8, StepMoves

-----------------------------------------------------------------------------
(* Those who ran dry                                                       *)

LEMMA QuietIsDry ==
  ASSUME NEW o \in Owners, Exhausted(o), Quiet(o)
  PROVE  DryInv(o)
BY DEF DryInv, Quiet

\* A dry owner's request that asks is new, or is not let through.
LEMMA DryAdvances ==
  ASSUME Typed, NEW o \in Owners, dry[o], DryInv(o), NEW r \in Requests, RequestHolds(r),
         NEW q \in Queries, Advances(r, q), q.o = o
  PROVE  \/ q.pc \in {"idle", "policy"} \/ q.op = "approve"
         \/ q.pc = "quota" /\ ~q.pro
<1>1. Exhausted(o) /\ o \notin pro
  BY DEF DryInv, Exhausted
<1>2. PeriodTokens(o) \in Nat /\ Budget \in Nat
  BY AdmissionAssumption DEF PeriodTokens, Typed
<1>3. ~(PeriodTokens(o) < Budget)
  BY <1>1, <1>2 DEF Exhausted
<1>4. req[r].o = o => \/ req[r].pc \in {"idle", "policy"} \/ req[r].op = "approve"
                      \/ req[r].pc = "quota" /\ ~req[r].pro
  BY DEF DryInv
<1>5. q # Idle
  BY AdmissionAssumption DEF Idle
<1> HIDE DEF Exhausted, PeriodTokens
<1> QED
  BY <1>1, <1>3, <1>4, <1>5 DEF Advances, OfSame, RequestHolds

LEMMA DryKept ==
  ASSUME Admits, Next, NEW o \in Owners
  PROVE  DryInv(o)'
<1>1. /\ Typed /\ Step /\ DryInv(o) /\ \A r \in Requests : RequestHolds(r)
      /\ req \in [Requests -> Queries] /\ session \in [Sessions -> Runs]
  BY DEF Admits, Next, Typed
<1>2. dry' = [p \in Owners |-> Exhausted(p)' /\ (dry[p] \/ Quiet(p)')]
  BY DEF Next, Watch
<1>3. dry'[o] <=> Exhausted(o)' /\ (dry[o] \/ Quiet(o)')
  BY <1>2, Zenon
<1>4. CASE ~dry'[o]
  BY <1>4 DEF DryInv
<1>5. CASE dry'[o] /\ Quiet(o)'
  BY <1>3, <1>5 DEF DryInv, Quiet
<1>6. ASSUME dry'[o], ~Quiet(o)'
      PROVE  DryInv(o)'
  <2> DEFINE Fine(q) == \/ q.pc \in {"idle", "policy"} \/ q.op = "approve"
                        \/ q.pc = "quota" /\ ~q.pro
             Over(x) == x.status = "ended" /\ x.agent # "out"
  <2>1. Exhausted(o)' /\ dry[o]
    BY <1>3, <1>6
  <2>2. /\ \A r \in Requests : req[r].o = o => Fine(req[r])
        /\ \A s \in Sessions : session[s].owner = o => Over(session[s])
    BY <1>1, <2>1 DEF DryInv
  <2>3. SUFFICES /\ \A r \in Requests : req'[r].o = o => Fine(req'[r])
                 /\ \A s \in Sessions : session'[s].owner = o => Over(session'[s])
    BY <2>1 DEF DryInv
  <2>4. CASE UNCHANGED <<req, session>>
    BY <2>2, <2>4
  <2>5. ASSUME NEW r \in Requests, NEW q \in Queries, IsRequest(r, q), Advances(r, q),
               UNCHANGED session
        PROVE  /\ \A p \in Requests : req'[p].o = o => Fine(req'[p])
               /\ \A s \in Sessions : session'[s].owner = o => Over(session'[s])
    <3>1. req'[r] = q /\ \A p \in Requests \ {r} : req'[p] = req[p]
      BY <1>1, <2>5 DEF IsRequest
    <3>2. q.o = o => Fine(q)
      BY <1>1, <2>1, <2>5, DryAdvances
    <3> HIDE DEF Fine
    <3> QED
      BY <2>2, <2>5, <3>1, <3>2
  <2>6. ASSUME NEW s \in Sessions, NEW x \in Runs, IsRun(s, x), Lives(s, x), UNCHANGED req
        PROVE  /\ \A p \in Requests : req'[p].o = o => Fine(req'[p])
               /\ \A t \in Sessions : session'[t].owner = o => Over(session'[t])
    <3>1. session'[s] = x /\ \A t \in Sessions \ {s} : session'[t] = session[t]
      BY <1>1, <2>6 DEF IsRun
    <3>2. session[s].owner # o /\ x.owner # o
      BY <2>2, <2>6 DEF Lives
    <3> QED
      BY <2>2, <2>6, <3>1, <3>2
  <2>7. ASSUME NEW r \in Requests, Create(r)
        PROVE  /\ \A p \in Requests : req'[p].o = o => Fine(req'[p])
               /\ \A t \in Sessions : session'[t].owner = o => Over(session'[t])
    <3>1. PICK s \in Sessions, q \in Queries, x \in Runs :
             /\ IsRequest(r, q) /\ IsRun(s, x) /\ session[s].owner = None
             /\ session[s].status = "none" /\ x.status = "composing" /\ x.owner = req[r].o
             /\ \/ q = Idle
                \/ q.pc = "seed" /\ q.op = req[r].op /\ q.o = req[r].o /\ q.s = s
      BY <1>1, <2>7, CreateMoves
    <3>2. /\ req'[r] = q /\ \A p \in Requests \ {r} : req'[p] = req[p]
          /\ session'[s] = x /\ \A t \in Sessions \ {s} : session'[t] = session[t]
      BY <1>1, <3>1 DEF IsRequest, IsRun
    <3>3. req[r].pc = "create" /\ RequestHolds(r)
      BY <1>1, <2>7 DEF Create
    <3>4. req[r].o # o
      BY <2>2, <3>3 DEF RequestHolds
    <3>5. q.o # o /\ x.owner # o
      BY <3>1, <3>4, AdmissionAssumption DEF Idle
    <3> HIDE DEF Fine, Over
    <3> QED
      BY <2>2, <3>2, <3>5
  <2>8. ASSUME NEW r \in Requests, Seed(r)
        PROVE  /\ \A p \in Requests : req'[p].o = o => Fine(req'[p])
               /\ \A t \in Sessions : session'[t].owner = o => Over(session'[t])
    <3>1. PICK q \in Queries, x \in Runs :
             /\ IsRequest(r, q) /\ OfSame(q, req[r]) /\ q.pc = "open"
             /\ IsRun(req[r].s, x) /\ x.owner = req[r].o /\ session[req[r].s].owner = req[r].o
             /\ session[req[r].s].status = "composing" /\ x.status = "awaiting_spec_approval"
      BY <1>1, <2>8, SeedMoves
    <3>2. req[r].s \in Sessions
      BY <1>1, <2>8 DEF Seed, RequestHolds
    <3>3. /\ req'[r] = q /\ \A p \in Requests \ {r} : req'[p] = req[p]
          /\ session'[req[r].s] = x
          /\ \A t \in Sessions \ {req[r].s} : session'[t] = session[t]
      BY <1>1, <3>1, <3>2 DEF IsRequest, IsRun
    <3>4. q.o # o /\ x.owner # o
      BY <2>2, <3>1, <3>2 DEF OfSame
    <3> HIDE DEF Fine, Over
    <3> QED
      BY <2>2, <3>3, <3>4
  <2>9. ASSUME NEW r \in Requests, Open(r)
        PROVE  /\ \A p \in Requests : req'[p].o = o => Fine(req'[p])
               /\ \A t \in Sessions : session'[t].owner = o => Over(session'[t])
    <3> DEFINE s == req[r].s
    <3>1. /\ IsRequest(r, Idle) /\ s \in Sessions /\ session[s].status = "awaiting_spec_approval"
          /\ \E x \in Runs : IsRun(s, x) /\ x.status = "building" /\ x.owner = session[s].owner
      BY <1>1, <2>9, OpenMoves
    <3>2. /\ req'[r] = Idle /\ \A p \in Requests \ {r} : req'[p] = req[p]
          /\ session'[s].owner = session[s].owner
          /\ \A t \in Sessions \ {s} : session'[t] = session[t]
      BY <1>1, <3>1 DEF IsRequest, IsRun
    <3>3. session[s].owner # o
      BY <2>2, <3>1
    <3>4. Idle.o # o
      BY AdmissionAssumption DEF Idle
    <3> HIDE DEF Fine, Over, s
    <3> QED
      BY <2>2, <3>2, <3>3, <3>4
  <2>10. CASE Crash
    <3>1. /\ \A r \in Requests : req'[r] = Idle
          /\ \A s \in Sessions : /\ session'[s].owner = session[s].owner
                                 /\ session'[s].status = session[s].status
                                 /\ session'[s].agent = "none"
      BY <1>1, <2>10, CrashMoves
    <3>2. Idle.o # o
      BY AdmissionAssumption DEF Idle
    <3> QED
      BY <2>2, <3>1, <3>2
  <2> HIDE DEF Fine, Over
  <2> QED
    BY <1>1, <2>4, <2>5, <2>6, <2>7, <2>8, <2>9, <2>10, StepMoves
<1> QED
  BY <1>3, <1>4, <1>5, <1>6

-----------------------------------------------------------------------------
(* The invariant and what it implies                                       *)

LEMMA AdmitsInit == Init => Admits
<1> SUFFICES ASSUME Init PROVE Admits
  OBVIOUS
<1>1. /\ \A r \in Requests : req[r] = Idle
      /\ \A s \in Sessions : session[s] = NoSession
  BY DEF Init
<1>2. Typed
  <2>1. req \in [Requests -> Queries]
    BY IdleIsQuery DEF Init
  <2>2. NoSession \in Runs
    BY DEF NoSession, Runs, Statuses
  <2>3. session \in [Sessions -> Runs]
    BY <2>2 DEF Init
  <2>4. clock \in Nat /\ ledger \in [Owners -> [used : Nat, period : Nat, start : Nat]]
    BY DEF Init
  <2>5. overlap \in [Owners -> Nat] /\ dry \in [Owners -> BOOLEAN]
    BY DEF Init
  <2> QED
    BY <2>1, <2>3, <2>4, <2>5 DEF Typed
<1>3. \A r \in Requests : RequestHolds(r)
  BY <1>1 DEF RequestHolds, Idle
<1>4. ASSUME NEW o \in Owners PROVE CapInv(o) /\ DryInv(o)
  <2>1. Admitted(o) = {} /\ Active(o) = {} /\ Entering(o) = {}
    BY <1>1 DEF Admitted, Active, Entering, Idle, NoSession
  <2>2. overlap[o] = 0 /\ ~dry[o] /\ MaxActive \in Nat
    BY AdmissionAssumption DEF Init
  <2> QED
    BY <2>1, <2>2, FS_EmptySet DEF CapInv, DryInv, Raced
<1> QED
  BY <1>2, <1>3, <1>4 DEF Admits

LEMMA AdmitsStutters ==
  ASSUME Admits, UNCHANGED vars
  PROVE  Admits'
<1>1. UNCHANGED <<clock, pro, ledger, session, req, overlap, dry>>
  BY DEF vars, store, work, watched
<1>2. Typed' /\ \A r \in Requests : RequestHolds(r)'
  BY <1>1 DEF Admits, Typed, RequestHolds
<1>3. ASSUME NEW o \in Owners PROVE CapInv(o)' /\ DryInv(o)'
  <2>1. /\ Admitted(o)' = Admitted(o) /\ Active(o)' = Active(o) /\ Entering(o)' = Entering(o)
        /\ Raced(o)' = Raced(o) /\ (Exhausted(o)' <=> Exhausted(o))
    BY <1>1 DEF Admitted, Active, Entering, Raced, Exhausted, PeriodTokens, Expired
  <2>2. CapInv(o) /\ DryInv(o)
    BY DEF Admits
  <2> HIDE DEF Admitted, Active, Entering, Raced, Exhausted
  <2> QED
    BY <1>1, <2>1, <2>2 DEF CapInv, DryInv
<1> QED
  BY <1>2, <1>3 DEF Admits

LEMMA AdmitsInvariant == Spec => []Admits
<1>1. Admits /\ [Next]_vars => Admits'
  <2> SUFFICES ASSUME Admits, [Next]_vars PROVE Admits'
    OBVIOUS
  <2>1. CASE Next
    <3>1. Step
      BY <2>1 DEF Next
    <3> QED
      BY <2>1, <3>1, TypesKept, RequestsKept, CapKept, DryKept DEF Admits
  <2> QED
    BY <2>1, AdmitsStutters
<1> QED
  BY <1>1, AdmitsInit, PTL DEF Spec

\* An owner's active runs pass the cap by no more than the starts that were past its check
\* together.
THEOREM StartsAreBounded == Spec => []OverAdmissionIsBounded
<1>1. Admits => OverAdmissionIsBounded
  <2> SUFFICES ASSUME Admits, NEW o \in Owners \ {Anon}
               PROVE  Cardinality(Active(o)) <= MaxActive + Raced(o)
    BY DEF OverAdmissionIsBounded, Raced
  <2>1. Cardinality(Active(o)) + Cardinality(Entering(o)) <= MaxActive + Raced(o)
    BY DEF Admits, CapInv
  <2>2. MaxActive \in Nat /\ Raced(o) \in Nat
    BY AdmissionAssumption DEF Admits, Typed, Raced
  <2> QED
    BY <2>1, <2>2, LoadIsNat
<1> QED
  BY <1>1, AdmitsInvariant, PTL

\* An owner out of tokens, and of work under way, makes no model call until their window
\* rolls or their tier changes.
THEOREM TheDryStop == Spec => []QuotaStops
<1>1. Admits => QuotaStops
  <2> SUFFICES ASSUME Admits, NEW o \in Owners, dry[o]
               PROVE  /\ \A s \in Sessions : session[s].owner = o => session[s].agent # "out"
                      /\ \A r \in Requests :
                           req[r].o = o => req[r].pc \notin {"call", "scribe", "create"}
    BY DEF QuotaStops
  <2>1. DryInv(o) /\ \A r \in Requests : RequestHolds(r)
    BY DEF Admits
  <2> QED
    BY <2>1 DEF DryInv, RequestHolds
<1> QED
  BY <1>1, AdmitsInvariant, PTL

-----------------------------------------------------------------------------
(* The ledger                                                              *)

\* A history of tokens by time, of which there are finitely many.
Counted(f) == f \in [Times -> Nat] /\ IsFiniteSet(Tokens(f, 0))

\* What an owner is charged, on its way and landed, against what their work spent.
AccountHolds(o) ==
  LET l == ledger[o] IN
  /\ Counted(owed[o]) /\ Counted(landed[o])
  /\ spent[o] \in Nat /\ due[o] \in Int
  /\ \A t \in Times : t > clock => landed[o][t] = 0
  /\ l.start <= clock
  /\ l.used = Total(landed[o], 0)
  /\ l.used > 0 => /\ Total(landed[o], l.start + 1) <= l.period
                   /\ l.period <= Total(landed[o], l.start)
  /\ l.used + Total(owed[o], 0) <= spent[o]
  /\ crashes = 0 => due[o] <= l.used + Total(owed[o], 0)

BooksHold ==
  /\ clock \in Times /\ crashes \in Nat
  /\ owed \in [Owners -> [Times -> Nat]] /\ landed \in [Owners -> [Times -> Nat]]
  /\ spent \in [Owners -> Nat] /\ due \in [Owners -> Int]
  /\ \A o \in Owners : AccountHolds(o)

\* A session whose agent is out has begun, and one that has begun has its owner; until a
\* restart the tap knows every session whose work is to be charged.
TapHolds(s) ==
  /\ session[s].agent = "out" => session[s].status # "none"
  /\ session[s].status # "none" => session[s].owner \in Owners
  /\ crashes = 0 /\ session[s].status \notin {"none", "ended"} /\ s \notin broken =>
       s \in tapped

Accounts == BooksHold /\ \A s \in Sessions : TapHolds(s)

LEMMA TimesAre == MaxTime \in Nat /\ Times \subseteq Nat /\ 0 \in Times
BY AdmissionAssumption DEF Times

\* What the tokens of a history are.
LEMMA TokenIs ==
  ASSUME NEW f, NEW from, NEW x
  PROVE  x \in Tokens(f, from) <=>
           \E t \in from..MaxTime : \E k \in 1..f[t] : x = <<t, k>>
BY DEF Tokens

\* Later histories are parts of earlier ones, and can be counted.
LEMMA TotalIsNat ==
  ASSUME NEW f, Counted(f), NEW from \in Nat
  PROVE  IsFiniteSet(Tokens(f, from)) /\ Total(f, from) \in Nat
<1>1. from..MaxTime \subseteq 0..MaxTime
  BY TimesAre
<1>2. Tokens(f, from) \in SUBSET Tokens(f, 0)
  BY <1>1, TokenIs
<1>3. IsFiniteSet(Tokens(f, from))
  BY <1>2, FS_Subset DEF Counted
<1> QED
  BY <1>3, FS_CardinalityType DEF Total

\* One token more at a time makes one more from then on, and none later.
LEMMA OneMoreToken ==
  ASSUME NEW f, Counted(f), NEW c \in Times, NEW g \in [Times -> Nat],
         g[c] = f[c] + 1, \A t \in Times \ {c} : g[t] = f[t]
  PROVE  /\ Counted(g)
         /\ \A from \in Nat :
              Total(g, from) = IF from <= c THEN Total(f, from) + 1 ELSE Total(f, from)
<1> DEFINE x == <<c, f[c] + 1>>
<1>1. f \in [Times -> Nat] /\ f[c] \in Nat /\ c \in Nat /\ Times = 0..MaxTime /\ MaxTime \in Nat
  BY TimesAre DEF Counted, Times
<1>2. ASSUME NEW from \in Nat, from <= c
      PROVE  Tokens(g, from) = Tokens(f, from) \cup {x}
  <2>1. ASSUME NEW t \in from..MaxTime, NEW k \in 1..g[t]
        PROVE  <<t, k>> \in Tokens(f, from) \cup {x}
    <3>1. CASE t = c
      <4>1. k \in 1..f[c] \/ k = f[c] + 1
        BY <1>1, <2>1, <3>1
      <4> QED
        BY <2>1, <3>1, <4>1, TokenIs
    <3>2. CASE t # c
      <4>1. t \in Times \ {c}
        BY <1>1, <2>1, <3>2
      <4> QED
        BY <2>1, <4>1, TokenIs
    <3> QED
      BY <3>1, <3>2
  <2>2. ASSUME NEW t \in from..MaxTime, NEW k \in 1..f[t]
        PROVE  <<t, k>> \in Tokens(g, from)
    <3>1. t \in Times
      BY <1>1, <2>2
    <3>2. k \in 1..g[t]
      BY <1>1, <2>2, <3>1
    <3> QED
      BY <2>2, <3>2, TokenIs
  <2>3. x \in Tokens(g, from)
    <3>1. c \in from..MaxTime /\ f[c] + 1 \in 1..g[c]
      BY <1>1, <1>2
    <3> QED
      BY <3>1, TokenIs
  <2> HIDE DEF x
  <2> QED
    BY <2>1, <2>2, <2>3, TokenIs
<1>3. ASSUME NEW from \in Nat, ~(from <= c)
      PROVE  Tokens(g, from) = Tokens(f, from)
  <2>1. \A t \in from..MaxTime : g[t] = f[t]
    BY <1>1, <1>3
  <2>2. \A y : y \in Tokens(g, from) <=> y \in Tokens(f, from)
    <3> TAKE y
    <3>1. y \in Tokens(g, from) <=> \E t \in from..MaxTime : \E k \in 1..g[t] : y = <<t, k>>
      BY TokenIs
    <3>2. y \in Tokens(f, from) <=> \E t \in from..MaxTime : \E k \in 1..f[t] : y = <<t, k>>
      BY TokenIs
    <3> QED
      BY <2>1, <3>1, <3>2
  <2> QED
    BY <2>2
<1>4. \A from \in Nat : x \notin Tokens(f, from)
  <2> SUFFICES ASSUME NEW from \in Nat, NEW t \in from..MaxTime, NEW k \in 1..f[t], x = <<t, k>>
               PROVE  FALSE
    BY TokenIs
  <2>1. t = c /\ k = f[c] + 1
    OBVIOUS
  <2> QED
    BY <2>1, <1>1
<1> HIDE DEF x
<1>5. Counted(g)
  <2>1. IsFiniteSet(Tokens(f, 0) \cup {x})
    BY FS_AddElement DEF Counted
  <2>2. 0 \in Nat /\ 0 <= c
    BY <1>1
  <2>3. Tokens(g, 0) = Tokens(f, 0) \cup {x}
    BY <1>2, <2>2
  <2> QED
    BY <2>1, <2>3 DEF Counted
<1>6. ASSUME NEW from \in Nat
      PROVE  Total(g, from) = IF from <= c THEN Total(f, from) + 1 ELSE Total(f, from)
  <2>1. IsFiniteSet(Tokens(f, from))
    BY TotalIsNat
  <2>2. Cardinality(Tokens(f, from) \cup {x}) = Cardinality(Tokens(f, from)) + 1
    BY <1>4, <2>1, FS_AddElement
  <2> QED
    BY <1>2, <1>3, <2>2 DEF Total
<1> QED
  BY <1>5, <1>6

\* One token less.
LEMMA OneTokenLess ==
  ASSUME NEW f, Counted(f), NEW c \in Times, f[c] > 0, NEW g \in [Times -> Nat],
         g[c] = f[c] - 1, \A t \in Times \ {c} : g[t] = f[t]
  PROVE  Counted(g) /\ Total(g, 0) = Total(f, 0) - 1
<1>1. f \in [Times -> Nat] /\ f[c] \in Nat /\ c \in Nat /\ Times = 0..MaxTime
  BY TimesAre DEF Counted, Times
<1>2. \A t \in 0..MaxTime : 1..g[t] \subseteq 1..f[t]
  BY <1>1
<1>3. Tokens(g, 0) \in SUBSET Tokens(f, 0)
  BY <1>2, TokenIs
<1>4. Counted(g)
  BY <1>3, FS_Subset DEF Counted
<1>5. f[c] = g[c] + 1
  BY <1>1
<1>6. Total(f, 0) = IF 0 <= c THEN Total(g, 0) + 1 ELSE Total(g, 0)
  <2>1. \A t \in Times \ {c} : f[t] = g[t]
    OBVIOUS
  <2>2. \A from \in Nat :
          Total(f, from) = IF from <= c THEN Total(g, from) + 1 ELSE Total(g, from)
    <3>1. f \in [Times -> Nat] /\ g[c] + 1 = f[c] /\ Counted(g)
      BY <1>1, <1>4, <1>5
    <3> HIDE DEF Counted
    <3> QED
      BY <2>1, <3>1, OneMoreToken
  <2> QED
    BY <2>2
<1>7. Total(g, 0) \in Nat
  BY <1>4, TotalIsNat
<1> QED
  BY <1>1, <1>4, <1>6, <1>7

\* No token, no total.
LEMMA NoTokens ==
  ASSUME NEW f, NEW from, \A t \in from..MaxTime : f[t] = 0
  PROVE  IsFiniteSet(Tokens(f, from)) /\ Total(f, from) = 0
<1>1. Tokens(f, from) = {}
  BY TokenIs
<1> QED
  BY <1>1, FS_EmptySet DEF Total

-----------------------------------------------------------------------------
(* What the steps do to an owner's account                                 *)

\* One history of many changes at one time.
LEMMA OneAt ==
  ASSUME NEW a \in [Owners -> [Times -> Nat]], NEW o \in Owners, NEW t \in Times, NEW n \in Nat
  PROVE  /\ [a EXCEPT ![o][t] = n] \in [Owners -> [Times -> Nat]]
         /\ [a EXCEPT ![o][t] = n][o] \in [Times -> Nat]
         /\ [a EXCEPT ![o][t] = n][o][t] = n
         /\ \A x \in Times \ {t} : [a EXCEPT ![o][t] = n][o][x] = a[o][x]
         /\ \A p \in Owners \ {o} : [a EXCEPT ![o][t] = n][p] = a[p]
<1>1. PICK f : f = [a[o] EXCEPT ![t] = n]
  OBVIOUS
<1>2. f \in [Times -> Nat] /\ f[t] = n /\ \A x \in Times \ {t} : f[x] = a[o][x]
  BY <1>1
<1>3. [a EXCEPT ![o][t] = n] = [a EXCEPT ![o] = f]
  BY <1>1
<1> QED
  BY <1>2, <1>3

LEMMA AccountStays ==
  ASSUME NEW o \in Owners, AccountHolds(o), clock \in Nat, clock' \in Nat, clock <= clock',
         ledger'[o] = ledger[o], ledger[o].start \in Nat, owed'[o] = owed[o],
         landed'[o] = landed[o], spent'[o] = spent[o], due'[o] = due[o], crashes' = crashes
  PROVE  AccountHolds(o)'
<1>1. \A t \in Times : t > clock' => landed[o][t] = 0
  BY TimesAre DEF AccountHolds
<1>2. ledger[o].start <= clock'
  BY DEF AccountHolds
<1> QED
  BY <1>1, <1>2 DEF AccountHolds

\* A charge that lands goes from what is on its way to the row, and to the window, which it
\* opens when the row is new or the cutoff it was sent with is past the last one.
LEMMA AccountLands ==
  ASSUME Typed, BooksHold, NEW o \in Owners, NEW t \in Times, Land(o, t)
  PROVE  AccountHolds(o)'
<1> DEFINE opens == ledger[o].used = 0 \/ Expired(o, t)
<1>1. PICK used \in Nat, period \in Nat, start \in Nat :
        ledger[o] = [used |-> used, period |-> period, start |-> start]
  BY DEF Typed
<1>2. PICK f \in [Times -> Nat], g \in [Times -> Nat] : f = owed[o] /\ g = landed[o]
  BY DEF BooksHold
<1>3. /\ Counted(f) /\ Counted(g) /\ spent[o] \in Nat /\ due[o] \in Int
      /\ \A x \in Times : x > clock => g[x] = 0
      /\ start <= clock /\ used = Total(g, 0)
      /\ used > 0 => Total(g, start + 1) <= period /\ period <= Total(g, start)
      /\ used + Total(f, 0) <= spent[o]
      /\ crashes = 0 => due[o] <= used + Total(f, 0)
  BY <1>1, <1>2 DEF BooksHold, AccountHolds
<1>4. /\ f[t] > 0 /\ clock \in Times /\ clock \in Nat
      /\ clock' = clock /\ spent' = spent /\ due' = due /\ crashes' = crashes
  BY <1>2, TimesAre DEF Land, BooksHold, bill, bounds
<1>5. PICK fx \in [Times -> Nat] :
        /\ fx = owed'[o] /\ fx[t] = f[t] - 1 /\ \A x \in Times \ {t} : fx[x] = f[x]
  <2>1. PICK n \in Nat : n = f[t] - 1
    BY <1>4
  <2>2. owed' = [owed EXCEPT ![o][t] = n] /\ owed \in [Owners -> [Times -> Nat]]
    BY <1>2, <2>1 DEF Land, BooksHold
  <2>3. /\ owed'[o] \in [Times -> Nat] /\ owed'[o][t] = n
        /\ \A x \in Times \ {t} : owed'[o][x] = owed[o][x]
    BY <2>2, OneAt
  <2> QED
    BY <1>2, <2>1, <2>3
<1>6. PICK gx \in [Times -> Nat] :
        /\ gx = landed'[o] /\ gx[clock] = g[clock] + 1
        /\ \A x \in Times \ {clock} : gx[x] = g[x]
  <2>1. PICK n \in Nat : n = g[clock] + 1
    BY <1>4
  <2>2. landed' = [landed EXCEPT ![o][clock] = n] /\ landed \in [Owners -> [Times -> Nat]]
    BY <1>2, <2>1 DEF Land, BooksHold
  <2>3. /\ landed'[o] \in [Times -> Nat] /\ landed'[o][clock] = n
        /\ \A x \in Times \ {clock} : landed'[o][x] = landed[o][x]
    BY <1>4, <2>2, OneAt
  <2> QED
    BY <1>2, <2>1, <2>3
<1>7. ledger'[o] = [used |-> used + 1, period |-> IF opens THEN 1 ELSE period + 1,
                    start |-> IF opens THEN clock ELSE start]
  BY <1>1 DEF Land, Typed
<1>8. Counted(fx) /\ Total(fx, 0) = Total(f, 0) - 1 /\ Total(f, 0) \in Nat
  <2>1. Counted(f) /\ f[t] > 0 /\ 0 \in Nat
    BY <1>3, <1>4
  <2> QED
    BY <1>5, <2>1, OneTokenLess, TotalIsNat
<1>9. /\ Counted(gx)
      /\ \A from \in Nat :
           /\ Total(g, from) \in Nat
           /\ Total(gx, from) = IF from <= clock THEN Total(g, from) + 1 ELSE Total(g, from)
  <2>1. Counted(g) /\ clock \in Times
    BY <1>3, <1>4
  <2>2. /\ Counted(gx)
        /\ \A from \in Nat :
             Total(gx, from) = IF from <= clock THEN Total(g, from) + 1 ELSE Total(g, from)
    BY <1>6, <2>1, OneMoreToken
  <2>3. \A from \in Nat : Total(g, from) \in Nat
    BY <2>1, TotalIsNat
  <2> QED
    BY <2>2, <2>3
<1>10. \A x \in Times : x > clock => gx[x] = 0
  BY <1>3, <1>4, <1>6, TimesAre
<1>11. used > 0 \/ opens
  BY <1>1
<1> HIDE DEF opens
<1>12. PICK px \in Nat, sx \in Nat :
         /\ ledger'[o] = [used |-> used + 1, period |-> px, start |-> sx]
         /\ sx <= clock /\ Total(gx, sx + 1) <= px /\ px <= Total(gx, sx)
  <2>1. CASE opens
    <3>1. \A x \in (clock + 1)..MaxTime : g[x] = 0
      BY <1>3, <1>4, TimesAre DEF Times
    <3>2. Total(g, clock + 1) = 0
      BY <3>1, NoTokens
    <3>3. Total(gx, clock + 1) <= 1 /\ 1 <= Total(gx, clock)
      BY <1>4, <1>9, <3>2
    <3> QED
      BY <1>4, <1>7, <2>1, <3>3
  <2>2. CASE ~opens
    <3>1. /\ Total(gx, start) = Total(g, start) + 1
          /\ Total(gx, start + 1) \in {Total(g, start + 1), Total(g, start + 1) + 1}
          /\ Total(g, start) \in Nat /\ Total(g, start + 1) \in Nat
      BY <1>3, <1>4, <1>9
    <3>2. Total(gx, start + 1) <= period + 1 /\ period + 1 <= Total(gx, start)
      BY <1>3, <1>11, <2>2, <3>1
    <3> QED
      BY <1>3, <1>7, <2>2, <3>2
  <2> QED
    BY <2>1, <2>2
<1>13. used + 1 = Total(gx, 0) /\ Total(gx, 0) \in Nat
  BY <1>3, <1>4, <1>9
<1>14. /\ used + 1 + Total(fx, 0) <= spent[o]
       /\ crashes = 0 => due[o] <= used + 1 + Total(fx, 0)
  BY <1>3, <1>8
<1> QED
  BY <1>3, <1>4, <1>5, <1>6, <1>8, <1>9, <1>10, <1>12, <1>13, <1>14 DEF AccountHolds

\* A charge that fails is due no more.
LEMMA AccountFails ==
  ASSUME Typed, BooksHold, NEW o \in Owners, NEW t \in Times, LandFails(o, t)
  PROVE  AccountHolds(o)'
<1>1. PICK used \in Nat : used = ledger[o].used
  BY DEF Typed
<1>2. PICK f \in [Times -> Nat], d \in Int : f = owed[o] /\ d = due[o]
  BY DEF BooksHold
<1>3. /\ AccountHolds(o) /\ Counted(f) /\ spent[o] \in Nat
      /\ used + Total(f, 0) <= spent[o] /\ (crashes = 0 => d <= used + Total(f, 0))
  BY <1>1, <1>2 DEF BooksHold, AccountHolds
<1>4. /\ f[t] > 0 /\ clock' = clock /\ spent' = spent /\ ledger' = ledger /\ landed' = landed
      /\ crashes' = crashes /\ due'[o] = d - 1
  BY <1>2 DEF LandFails, bounds, BooksHold
<1>5. PICK fx \in [Times -> Nat] :
        /\ fx = owed'[o] /\ fx[t] = f[t] - 1 /\ \A x \in Times \ {t} : fx[x] = f[x]
  <2>1. PICK n \in Nat : n = f[t] - 1
    BY <1>4
  <2>2. owed' = [owed EXCEPT ![o][t] = n] /\ owed \in [Owners -> [Times -> Nat]]
    BY <1>2, <2>1 DEF LandFails, BooksHold
  <2>3. /\ owed'[o] \in [Times -> Nat] /\ owed'[o][t] = n
        /\ \A x \in Times \ {t} : owed'[o][x] = owed[o][x]
    BY <2>2, OneAt
  <2> QED
    BY <1>2, <2>1, <2>3
<1>6. Counted(fx) /\ Total(fx, 0) = Total(f, 0) - 1 /\ Total(f, 0) \in Nat
  BY <1>3, <1>4, <1>5, OneTokenLess, TotalIsNat
<1>7. /\ used + Total(fx, 0) <= spent[o]
      /\ crashes = 0 => d - 1 <= used + Total(fx, 0)
      /\ d - 1 \in Int
  BY <1>3, <1>6
<1> QED
  BY <1>1, <1>3, <1>4, <1>5, <1>6, <1>7 DEF AccountHolds

\* A token that an owner's work spends is charged to them at once; until a restart one that
\* is due is.
Spending(o) ==
  /\ spent' = [spent EXCEPT ![o] = @ + 1]
  /\ owed' \in {owed, [owed EXCEPT ![o][clock] = @ + 1]}
  /\ due' \in {due, [due EXCEPT ![o] = @ + 1]}
  /\ owed' = owed /\ due' # due => crashes # 0

Standing == <<ledger, landed, clock, crashes>>

LEMMA AccountSpends ==
  ASSUME Typed, BooksHold, NEW o \in Owners, Spending(o), UNCHANGED Standing
  PROVE  AccountHolds(o)' /\ owed' \in [Owners -> [Times -> Nat]]
<1>1. PICK used \in Nat : used = ledger[o].used
  BY DEF Typed
<1>2. PICK f \in [Times -> Nat], d \in Int, n \in Nat :
        f = owed[o] /\ d = due[o] /\ n = spent[o]
  BY DEF BooksHold
<1>3. /\ AccountHolds(o) /\ Counted(f)
      /\ used + Total(f, 0) <= n /\ (crashes = 0 => d <= used + Total(f, 0))
  BY <1>1, <1>2 DEF BooksHold, AccountHolds
<1>4. /\ clock \in Times /\ clock' = clock /\ ledger' = ledger /\ landed' = landed
      /\ crashes' = crashes /\ spent'[o] = n + 1 /\ due'[o] \in {d, d + 1}
      /\ owed' = owed /\ due'[o] # d => crashes # 0
  BY <1>2 DEF BooksHold, Spending, Standing
<1>5. Total(f, 0) \in Nat /\ f[clock] \in Nat /\ 0 <= clock /\ 0 \in Nat
  BY <1>3, <1>4, TotalIsNat, TimesAre
<1>6. CASE owed' = owed
  <2>1. /\ used + Total(f, 0) <= n + 1 /\ n + 1 \in Nat
        /\ crashes = 0 => due'[o] <= used + Total(f, 0)
        /\ due'[o] \in Int
    BY <1>3, <1>4, <1>5, <1>6
  <2> QED
    BY <1>1, <1>2, <1>3, <1>4, <1>6, <2>1 DEF AccountHolds, BooksHold
<1>7. CASE owed' = [owed EXCEPT ![o][clock] = @ + 1]
  <2>1. PICK k \in Nat : k = f[clock] + 1
    BY <1>5
  <2>2. owed' = [owed EXCEPT ![o][clock] = k] /\ owed \in [Owners -> [Times -> Nat]]
    BY <1>2, <1>7, <2>1 DEF BooksHold
  <2>3. /\ owed' \in [Owners -> [Times -> Nat]]
        /\ owed'[o] \in [Times -> Nat] /\ owed'[o][clock] = k
        /\ \A x \in Times \ {clock} : owed'[o][x] = owed[o][x]
    BY <1>4, <2>2, OneAt
  <2>4. PICK fx \in [Times -> Nat] :
          /\ fx = owed'[o] /\ fx[clock] = f[clock] + 1
          /\ \A x \in Times \ {clock} : fx[x] = f[x]
    BY <1>2, <2>1, <2>3
  <2>5. Counted(fx) /\ Total(fx, 0) = Total(f, 0) + 1
    <3>1. Counted(f) /\ clock \in Times
      BY <1>3, <1>4
    <3> QED
      BY <1>5, <2>4, <3>1, OneMoreToken
  <2>6. /\ used + Total(fx, 0) <= n + 1 /\ n + 1 \in Nat
        /\ crashes = 0 => due'[o] <= used + Total(fx, 0)
        /\ due'[o] \in Int
    BY <1>3, <1>4, <1>5, <2>5
  <2> QED
    BY <1>1, <1>3, <1>4, <2>3, <2>4, <2>5, <2>6 DEF AccountHolds
<1> QED
  BY <1>6, <1>7 DEF Spending

\* A restart loses what is on its way: nobody is charged for it.
LEMMA AccountRestarts ==
  ASSUME Typed, BooksHold, NEW o \in Owners, Crash
  PROVE  AccountHolds(o)' /\ owed' \in [Owners -> [Times -> Nat]] /\ crashes' \in Nat
<1>1. PICK used \in Nat : used = ledger[o].used
  BY DEF Typed
<1>2. /\ clock' = clock /\ ledger' = ledger /\ landed' = landed /\ spent' = spent
      /\ due' = due /\ crashes' = crashes + 1
      /\ owed' = [p \in Owners |-> [t \in Times |-> 0]]
  BY DEF Crash, bill
<1>3. PICK f \in [Times -> Nat] : f = [t \in Times |-> 0]
  OBVIOUS
<1>4. \A t \in 0..MaxTime : f[t] = 0
  BY <1>3 DEF Times
<1>5. Counted(f) /\ Total(f, 0) = 0
  BY <1>4, NoTokens DEF Counted
<1>6. AccountHolds(o) /\ used + Total(owed[o], 0) <= spent[o] /\ Total(owed[o], 0) \in Nat
  BY <1>1, TotalIsNat DEF BooksHold, AccountHolds
<1>7. owed'[o] = f /\ owed' \in [Owners -> [Times -> Nat]]
  BY <1>2, <1>3
<1>8. crashes' \in Nat /\ crashes' # 0
  BY <1>2 DEF BooksHold
<1>9. used + Total(f, 0) <= spent[o]
  BY <1>5, <1>6 DEF AccountHolds
<1> QED
  BY <1>1, <1>2, <1>5, <1>6, <1>7, <1>8, <1>9 DEF AccountHolds

-----------------------------------------------------------------------------
(* The books are kept                                                      *)

LEMMA BooksStay ==
  ASSUME Typed, BooksHold, UNCHANGED <<ledger, owed, landed, spent, due, crashes>>,
         clock' \in Times, clock <= clock'
  PROVE  BooksHold'
<1>1. clock \in Nat /\ clock' \in Nat
  BY TimesAre DEF BooksHold
<1>2. \A o \in Owners : ledger[o].start \in Nat
  BY DEF Typed
<1>3. \A o \in Owners : AccountHolds(o)'
  BY <1>1, <1>2, AccountStays DEF BooksHold
<1> QED
  BY <1>3 DEF BooksHold

LEMMA LandKeeps ==
  ASSUME Typed, BooksHold, NEW o \in Owners, NEW t \in Times, Land(o, t) \/ LandFails(o, t)
  PROVE  BooksHold'
<1>1. /\ AccountHolds(o)'
      /\ UNCHANGED <<clock, spent, crashes>>
  BY AccountLands, AccountFails DEF Land, LandFails, bill, bounds
<1>2. clock \in Times /\ clock \in Nat /\ owed[o][t] \in Nat /\ owed[o][t] > 0
  BY TimesAre DEF BooksHold, Land, LandFails
<1>3. PICK n \in Nat : n = owed[o][t] - 1
  BY <1>2
<1>4. owed' = [owed EXCEPT ![o][t] = n] /\ owed \in [Owners -> [Times -> Nat]]
  BY <1>3 DEF BooksHold, Land, LandFails
<1>5. /\ owed' \in [Owners -> [Times -> Nat]]
      /\ \A p \in Owners \ {o} : owed'[p] = owed[p]
  BY <1>4, OneAt
<1>6. /\ landed' \in [Owners -> [Times -> Nat]]
      /\ \A p \in Owners \ {o} : landed'[p] = landed[p]
  <2>1. CASE landed' = landed
    BY <2>1 DEF BooksHold
  <2>2. CASE landed' = [landed EXCEPT ![o][clock] = @ + 1]
    <3>1. landed[o][clock] \in Nat /\ landed \in [Owners -> [Times -> Nat]]
      BY <1>2 DEF BooksHold
    <3>2. PICK k \in Nat : k = landed[o][clock] + 1
      BY <3>1
    <3>3. landed' = [landed EXCEPT ![o][clock] = k]
      BY <2>2, <3>2
    <3> QED
      BY <1>2, <3>1, <3>3, OneAt
  <2> QED
    BY <2>1, <2>2 DEF Land, LandFails
<1>7. due' \in [Owners -> Int] /\ \A p \in Owners \ {o} : due'[p] = due[p]
  <2>1. due \in [Owners -> Int] /\ (due' = due \/ due' = [due EXCEPT ![o] = @ - 1])
    BY DEF BooksHold, Land, LandFails, bill
  <2> QED
    BY <2>1
<1>8. \A p \in Owners \ {o} : ledger'[p] = ledger[p] /\ ledger[p].start \in Nat
  BY DEF Typed, Land, LandFails
<1>9. \A p \in Owners \ {o} : AccountHolds(p)'
  BY <1>1, <1>2, <1>5, <1>6, <1>7, <1>8, AccountStays DEF BooksHold
<1> QED
  BY <1>1, <1>5, <1>6, <1>7, <1>9 DEF BooksHold

LEMMA SpendKeeps ==
  ASSUME Typed, BooksHold, NEW o \in Owners, Spending(o), UNCHANGED Standing
  PROVE  BooksHold'
<1>1. AccountHolds(o)' /\ owed' \in [Owners -> [Times -> Nat]]
  BY AccountSpends
<1>2. UNCHANGED <<clock, ledger, landed, crashes>> /\ clock \in Nat
  BY TimesAre DEF Standing, BooksHold
<1>3. spent' \in [Owners -> Nat] /\ \A p \in Owners \ {o} : spent'[p] = spent[p]
  BY DEF Spending, BooksHold
<1>4. due' \in [Owners -> Int] /\ \A p \in Owners \ {o} : due'[p] = due[p]
  <2>1. due \in [Owners -> Int] /\ (due' = due \/ due' = [due EXCEPT ![o] = @ + 1])
    BY DEF BooksHold, Spending
  <2> QED
    BY <2>1
<1>5. \A p \in Owners \ {o} : owed'[p] = owed[p] /\ ledger[p].start \in Nat
  BY DEF Spending, BooksHold, Typed
<1>6. \A p \in Owners \ {o} : AccountHolds(p)'
  BY <1>2, <1>3, <1>4, <1>5, AccountStays DEF BooksHold
<1> QED
  BY <1>1, <1>2, <1>3, <1>4, <1>6 DEF BooksHold

LEMMA CrashKeeps ==
  ASSUME Typed, BooksHold, Crash
  PROVE  BooksHold'
<1>1. \A o \in Owners :
        AccountHolds(o)' /\ owed' \in [Owners -> [Times -> Nat]] /\ crashes' \in Nat
  BY AccountRestarts
<1>2. Anon \in Owners
  BY AdmissionAssumption
<1>3. UNCHANGED <<clock, landed, spent, due>>
  BY DEF Crash, bill
<1> QED
  BY <1>1, <1>2, <1>3 DEF BooksHold

\* What a chat turn spends is charged to its caller.
LEMMA TurnSpends ==
  ASSUME Typed, BooksHold, NEW r \in Requests, RequestHolds(r), Reply(r) \/ Draft(r)
  PROVE  BooksHold'
<1>1. req[r].o \in Owners /\ UNCHANGED Standing
  BY DEF RequestHolds, Reply, Draft, Standing, bounds
<1>2. CASE UNCHANGED <<owed, bill>>
  <2>1. clock \in Times /\ clock <= clock
    BY TimesAre DEF BooksHold
  <2> QED
    BY <1>1, <1>2, <2>1, BooksStay DEF Standing, bill
<1>3. ASSUME NEW n \in 0..1, Billed(req[r].o, n)
      PROVE  Spending(req[r].o)
  <2>1. due[req[r].o] \in Int /\ due \in [Owners -> Int]
    BY <1>1 DEF BooksHold
  <2>2. CASE n = 0
    BY <1>3, <2>1, <2>2 DEF Billed, Spends, Spending
  <2>3. CASE n = 1
    <3>1. owed' = [owed EXCEPT ![req[r].o][clock] = @ + 1]
      BY <1>3, <2>3 DEF Billed, Charge
    <3>2. owed' # owed
      <4>1. owed \in [Owners -> [Times -> Nat]] /\ clock \in Times
        BY DEF BooksHold
      <4>2. PICK k \in Nat : k = owed[req[r].o][clock] /\ k + 1 # k
        BY <1>1, <4>1
      <4>3. owed' = [owed EXCEPT ![req[r].o][clock] = k + 1] /\ k + 1 \in Nat
        BY <3>1, <4>2
      <4>4. owed'[req[r].o][clock] = k + 1
        BY <1>1, <4>1, <4>3, OneAt
      <4> QED
        BY <4>2, <4>4
    <3> QED
      BY <1>3, <2>3, <3>1, <3>2 DEF Billed, Spends, Spending
  <2> QED
    BY <2>2, <2>3
<1>4. 0 \in 0..1 /\ 1 \in 0..1
  OBVIOUS
<1> QED
  BY <1>1, <1>2, <1>3, <1>4, SpendKeeps DEF Reply, Draft

\* What an agent reports is charged to the owner of its session, who the tap has while the
\* session's work is to be charged.
LEMMA AgentSpends ==
  ASSUME Typed, Accounts, NEW s \in Sessions, AgentEnds(s)
  PROVE  BooksHold'
<1>1. /\ session[s].owner \in Owners /\ session[s].status # "none" /\ UNCHANGED Standing
      /\ session[s].status # "ended" /\ s \notin broken => crashes # 0 \/ s \in tapped
      /\ BooksHold
  BY DEF Accounts, TapHolds, AgentEnds, Standing, bounds
<1>2. CASE UNCHANGED <<owed, bill>>
  <2>1. clock \in Times /\ clock <= clock
    BY <1>1, TimesAre DEF BooksHold
  <2> QED
    BY <1>1, <1>2, <2>1, BooksStay DEF Standing, bill
<1>3. CASE ~UNCHANGED <<owed, bill>>
  <2>1. PICK o \in Owners : o = session[s].owner
    BY <1>1
  <2>2. /\ spent' = [spent EXCEPT ![o] = @ + 1]
        /\ due' = IF session[s].status # "ended" /\ s \notin broken
                  THEN [due EXCEPT ![o] = @ + 1] ELSE due
        /\ IF s \in tapped THEN owed' = [owed EXCEPT ![o][clock] = @ + 1] ELSE owed' = owed
    BY <1>3, <2>1 DEF AgentEnds, Metered, Spends, Charge
  <2>3. owed' = owed => s \notin tapped
    <3>1. owed \in [Owners -> [Times -> Nat]] /\ clock \in Times
      BY <1>1 DEF BooksHold
    <3>2. PICK k \in Nat : k = owed[o][clock] /\ k + 1 # k
      BY <3>1
    <3>3. ASSUME s \in tapped PROVE owed'[o][clock] = k + 1
      <4>1. owed' = [owed EXCEPT ![o][clock] = k + 1] /\ k + 1 \in Nat
        BY <2>2, <3>2, <3>3
      <4> QED
        BY <3>1, <4>1, OneAt
    <3> QED
      BY <3>2, <3>3
  <2>4. owed' = owed /\ due' # due => crashes # 0
    BY <1>1, <2>2, <2>3
  <2>5. Spending(o)
    BY <2>2, <2>4 DEF Spending
  <2> QED
    BY <1>1, <2>5, SpendKeeps
<1> QED
  BY <1>2, <1>3

LEMMA BooksKept ==
  ASSUME Admits, Accounts, Step
  PROVE  BooksHold'
<1>1. /\ Typed /\ BooksHold /\ clock \in Times /\ clock \in Nat
      /\ \A r \in Requests : RequestHolds(r)
  BY TimesAre DEF Admits, Accounts, BooksHold
<1>2. ASSUME UNCHANGED <<clock, store, bill, crashes>>
      PROVE  BooksHold'
  BY <1>1, <1>2, BooksStay DEF store, bill
<1>3. ASSUME NEW r \in Requests,
             \/ Ask(r) \/ Policy(r) \/ Quota(r) \/ Count(r) \/ Fail(r)
             \/ Create(r) \/ Seed(r) \/ Open(r)
      PROVE  UNCHANGED <<clock, store, bill, crashes>>
  BY <1>3 DEF Ask, Policy, Quota, Count, Fail, Create, Seed, Open, bounds
<1>4. ASSUME NEW r \in Requests, Reply(r) \/ Draft(r)
      PROVE  BooksHold'
  BY <1>1, <1>4, TurnSpends
<1>5. ASSUME NEW s \in Sessions, CallAgent(s) \/ End(s) \/ Resolve(s)
      PROVE  UNCHANGED <<clock, store, bill, crashes>>
  BY <1>5 DEF CallAgent, End, Resolve, bounds
<1>6. ASSUME NEW s \in Sessions, AgentEnds(s)
      PROVE  BooksHold'
  BY <1>1, <1>6, AgentSpends
<1>7. ASSUME NEW o \in Owners, Subscription(o)
      PROVE  UNCHANGED <<clock, store, bill, crashes>>
  BY <1>7 DEF Subscription
<1>8. ASSUME NEW o \in Owners, NEW t \in Times, Land(o, t) \/ LandFails(o, t)
      PROVE  BooksHold'
  BY <1>1, <1>8, LandKeeps
<1>9. CASE Tick
  <2>1. clock' \in Times /\ clock <= clock' /\ UNCHANGED <<store, bill, crashes>>
    BY <1>1, <1>9, TimesAre DEF Tick, Times, bounds
  <2> QED
    BY <1>1, <2>1, BooksStay DEF store, bill
<1>10. CASE Crash
  BY <1>1, <1>10, CrashKeeps
<1> QED
  BY <1>2, <1>3, <1>4, <1>5, <1>6, <1>7, <1>8, <1>9, <1>10 DEF Step

\* What the tap knows of a session that keeps its owner and neither begins nor is pruned.
LEMMA TapStays ==
  ASSUME NEW s \in Sessions, TapHolds(s), crashes' = crashes,
         session'[s].agent = "out" => session'[s].status # "none",
         session'[s].status # "none" =>
           session[s].status # "none" /\ session'[s].owner = session[s].owner,
         session'[s].status \notin {"none", "ended"} => session[s].status # "ended",
         session'[s].status \notin {"none", "ended"} /\ s \notin broken' =>
           s \notin broken /\ (s \in tapped => s \in tapped')
  PROVE  TapHolds(s)'
BY DEF TapHolds

LEMMA SessionTapHolds ==
  ASSUME Typed, NEW s \in Sessions, TapHolds(s), crashes' = crashes,
         CallAgent(s) \/ AgentEnds(s) \/ End(s) \/ Resolve(s)
  PROVE  TapHolds(s)'
<1>1. session \in [Sessions -> Runs] /\ session[s] \in Runs
  BY DEF Typed
<1>2. CASE CallAgent(s)
  <2>1. /\ session'[s].status = session[s].status /\ session'[s].owner = session[s].owner
        /\ session[s].status \in {"building", "parked"} /\ UNCHANGED <<tapped, broken>>
    BY <1>1, <1>2 DEF CallAgent, Runs
  <2> QED
    BY <2>1, TapStays
<1>3. CASE AgentEnds(s)
  <2>1. PICK next \in NextStatuses(session[s].status) \cup {session[s].status} :
          /\ Becomes(s, next)
          /\ UNCHANGED <<tapped, broken>> \/ s \in broken'
    BY <1>3 DEF AgentEnds
  <2>2. session[s].status # "none"
    BY <1>3 DEF AgentEnds, TapHolds
  <2>3. /\ next \in Statuses /\ next # "none" /\ (next # "ended" => session[s].status # "ended")
    BY <1>1, <2>2 DEF NextStatuses, Runs, Statuses
  <2>4. PICK x \in Runs : /\ IsRun(s, x) /\ x.status = next /\ x.agent = "none"
                          /\ x.owner = session[s].owner
    BY <2>1, <2>3, BecomesRun
  <2>5. session'[s] = x
    BY <1>1, <2>4 DEF IsRun
  <2> QED
    BY <2>1, <2>2, <2>3, <2>4, <2>5, TapStays
<1>4. ASSUME session' = [session EXCEPT ![s].status = "ended"], session[s].status # "none"
      PROVE  TapHolds(s)'
  <2>1. session'[s].status = "ended" /\ session'[s].owner = session[s].owner
    BY <1>1, <1>4 DEF Runs
  <2> QED
    BY <1>4, <2>1 DEF TapHolds
<1>5. CASE End(s)
  BY <1>4, <1>5 DEF End
<1>6. CASE Resolve(s)
  <2>1. CASE session[s].status = "spec_resolution" /\ Becomes(s, "awaiting_spec_approval")
    <3>1. "awaiting_spec_approval" \in Statuses
      BY DEF Statuses
    <3>2. PICK x \in Runs : /\ IsRun(s, x) /\ x.status = "awaiting_spec_approval"
                            /\ x.agent = "none" /\ x.owner = session[s].owner
      BY <2>1, <3>1, BecomesRun
    <3>3. session'[s] = x
      BY <1>1, <3>2 DEF IsRun
    <3>4. UNCHANGED <<tapped, broken>>
      BY <1>6 DEF Resolve
    <3> QED
      BY <2>1, <3>2, <3>3, <3>4, TapStays
  <2>2. CASE session' = [session EXCEPT ![s].status = "ended"]
    BY <1>4, <1>6, <2>2 DEF Resolve
  <2> QED
    BY <1>6, <2>1, <2>2 DEF Resolve
<1> QED
  BY <1>2, <1>3, <1>5, <1>6

\* The sessions a step is not about.
LEMMA OthersStay ==
  ASSUME NEW s \in Sessions, TapHolds(s), crashes' = crashes, session'[s] = session[s],
         s \in broken <=> s \in broken', s \in tapped => s \in tapped'
  PROVE  TapHolds(s)'
BY DEF TapHolds

LEMMA TapKept ==
  ASSUME Admits, Accounts, Step
  PROVE  \A s \in Sessions : TapHolds(s)'
<1>1. /\ Typed /\ crashes \in Nat /\ \A r \in Requests : RequestHolds(r)
      /\ \A s \in Sessions : TapHolds(s)
      /\ session \in [Sessions -> Runs]
  BY DEF Admits, Accounts, BooksHold, Typed
<1>2. ASSUME UNCHANGED <<session, tapped, broken, crashes>>
      PROVE  \A s \in Sessions : TapHolds(s)'
  BY <1>1, <1>2, OthersStay
<1>3. ASSUME NEW r \in Requests,
             \/ Ask(r) \/ Policy(r) \/ Quota(r) \/ Count(r) \/ Fail(r) \/ Reply(r) \/ Draft(r)
      PROVE  UNCHANGED <<session, tapped, broken, crashes>>
  BY <1>3 DEF Ask, Policy, Quota, Count, Fail, Reply, Draft, work, bounds
<1>4. ASSUME NEW s \in Sessions, CallAgent(s) \/ AgentEnds(s) \/ End(s) \/ Resolve(s)
      PROVE  \A p \in Sessions : TapHolds(p)'
  <2>1. crashes' = crashes
    BY <1>4 DEF CallAgent, AgentEnds, End, Resolve, bounds
  <2>2. TapHolds(s)'
    BY <1>1, <1>4, <2>1, SessionTapHolds
  <2>3. \A p \in Sessions \ {s} : session'[p] = session[p]
    <3>1. PICK x \in Runs : IsRun(s, x)
      BY <1>1, <1>4, SessionLives
    <3> QED
      BY <1>1, <3>1 DEF IsRun
  <2>4. \A p \in Sessions \ {s} : (p \in broken <=> p \in broken') /\ (p \in tapped => p \in tapped')
    BY <1>4 DEF CallAgent, AgentEnds, End, Resolve
  <2> QED
    BY <1>1, <2>1, <2>2, <2>3, <2>4, OthersStay
<1>5. ASSUME NEW r \in Requests, Create(r)
      PROVE  \A p \in Sessions : TapHolds(p)'
  <2>1. PICK s \in Sessions, seeded \in BOOLEAN :
          /\ session[s] = NoSession
          /\ session' = [session EXCEPT ![s] =
               [status |-> "composing", owner |-> req[r].o,
                agent |-> IF seeded THEN "none" ELSE "out"]]
          /\ tapped' = tapped \cup {s}
    BY <1>5 DEF Create
  <2>2. req[r].o \in Owners /\ UNCHANGED <<broken, crashes>>
    BY <1>1, <1>5 DEF Create, RequestHolds, bounds
  <2>3. /\ session'[s].status = "composing" /\ session'[s].owner = req[r].o
        /\ \A p \in Sessions \ {s} : session'[p] = session[p]
    BY <1>1, <2>1
  <2>4. TapHolds(s)'
    BY <2>1, <2>2, <2>3 DEF TapHolds
  <2> QED
    BY <1>1, <2>1, <2>2, <2>3, <2>4, OthersStay
<1>6. ASSUME NEW r \in Requests, Seed(r) \/ Open(r)
      PROVE  \A p \in Sessions : TapHolds(p)'
  <2>1. PICK s \in Sessions : s = req[r].s
    BY <1>1, <1>6 DEF Seed, Open, RequestHolds
  <2>2. PICK x \in Runs : /\ IsRun(s, x) /\ x.status \in {"awaiting_spec_approval", "building"}
                          /\ x.agent = "none" /\ x.owner = session[s].owner
    <3>1. "awaiting_spec_approval" \in Statuses /\ "building" \in Statuses
      BY DEF Statuses
    <3> QED
      BY <1>1, <1>6, <2>1, <3>1, BecomesRun DEF Seed, Open
  <2>3. session'[s] = x /\ \A p \in Sessions \ {s} : session'[p] = session[p]
    BY <1>1, <2>2 DEF IsRun
  <2>4. /\ session[s].status \in {"composing", "awaiting_spec_approval"}
        /\ UNCHANGED <<tapped, broken, crashes>>
    BY <1>6, <2>1 DEF Seed, Open, bounds
  <2>5. TapHolds(s)'
    BY <1>1, <2>2, <2>3, <2>4, TapStays
  <2> QED
    BY <1>1, <2>3, <2>4, <2>5, OthersStay
<1>7. ASSUME NEW o \in Owners, Subscription(o) \/ \E t \in Times : Land(o, t) \/ LandFails(o, t)
      PROVE  UNCHANGED <<session, tapped, broken, crashes>>
  BY <1>7 DEF Subscription, Land, LandFails, work, bounds
<1>8. CASE Tick
  BY <1>2, <1>8 DEF Tick, work, bounds
<1>9. CASE Crash
  <2>1. /\ crashes' # 0
        /\ \A s \in Sessions : /\ session'[s].owner = session[s].owner
                               /\ session'[s].status = session[s].status
                               /\ session'[s].agent = "none"
    BY <1>1, <1>9, CrashMoves DEF Crash
  <2> QED
    BY <1>1, <2>1 DEF TapHolds
<1> QED
  BY <1>2, <1>3, <1>4, <1>5, <1>6, <1>7, <1>8, <1>9 DEF Step

-----------------------------------------------------------------------------
(* The accounts, and what they imply                                       *)

LEMMA AccountsInit == Init => Accounts
<1> SUFFICES ASSUME Init PROVE Accounts
  OBVIOUS
<1>1. /\ clock = 0 /\ crashes = 0
      /\ owed = [o \in Owners |-> [t \in Times |-> 0]]
      /\ landed = [o \in Owners |-> [t \in Times |-> 0]]
      /\ spent = [o \in Owners |-> 0] /\ due = [o \in Owners |-> 0]
      /\ \A o \in Owners : ledger[o] = [used |-> 0, period |-> 0, start |-> 0]
      /\ \A s \in Sessions : session[s] = NoSession
  BY DEF Init
<1>2. PICK f \in [Times -> Nat] : f = [t \in Times |-> 0]
  OBVIOUS
<1>3. \A t \in 0..MaxTime : f[t] = 0
  BY <1>2 DEF Times
<1>4. Counted(f) /\ Total(f, 0) = 0
  BY <1>3, NoTokens DEF Counted
<1>5. \A o \in Owners : owed[o] = f /\ landed[o] = f
  BY <1>1, <1>2
<1>6. \A t \in Times : f[t] = 0
  BY <1>2
<1>7. \A o \in Owners : AccountHolds(o)
  BY <1>1, <1>4, <1>5, <1>6 DEF AccountHolds
<1>8. BooksHold
  BY <1>1, <1>7, TimesAre DEF BooksHold
<1>9. \A s \in Sessions : TapHolds(s)
  BY <1>1 DEF TapHolds, NoSession
<1> QED
  BY <1>8, <1>9 DEF Accounts

LEMMA AccountsStutter ==
  ASSUME Admits, Accounts, UNCHANGED vars
  PROVE  Accounts'
<1>1. UNCHANGED <<clock, ledger, owed, landed, session, tapped, broken, spent, due, crashes>>
  BY DEF vars, store, work, bill, bounds
<1>2. Typed /\ BooksHold /\ clock \in Times /\ clock <= clock
  BY TimesAre DEF Admits, Accounts, BooksHold
<1>3. BooksHold'
  BY <1>1, <1>2, BooksStay
<1>4. \A s \in Sessions : TapHolds(s)'
  BY <1>1, OthersStay DEF Accounts
<1> QED
  BY <1>3, <1>4 DEF Accounts

LEMMA AccountsInvariant == Spec => []Accounts
<1>1. Admits /\ Accounts /\ [Next]_vars => Accounts'
  BY BooksKept, TapKept, AccountsStutter DEF Accounts, Next
<1> QED
  BY <1>1, AccountsInit, AdmitsInvariant, PTL DEF Spec

\* An owner's row and window say what was charged, nobody is charged for what they did not
\* spend, and until a restart or a failure nothing that is due goes uncharged.
THEOREM LedgerIsKept == Spec => []LedgerIsHonest
<1>1. Typed /\ Accounts => LedgerIsHonest
  <2> SUFFICES ASSUME Typed, Accounts, NEW o \in Owners
               PROVE  LET l == ledger[o]
                          charged == l.used + Total(owed[o], 0)
                      IN
                      /\ l.used = Total(landed[o], 0)
                      /\ l.used > 0 => /\ Total(landed[o], l.start + 1) <= l.period
                                       /\ l.period <= Total(landed[o], l.start)
                      /\ charged <= spent[o]
                      /\ crashes = 0 => charged >= due[o]
    BY DEF LedgerIsHonest
  <2>1. PICK used \in Nat, n \in Nat, d \in Int :
          used = ledger[o].used /\ n = Total(owed[o], 0) /\ d = due[o]
    BY TotalIsNat DEF Typed, Accounts, BooksHold, AccountHolds
  <2>2. crashes = 0 => d <= used + n
    BY <2>1 DEF Accounts, BooksHold, AccountHolds
  <2> QED
    BY <2>1, <2>2 DEF Accounts, BooksHold, AccountHolds
<1> QED
  BY <1>1, AdmitsInvariant, AccountsInvariant, PTL DEF Admits

=============================================================================
