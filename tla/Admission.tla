----------------------------- MODULE Admission -----------------------------
(***************************************************************************)
(* Who may start work, and what it is charged: the token quota and its     *)
(* ledger (backend/src/usage), the cap on active runs, the chat turns      *)
(* (backend/src/api/chat.routes.ts), the starts and approvals of builds,   *)
(* and the tap on the event bus that charges what a build's agents spend.  *)
(*                                                                         *)
(* A check only refuses: it is made once, before the work, by a request    *)
(* that awaits a store in between, and the work is charged when it ends.   *)
(* A model call spends one token, or none that its provider reports.  The  *)
(* request-rate limiter in front of the checks keeps no state of theirs.   *)
(***************************************************************************)
EXTENDS Naturals, FiniteSets, Functions

CONSTANTS
  Owners,     \* those who have a ledger row
  Anon,       \* the row that anonymous work shares (ANON_OWNER)
  Sessions,   \* bound: sessions begun
  Requests,   \* requests the server may handle at once
  None,
  Budget,     \* tokens of a free account per window; a pro account has no limit
  Period,     \* the length of a window
  MaxActive,  \* active runs per owner (AKIS_MAX_ACTIVE_RUNS)
  MaxTime,    \* bound: the clock
  MaxAsks,    \* bound: requests made
  MaxCalls,   \* bound: tokens spent
  MaxEvents,  \* bound: events from Stripe
  MaxCrashes  \* bound: restarts of the server

ASSUME AdmissionAssumption ==
  /\ Anon \in Owners /\ None \notin Owners \cup Sessions
  /\ IsFiniteSet(Sessions) /\ IsFiniteSet(Requests)
  /\ {Budget, Period, MaxActive} \subseteq Nat \ {0}
  /\ {MaxTime, MaxAsks, MaxCalls, MaxEvents, MaxCrashes} \subseteq Nat

Times == 0..MaxTime

VARIABLES
  clock,
  pro,       \* the accounts of the pro tier
  ledger,    \* user_usage: each owner's tokens, ever and in the window, and its start
  owed,      \* charges on their way to the ledger, by owner and the time they were made
  session,   \* each session: its owner, its status and what its pipeline awaits
  tapped,    \* the sessions UsageCollector maps to their owner
  req,       \* each request: its step and its locals
  landed,    \* history: tokens charged, by owner and time
  spent,     \* history: tokens each owner's work spent
  due,       \* history: those of them the code means to charge
  broken,    \* history: sessions whose Critic failed
  overlap,   \* history: an owner's requests past the cap's check at once, at most
  dry,       \* history: owners out of tokens and work since
  asks, events, crashes

store == <<ledger, owed, landed>>
work == <<session, tapped, broken>>
bill == <<spent, due>>
bounds == <<asks, events, crashes>>
watched == <<overlap, dry>>
vars == <<clock, pro, store, work, req, bill, watched, bounds>>

Idle == [pc |-> "idle", op |-> "none", o |-> None, s |-> None, pro |-> FALSE]
NoSession == [status |-> "none", owner |-> None, agent |-> "none"]

Init ==
  /\ clock = 0 /\ pro = {}
  /\ ledger = [o \in Owners |-> [used |-> 0, period |-> 0, start |-> 0]]
  /\ owed = [o \in Owners |-> [t \in Times |-> 0]]
  /\ landed = [o \in Owners |-> [t \in Times |-> 0]]
  /\ session = [s \in Sessions |-> NoSession] /\ tapped = {} /\ broken = {}
  /\ req = [r \in Requests |-> Idle]
  /\ spent = [o \in Owners |-> 0] /\ due = [o \in Owners |-> 0]
  /\ overlap = [o \in Owners |-> 0] /\ dry = [o \in Owners |-> FALSE]
  /\ asks = 0 /\ events = 0 /\ crashes = 0

-----------------------------------------------------------------------------
(* The ledger                                                              *)

\* A window that began at or before the cutoff is over.
Expired(o, t) == ledger[o].start + Period <= t

\* get(): the tokens of the window as of now; a row that is over reads as empty.
PeriodTokens(o) == IF Expired(o, clock) THEN 0 ELSE ledger[o].period

\* add(): the charge is sent, with the cutoff of this moment.
Charge(o, n) == owed' = [owed EXCEPT ![o][clock] = @ + n]

\* The charge lands: an owner's first one makes the row, and one past the window opens
\* the next.
Land(o, t) ==
  /\ owed[o][t] > 0
  /\ owed' = [owed EXCEPT ![o][t] = @ - 1]
  /\ LET opens == ledger[o].used = 0 \/ Expired(o, t) IN
     ledger' = [ledger EXCEPT ![o] =
       [used |-> @.used + 1, period |-> IF opens THEN 1 ELSE @.period + 1,
        start |-> IF opens THEN clock ELSE @.start]]
  /\ landed' = [landed EXCEPT ![o][clock] = @ + 1]
  /\ UNCHANGED <<clock, pro, work, req, bill, bounds>>

\* The store fails, and the error is swallowed.
LandFails(o, t) ==
  /\ owed[o][t] > 0
  /\ owed' = [owed EXCEPT ![o][t] = @ - 1]
  /\ due' = [due EXCEPT ![o] = @ - 1]
  /\ UNCHANGED <<clock, pro, ledger, landed, work, req, spent, bounds>>

-----------------------------------------------------------------------------
(* The checks in front of the work                                         *)

Answer(r) == req' = [req EXCEPT ![r] = Idle]
Goto(r, pc) == req' = [req EXCEPT ![r].pc = pc]

\* POST /sessions, POST /api/chat and its stream, POST /sessions/:id/approve.
Ask(r) ==
  /\ req[r].pc = "idle" /\ asks < MaxAsks
  /\ asks' = asks + 1
  /\ \E o \in Owners :
       \/ \E op \in {"start", "chat"} :
            req' = [req EXCEPT ![r] = [Idle EXCEPT !.pc = "policy", !.op = op, !.o = o]]
       \/ \E s \in Sessions :
            /\ session[s].owner \in {o, Anon}
            /\ req' = [req EXCEPT ![r] =
                 [Idle EXCEPT !.pc = "count", !.op = "approve", !.o = o, !.s = s]]
  /\ UNCHANGED <<clock, pro, store, work, bill, events, crashes>>

\* quotaFor reads the tier.
Policy(r) ==
  /\ req[r].pc = "policy"
  /\ req' = [req EXCEPT ![r].pc = "quota", ![r].pro = req[r].o \in pro]
  /\ UNCHANGED <<clock, pro, store, work, bill, bounds>>

\* Mutant: a chat turn goes on to its model call unchecked.
QuotaOfBuilds(r) ==
  /\ req[r].pc = "quota"
  /\ IF req[r].pro \/ PeriodTokens(req[r].o) < Budget \/ req[r].op = "chat"
     THEN Goto(r, IF req[r].op = "chat" THEN "call" ELSE "count")
     ELSE Answer(r)
  /\ UNCHANGED <<clock, pro, store, work, bill, bounds>>

\* checkQuota reads the ledger.
Quota(r) ==
  /\ req[r].pc = "quota"
  /\ IF req[r].pro \/ PeriodTokens(req[r].o) < Budget
     THEN Goto(r, IF req[r].op = "chat" THEN "call" ELSE "count")
     ELSE Answer(r)
  /\ UNCHANGED <<clock, pro, store, work, bill, bounds>>

Active(o) ==
  {s \in Sessions : session[s].owner = o /\ session[s].status \in {"composing", "building"}}

\* Mutant: only the sessions that build are counted.
CountBuilding(r) ==
  /\ req[r].pc = "count"
  /\ IF \/ req[r].o = Anon
        \/ Cardinality({s \in Active(req[r].o) : session[s].status = "building"}) < MaxActive
     THEN Goto(r, IF req[r].op = "approve" THEN "open" ELSE "create")
     ELSE Answer(r)
  /\ UNCHANGED <<clock, pro, store, work, bill, bounds>>

\* checkConcurrency counts the caller's active runs; anonymous callers are exempt.
Count(r) ==
  /\ req[r].pc = "count"
  /\ IF req[r].o = Anon \/ Cardinality(Active(req[r].o)) < MaxActive
     THEN Goto(r, IF req[r].op = "approve" THEN "open" ELSE "create")
     ELSE Answer(r)
  /\ UNCHANGED <<clock, pro, store, work, bill, bounds>>

\* An error on the way: no key, a store that throws, a version conflict, a provider that
\* fails.
Fail(r) ==
  /\ req[r].pc # "idle"
  /\ Answer(r)
  /\ UNCHANGED <<clock, pro, store, work, bill, bounds>>

-----------------------------------------------------------------------------
(* Builds                                                                  *)

Becomes(s, status) == session' = [session EXCEPT ![s].status = status, ![s].agent = "none"]

\* Mutant: anonymous work is mapped to nobody.
CreateOwned(r) ==
  /\ req[r].pc = "create"
  /\ \E s \in Sessions, seeded \in BOOLEAN :
       /\ session[s] = NoSession
       /\ session' = [session EXCEPT ![s] =
            [status |-> "composing", owner |-> req[r].o,
             agent |-> IF seeded THEN "none" ELSE "out"]]
       /\ tapped' = IF req[r].o = Anon THEN tapped ELSE tapped \cup {s}
       /\ req' = [req EXCEPT ![r] = IF seeded THEN [@ EXCEPT !.pc = "seed", !.s = s] ELSE Idle]
  /\ UNCHANGED <<clock, pro, store, broken, bill, bounds>>

\* start(): the row is created, and `session started` heard by the tap.  Without a spec
\* from the chat, Scribe is called.
Create(r) ==
  /\ req[r].pc = "create"
  /\ \E s \in Sessions, seeded \in BOOLEAN :
       /\ session[s] = NoSession
       /\ session' = [session EXCEPT ![s] =
            [status |-> "composing", owner |-> req[r].o,
             agent |-> IF seeded THEN "none" ELSE "out"]]
       /\ tapped' = tapped \cup {s}
       /\ req' = [req EXCEPT ![r] = IF seeded THEN [@ EXCEPT !.pc = "seed", !.s = s] ELSE Idle]
  /\ UNCHANGED <<clock, pro, store, broken, bill, bounds>>

\* A seeded start passes through the approval's status, which the cap does not count.
Seed(r) ==
  /\ req[r].pc = "seed" /\ session[req[r].s].status = "composing"
  /\ Becomes(req[r].s, "awaiting_spec_approval")
  /\ Goto(r, "open")
  /\ UNCHANGED <<clock, pro, store, tapped, broken, bill, bounds>>

\* mintSpecApproval: an approved session builds.
Open(r) ==
  /\ req[r].pc = "open" /\ session[req[r].s].status = "awaiting_spec_approval"
  /\ Becomes(req[r].s, "building")
  /\ Answer(r)
  /\ UNCHANGED <<clock, pro, store, tapped, broken, bill, bounds>>

\* Proto or Trace is called by a run, or Trace by a recovery.
CallAgent(s) ==
  /\ session[s].status \in {"building", "parked"}
  /\ session[s].agent = "none"
  /\ session' = [session EXCEPT ![s].agent = "out"]
  /\ UNCHANGED <<clock, pro, store, tapped, broken, req, bill, bounds>>

Spends(o) == SumFunction(spent) < MaxCalls /\ spent' = [spent EXCEPT ![o] = @ + 1]

\* Where the pipeline goes when the agent of a status is done and the Critic has looked at
\* its work: it waits for a human or builds on.  `spec_resolution` is
\* awaiting_critic_resolution before the approval; `parked` stands for it after the
\* approval and for verify_failed, awaiting_push_confirm and push_failed.
NextStatuses(status) ==
  CASE status = "composing" -> {"composing", "awaiting_spec_approval", "spec_resolution"}
    [] status = "building"  -> {"building", "parked"}
    [] OTHER -> {status}

\* What the agent of s reports to have spent is charged to whom the tap has s for.
Metered(s) ==
  LET o == session[s].owner IN
  \/ UNCHANGED <<owed, bill>>
  \/ /\ Spends(o)
     /\ due' = IF session[s].status # "ended" /\ s \notin broken
               THEN [due EXCEPT ![o] = @ + 1] ELSE due
     /\ IF s \in tapped THEN Charge(o, 1) ELSE UNCHANGED owed

\* Mutant: a build that waits for its human is taken for over.
AgentPruning(s) ==
  /\ session[s].agent = "out" /\ Metered(s)
  /\ \E next \in NextStatuses(session[s].status) :
       /\ Becomes(s, next)
       /\ tapped' = IF next = "parked" THEN tapped \ {s} ELSE tapped
       /\ UNCHANGED broken
  /\ UNCHANGED <<clock, pro, ledger, landed, req, bounds>>

\* agent_end, and what follows.  When the Critic fails, `session failed` is heard and the
\* row keeps its status.
AgentEnds(s) ==
  /\ session[s].agent = "out" /\ Metered(s)
  /\ \/ /\ \E next \in NextStatuses(session[s].status) : Becomes(s, next)
        /\ UNCHANGED <<tapped, broken>>
     \/ /\ session[s].status \in {"composing", "building"}
        /\ Becomes(s, session[s].status)
        /\ tapped' = tapped \ {s} /\ broken' = broken \cup {s}
  /\ UNCHANGED <<clock, pro, ledger, landed, req, bounds>>

\* A session ends, done, failed or cancelled, and its end is heard: a push is confirmed,
\* the kicked run fails, or a user cancels.  An agent that is out goes on.
End(s) ==
  /\ session[s].status \notin {"none", "ended"}
  /\ session' = [session EXCEPT ![s].status = "ended"]
  /\ tapped' = tapped \ {s}
  /\ UNCHANGED <<clock, pro, store, broken, req, bill, bounds>>

\* resolveCritic: the spec goes to its human after all; or the session is abandoned,
\* which no signal tells.
Resolve(s) ==
  /\ session[s].status \in {"spec_resolution", "parked"}
  /\ \/ session[s].status = "spec_resolution" /\ Becomes(s, "awaiting_spec_approval")
     \/ session' = [session EXCEPT ![s].status = "ended"]
  /\ UNCHANGED <<clock, pro, store, tapped, broken, req, bill, bounds>>

-----------------------------------------------------------------------------
(* Chat turns                                                              *)

Billed(o, n) ==
  /\ Spends(o)
  /\ due' = [due EXCEPT ![o] = @ + n]
  /\ IF n = 0 THEN UNCHANGED owed ELSE Charge(o, n)

\* The persona answers and is charged, heard or not; it may hand over to Scribe.
Reply(r) ==
  /\ req[r].pc = "call"
  /\ Billed(req[r].o, 1) \/ UNCHANGED <<owed, bill>>
  /\ Answer(r) \/ Goto(r, "scribe")
  /\ UNCHANGED <<clock, pro, ledger, landed, work, bounds>>

\* Scribe's draft is charged, unless it does not parse: then the turn throws before.
Draft(r) ==
  /\ req[r].pc = "scribe"
  /\ (\E n \in 0..1 : Billed(req[r].o, n)) \/ UNCHANGED <<owed, bill>>
  /\ Answer(r)
  /\ UNCHANGED <<clock, pro, ledger, landed, work, bounds>>

-----------------------------------------------------------------------------
(* The rest of the world                                                   *)

\* applyStripeEvent: a subscription begins or ends.  An event that leaves the tier changes
\* nothing.
Subscription(o) ==
  /\ o # Anon /\ events < MaxEvents
  /\ events' = events + 1
  /\ pro' \in {pro \cup {o}, pro \ {o}} \ {pro}
  /\ UNCHANGED <<clock, store, work, req, bill, asks, crashes>>

Tick ==
  /\ clock < MaxTime /\ clock' = clock + 1
  /\ UNCHANGED <<pro, store, work, req, bill, bounds>>

\* A restart forgets the requests, the agents, the tap and the charges on their way.
Crash ==
  /\ crashes < MaxCrashes /\ crashes' = crashes + 1
  /\ req' = [r \in Requests |-> Idle] /\ tapped' = {}
  /\ session' = [s \in Sessions |-> [session[s] EXCEPT !.agent = "none"]]
  /\ owed' = [o \in Owners |-> [t \in Times |-> 0]]
  /\ UNCHANGED <<clock, pro, ledger, landed, broken, bill, asks, events>>

-----------------------------------------------------------------------------
(* What the properties remember                                            *)

\* The requests of an owner that the cap has let through and that still start a run.
Admitted(o) == {r \in Requests : req[r].o = o /\ req[r].pc \in {"create", "seed", "open"}}

Exhausted(o) == o \notin pro /\ PeriodTokens(o) >= Budget

\* No work of the owner is under way, and no request holds a policy or a check of it.
Quiet(o) ==
  /\ \A r \in Requests :
       req[r].o = o => req[r].pc \in {"idle", "policy"} \/ req[r].op = "approve"
  /\ \A s \in Sessions :
       session[s].owner = o =>
         session[s].status = "ended" /\ session[s].agent # "out"

Watch ==
  /\ overlap' = [o \in Owners |->
       LET n == Cardinality(Admitted(o)') IN IF n > overlap[o] THEN n ELSE overlap[o]]
  /\ dry' = [o \in Owners |-> Exhausted(o)' /\ (dry[o] \/ Quiet(o)')]

Step ==
  \/ \E r \in Requests :
       \/ Ask(r) \/ Policy(r) \/ Quota(r) \/ Count(r) \/ Fail(r)
       \/ Create(r) \/ Seed(r) \/ Open(r) \/ Reply(r) \/ Draft(r)
  \/ \E s \in Sessions :
       CallAgent(s) \/ AgentEnds(s) \/ End(s) \/ Resolve(s)
  \/ \E o \in Owners : Subscription(o) \/ \E t \in Times : Land(o, t) \/ LandFails(o, t)
  \/ Tick \/ Crash

Next == Step /\ Watch

Spec == Init /\ [][Next]_vars

-----------------------------------------------------------------------------
(* Properties                                                              *)

\* The tokens of a history from some time on, each told apart, and how many they are.
Tokens(f, from) == UNION {{t} \X (1..f[t]) : t \in from..MaxTime}
Total(f, from) == Cardinality(Tokens(f, from))

\* The ledger is honest: a row's total is what was charged to its owner ever, its window
\* what was charged since the window opened (a charge of that very instant may still have
\* gone to the window before), and nobody is charged for what their own work did not
\* spend.  Nothing that is due goes uncharged, anonymous work included, unless a charge
\* fails (LandFails) or the server restarts.
LedgerIsHonest ==
  \A o \in Owners :
    LET l == ledger[o]
        charged == l.used + Total(owed[o], 0)
    IN
    /\ l.used = Total(landed[o], 0)
    /\ l.used > 0 => /\ Total(landed[o], l.start + 1) <= l.period
                     /\ l.period <= Total(landed[o], l.start)
    /\ charged <= spent[o]
    /\ crashes = 0 => charged >= due[o]

\* The cap on active runs is exceeded by no more than the starts that raced each other
\* through its check, whatever the seeded starts that pass through an uncounted status.
OverAdmissionIsBounded ==
  \A o \in Owners \ {Anon} :
    LET raced == IF overlap[o] > 1 THEN overlap[o] - 1 ELSE 0 IN
    Cardinality(Active(o)) <= MaxActive + raced

\* An owner who is out of tokens, and has no work left, gets no model call until the
\* window rolls or the tier changes.
QuotaStops ==
  \A o \in Owners : dry[o] =>
    /\ \A s \in Sessions : session[s].owner = o => session[s].agent # "out"
    /\ \A r \in Requests : req[r].o = o => req[r].pc \notin {"call", "scribe", "create"}

\* Every session that has ended is pruned from the tap's map.
EndedIsPruned ==
  \A s \in tapped : session[s].status # "ended"

=============================================================================
