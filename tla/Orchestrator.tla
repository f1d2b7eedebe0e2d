---------------------------- MODULE Orchestrator ----------------------------
(***************************************************************************)
(* One build session of AKIS: its row in the session store, and every      *)
(* handler that drives it (backend/src/orchestrator/Orchestrator.ts, the   *)
(* action routes of backend/src/api/sessions.routes.ts and the chat writer *)
(* of backend/src/api/server.ts).                                          *)
(*                                                                         *)
(* A handler is a process: it reads the row, awaits an agent, the verifier *)
(* or GitHub, and writes the row back under the optimistic lock `version`. *)
(* Every await is a step boundary, so handlers interleave as they do on    *)
(* the event loop.  File sets, specs and repositories are opaque values: a *)
(* digest is injective, so equality of digests is equality of values.      *)
(***************************************************************************)
EXTENDS Naturals, FiniteSets

CONSTANTS
  Clients,        \* concurrent HTTP requests that drive the session
  Chatters,       \* concurrent writers of a non-gate column (chat turns)
  Kick,           \* the fire-and-forget run that a seeded start launches
  Specs,          \* spec artifacts
  Codes,          \* file sets
  Repos,          \* repository names a delivery can be derived to
  Shared,         \* the default orchestrator
  Workflows,      \* the orchestrators built for workflow-bound sessions
  None,           \* an absent column
  MaxIterate,     \* Proto attempts after the first (DEFAULT_MAX_ITERATE)
  MaxRetry,       \* MAX_RESILIENT_WRITE_RETRY
  MaxRequests,    \* bound: requests the clients issue
  MaxTurns,       \* bound: chat turns written
  MaxCrashes,     \* bound: restarts of the server
  CanEvict        \* the FIFO cap may drop this session's bound orchestrator

Proc  == Clients \cup Chatters \cup {Kick}
Orchs == {Shared} \cup Workflows

ASSUME ProcsDisjoint ==
  /\ Kick \notin Clients \cup Chatters
  /\ Clients \cap Chatters = {}
ASSUME NoneIsFresh == None \notin Specs \cup Codes \cup Repos \cup Orchs
ASSUME BoundsAreNat ==
  /\ MaxIterate \in Nat /\ MaxRetry \in Nat /\ MaxRequests \in Nat
  /\ MaxTurns \in Nat /\ MaxCrashes \in Nat
  /\ CanEvict \in BOOLEAN

VARIABLES
  row,         \* the stored session row
  inFlight,    \* orchestrators whose inFlightRuns holds this session
  bound,       \* the route's `bound` map: the orchestrator captured at start
  confirming,  \* the route's `confirming` set holds this session
  pc,          \* where each process is
  lv,          \* the local variables of each process
  repos,       \* GitHub: repositories created
  pushes,      \* GitHub: file sets received, and where
  passed,      \* history: file sets that a real test run passed
  issued, turns, crashes   \* the counters the bounds cap

github == <<repos, pushes>>
counters == <<issued, turns, crashes>>
vars == <<row, inFlight, bound, confirming, pc, lv, repos, pushes, passed,
          issued, turns, crashes>>

Statuses == {"composing", "awaiting_spec_approval", "building",
             "awaiting_critic_resolution", "awaiting_push_confirm",
             "verify_failed", "done", "push_failed", "failed", "cancelled"}

\* Mutant: a finished run can be cancelled.
CancelImmuneButDone == {"failed", "cancelled", "push_failed", "verify_failed"}

CancelImmune == {"done", "failed", "cancelled", "push_failed", "verify_failed"}

NoRow == [status |-> "absent", version |-> 0, spec |-> None, approval |-> None,
          code |-> None, token |-> None, delivery |-> None]

\* What a handler holds across its awaits: its kind, the orchestrator it runs
\* on, the version it last read, the file set in hand, the delivery it pins, the
\* repository it pushes to, the patch a resilient write carries, and its two loop
\* counters.
NoLocals == [op |-> "none", orch |-> Shared, ver |-> 0, files |-> None,
             delivery |-> None, to |-> None, patch |-> "none", retry |-> 0,
             iter |-> 0]

Init ==
  /\ row = NoRow
  /\ inFlight = {} /\ bound = None /\ confirming = FALSE
  /\ pc = [p \in Proc |-> "idle"]
  /\ lv = [p \in Proc |-> NoLocals]
  /\ repos = {} /\ pushes = {} /\ passed = {}
  /\ issued = 0 /\ turns = 0 /\ crashes = 0

-----------------------------------------------------------------------------
(* Shared steps of the handlers                                            *)

\* The store's optimistic lock: a write lands only at the version it expects,
\* and bumps it.
Commit(p, new) ==
  /\ row.version = lv[p].ver
  /\ row' = [new EXCEPT !.version = row.version + 1]

Goto(p, label) == pc' = [pc EXCEPT ![p] = label]

\* The handler returns or throws; its `finally` releases the guard it holds.
Return(p) ==
  /\ pc' = [pc EXCEPT ![p] = "idle"]
  /\ lv' = [lv EXCEPT ![p] = NoLocals]
  /\ inFlight' = IF lv[p].op = "run" THEN inFlight \ {lv[p].orch} ELSE inFlight
  /\ confirming' = (confirming /\ lv[p].op # "confirm")

\* Mutant: the in-flight guard is released on success only.
ThrowLeaks(p) ==
  /\ pc' = [pc EXCEPT ![p] = IF p = Kick THEN "catch" ELSE "idle"]
  /\ lv' = [lv EXCEPT ![p] = NoLocals]
  /\ UNCHANGED <<inFlight, confirming>>

\* A handler throws.  The detached run has a catch of its own: unless the user
\* cancelled, it goes on to look at the row it leaves behind.
Throw(p) ==
  IF p = Kick
  THEN /\ pc' = [pc EXCEPT ![p] = "catch"]
       /\ lv' = [lv EXCEPT ![p] = NoLocals]
       /\ inFlight' = inFlight \ {lv[p].orch}
       /\ UNCHANGED confirming
  ELSE Return(p)

Issue(p) ==
  /\ p \in Clients /\ pc[p] = "idle" /\ issued < MaxRequests
  /\ issued' = issued + 1
  /\ UNCHANGED <<turns, crashes>>

OrchFor == IF bound # None THEN bound ELSE Shared

\* Hand a patch to updateResilient (or to the identical recordVerification loop).
Resilient(p, patch) ==
  /\ pc' = [pc EXCEPT ![p] = "read"]
  /\ lv' = [lv EXCEPT ![p].patch = patch, ![p].retry = 0]

-----------------------------------------------------------------------------
(* start(): the spec stage                                                 *)

\* POST /sessions: create the row.  A spec approved in chat may seed it, and a
\* change request inherits the delivery of the app it edits, whose repository
\* exists.
Start(p) ==
  \E o \in Orchs, seeded \in BOOLEAN, d \in Repos \cup {None} :
    /\ row.status = "absent"
    /\ Issue(p)
    /\ row' = [NoRow EXCEPT !.status = "composing", !.delivery = d]
    /\ repos' = repos \cup ({d} \ {None})
    /\ Goto(p, IF seeded THEN "seed" ELSE "draft")
    /\ lv' = [lv EXCEPT ![p] = [NoLocals EXCEPT !.op = "start", !.orch = o]]
    /\ UNCHANGED <<inFlight, bound, confirming, pushes, passed>>

\* The seeded spec is stored; its approval is minted next, by mintSpecApproval.
SeedSpec(p) ==
  /\ pc[p] = "seed"
  /\ \E s \in Specs :
       Commit(p, [row EXCEPT !.spec = s, !.status = "awaiting_spec_approval"])
  /\ Goto(p, "mint")
  /\ lv' = [lv EXCEPT ![p].ver = row'.version]
  /\ UNCHANGED <<inFlight, bound, confirming, github, passed, counters>>

\* The route binds a workflow's orchestrator once start() has returned.
Bind(o) == bound' = IF o = Shared THEN bound ELSE o
ReturnFromStart(p) == Return(p) /\ Bind(lv[p].orch)

\* Scribe asks back, or the Critic's verdict on the spec picks the next gate.
DraftSpec(p) ==
  /\ pc[p] = "draft"
  /\ \/ Commit(p, [row EXCEPT !.status = "composing"])
     \/ \E s \in Specs,
           status \in {"awaiting_spec_approval", "awaiting_critic_resolution"} :
          Commit(p, [row EXCEPT !.spec = s, !.status = status])
  /\ ReturnFromStart(p)
  /\ UNCHANGED <<github, passed, counters>>

\* Scribe throws, or the Critic errors: the row stays `composing`.
DraftFails(p) ==
  /\ pc[p] = "draft"
  /\ Return(p)
  /\ UNCHANGED <<row, bound, github, passed, counters>>

\* POST /approve
Approve(p) ==
  /\ row.status = "awaiting_spec_approval" /\ row.spec # None
  /\ Issue(p)
  /\ Goto(p, "mint")
  /\ lv' = [lv EXCEPT ![p] = [NoLocals EXCEPT !.op = "approve", !.ver = row.version]]
  /\ UNCHANGED <<row, inFlight, bound, confirming, github, passed>>

\* Mutant: the approval is a flag, not a token over the spec.
MintApprovalFlag(p) ==
  /\ pc[p] = "mint"
  /\ Commit(p, [row EXCEPT !.approval = TRUE])
  /\ Goto(p, "open")
  /\ lv' = [lv EXCEPT ![p].ver = row'.version]
  /\ UNCHANGED <<inFlight, bound, confirming, github, passed, counters>>

\* mintSpecApproval, first write: the approval token over the reviewed spec.
MintApproval(p) ==
  /\ pc[p] = "mint"
  /\ Commit(p, [row EXCEPT !.approval = row.spec])
  /\ Goto(p, "open")
  /\ lv' = [lv EXCEPT ![p].ver = row'.version]
  /\ UNCHANGED <<inFlight, bound, confirming, github, passed, counters>>

\* mintSpecApproval, second write: the session advances to `building`.
OpenBuild(p) ==
  /\ pc[p] = "open"
  /\ Commit(p, [row EXCEPT !.status = "building"])
  /\ IF lv[p].op = "start"
     THEN Goto(p, "kick") /\ UNCHANGED <<lv, inFlight, confirming>>
     ELSE Return(p)
  /\ UNCHANGED <<bound, github, passed, counters>>

\* kickRun: the detached run's check-and-set happens before start() returns.
KickRun(p) ==
  LET o == lv[p].orch IN
  /\ pc[p] = "kick" /\ pc[Kick] = "idle"
  /\ Bind(o)
  /\ UNCHANGED <<row, confirming, github, passed, counters>>
  /\ IF o \in inFlight
     THEN /\ pc' = [pc EXCEPT ![p] = "idle", ![Kick] = "catch"]
          /\ lv' = [lv EXCEPT ![p] = NoLocals]
          /\ UNCHANGED inFlight
     ELSE /\ pc' = [pc EXCEPT ![p] = "idle", ![Kick] = "run"]
          /\ lv' = [lv EXCEPT ![p] = NoLocals,
                    ![Kick] = [NoLocals EXCEPT !.op = "run", !.orch = o]]
          /\ inFlight' = inFlight \cup {o}

-----------------------------------------------------------------------------
(* The resilient writer                                                    *)

\* The patches that updateResilient and the recordVerification loop carry, each
\* applied to the row as it is at the commit.
Patched(l) ==
  CASE l.patch \in {"code", "readme"} -> [row EXCEPT !.code = l.files]
    [] l.patch = "park"   -> [row EXCEPT !.code = l.files,
                                         !.status = "awaiting_critic_resolution"]
    [] l.patch = "verified" -> [row EXCEPT !.token = l.files]
    [] l.patch = "gate"   -> [row EXCEPT !.status = "awaiting_push_confirm",
                                         !.delivery = IF l.delivery = None
                                                      THEN @ ELSE l.delivery]
    [] l.patch = "unverified" -> [row EXCEPT !.status = "verify_failed"]
    [] l.patch = "pushFailed" -> [row EXCEPT !.status = "push_failed",
                                         !.delivery = IF l.delivery = None
                                                      THEN @ ELSE l.delivery]
    [] l.patch = "done"   -> [row EXCEPT !.status = "done",
                                         !.delivery = IF l.delivery = None
                                                      THEN @ ELSE l.delivery]

\* Mutant: the resilient writer does not look for a cancel.
ReadFreshBlindly(p) ==
  /\ pc[p] = "read"
  /\ Goto(p, "write")
  /\ lv' = [lv EXCEPT ![p].ver = row.version]
  /\ UNCHANGED <<row, inFlight, bound, confirming, github, passed, counters>>

\* Re-read the row; a cancelled one is never written again.
ReadFresh(p) ==
  /\ pc[p] = "read"
  /\ IF row.status = "cancelled"
     THEN Return(p)
     ELSE /\ Goto(p, "write")
          /\ lv' = [lv EXCEPT ![p].ver = row.version]
          /\ UNCHANGED <<inFlight, confirming>>
  /\ UNCHANGED <<row, bound, github, passed, counters>>

\* Where the handler goes on once its patch is committed.  verifyAndTransition
\* works on the row the code write returned, so it re-reads its delivery there.
WriteFresh(p) ==
  LET patch == lv[p].patch IN
  /\ pc[p] = "write"
  /\ Commit(p, Patched(lv[p]))
  /\ CASE patch \in {"code", "readme"} ->
            /\ Goto(p, IF patch = "code" THEN "docs" ELSE "trace")
            /\ lv' = [lv EXCEPT ![p].delivery = row.delivery]
            /\ UNCHANGED <<inFlight, confirming, bound>>
       [] patch = "verified" ->
            /\ Goto(p, "pin")
            /\ UNCHANGED <<lv, inFlight, confirming, bound>>
       [] patch \in {"park", "gate", "unverified", "pushFailed", "done"} ->
            /\ Return(p)
            /\ bound' = IF patch = "done" THEN None ELSE bound
  /\ UNCHANGED <<github, passed, counters>>

\* Someone else wrote in between: re-read and retry, up to the bound.
RetryFresh(p) ==
  /\ pc[p] = "write" /\ row.version # lv[p].ver
  /\ IF lv[p].retry < MaxRetry
     THEN /\ Goto(p, "read")
          /\ lv' = [lv EXCEPT ![p].retry = @ + 1]
          /\ UNCHANGED <<inFlight, confirming>>
     ELSE Throw(p)
  /\ UNCHANGED <<row, bound, github, passed, counters>>

-----------------------------------------------------------------------------
(* runToVerification(): the build                                          *)

\* POST /run: the synchronous check-and-set on the session's orchestrator.
Run(p) ==
  /\ row.status # "absent" /\ OrchFor \notin inFlight
  /\ Issue(p)
  /\ Goto(p, "run")
  /\ inFlight' = inFlight \cup {OrchFor}
  /\ lv' = [lv EXCEPT ![p] = [NoLocals EXCEPT !.op = "run", !.orch = OrchFor]]
  /\ UNCHANGED <<row, bound, confirming, github, passed>>

\* Gate 1: the approval token covers the session's spec.
SpecApproved == row.approval # None /\ row.approval = row.spec

\* runPipeline: the status check and Gate 1.
BeginRun(p) ==
  /\ pc[p] = "run"
  /\ IF row.status = "building" /\ SpecApproved
     THEN Goto(p, "produce") /\ UNCHANGED <<lv, inFlight, confirming>>
     ELSE Throw(p)
  /\ UNCHANGED <<row, bound, github, passed, counters>>

\* Mutant: the attempts start over, so the budget is never spent.
ProduceForever(p) ==
  /\ pc[p] = "produce"
  /\ \E candidate \in Codes :
       \/ /\ pc' = [pc EXCEPT ![p] = "read"]
          /\ \E patch \in {"code", "park"} :
               lv' = [lv EXCEPT ![p].files = candidate, ![p].patch = patch]
       \/ lv' = [lv EXCEPT ![p].iter = 1 - @] /\ UNCHANGED pc
  /\ UNCHANGED <<row, inFlight, bound, confirming, github, passed, counters>>

\* One attempt of Proto, validator and Critic.  An approved candidate is kept; a
\* rejected one is sent back to Proto, or to a human when the finding is critical,
\* the workflow asks for it or the budget is spent.
Produce(p) ==
  /\ pc[p] = "produce"
  /\ \E candidate \in Codes :
       \/ /\ pc' = [pc EXCEPT ![p] = "read"]
          /\ \E patch \in {"code", "park"} :
               lv' = [lv EXCEPT ![p].files = candidate, ![p].patch = patch]
       \/ /\ lv[p].iter < MaxIterate
          /\ lv' = [lv EXCEPT ![p].iter = @ + 1]
          /\ UNCHANGED pc
  /\ UNCHANGED <<row, inFlight, bound, confirming, github, passed, counters>>

\* Proto, the Critic or the test runner throws.
AgentFails(p) ==
  /\ pc[p] \in {"produce", "trace"}
  /\ Throw(p)
  /\ UNCHANGED <<row, bound, github, passed, counters>>

\* Mutant: the catch reports the error and forgets the row.
CatchIgnores(p) ==
  /\ pc[p] = "catch"
  /\ Goto(p, "idle")
  /\ UNCHANGED <<row, inFlight, bound, confirming, lv, github, passed, counters>>

\* kickRun's catch: a row still `building` is to become `failed`.
CatchRead(p) ==
  /\ pc[p] = "catch"
  /\ IF row.status = "building"
     THEN Goto(p, "fail") /\ lv' = [lv EXCEPT ![p].ver = row.version]
     ELSE Goto(p, "idle") /\ UNCHANGED lv
  /\ UNCHANGED <<row, inFlight, bound, confirming, github, passed, counters>>

FailRun(p) ==
  /\ pc[p] = "fail"
  /\ Commit(p, [row EXCEPT !.status = "failed"])
  /\ Return(p)
  /\ UNCHANGED <<bound, github, passed, counters>>

-----------------------------------------------------------------------------
(* verifyAndTransition(): Gates 2 and 3                                    *)

\* Mutant: the bundled files are tested, and never stored.
WriteDocsUnstored(p) ==
  /\ pc[p] = "docs"
  /\ Goto(p, "trace")
  /\ \E bundled \in Codes : lv' = [lv EXCEPT ![p].files = bundled]
  /\ UNCHANGED <<row, inFlight, bound, confirming, github, passed, counters>>

\* Scribe may bundle a README into the file set, stored before it is tested.
WriteDocs(p) ==
  /\ pc[p] = "docs"
  /\ \/ Goto(p, "trace") /\ UNCHANGED lv
     \/ \E bundled \in Codes :
          /\ pc' = [pc EXCEPT ![p] = "read"]
          /\ lv' = [lv EXCEPT ![p].files = bundled, ![p].patch = "readme",
                              ![p].retry = 0]
  /\ UNCHANGED <<row, inFlight, bound, confirming, github, passed, counters>>

\* Mutant: a run that failed its tests, or ran none, mints the token too.
TraceAlwaysMints(p) ==
  /\ pc[p] = "trace"
  /\ Resilient(p, "verified")
  /\ passed' \in {passed, passed \cup {lv[p].files}}
  /\ UNCHANGED <<row, inFlight, bound, confirming, github, counters>>

\* Trace runs the real tests on the files in hand; a pass mints a token over them.
Trace(p) ==
  /\ pc[p] = "trace"
  /\ \/ passed' = passed \cup {lv[p].files} /\ Resilient(p, "verified")
     \/ UNCHANGED passed /\ Resilient(p, "unverified")
  /\ UNCHANGED <<row, inFlight, bound, confirming, github, counters>>

\* resolveDelivery without a pin: a name the probe reports free; one that exists when
\* none is, or when the probe gave no answer; nothing when the owner has no usable
\* connection.
Derived == {None} \cup Repos

\* The destination is pinned when the push gate opens.
PinDelivery(p) ==
  /\ pc[p] = "pin"
  /\ \E d \in IF lv[p].delivery # None THEN {lv[p].delivery} ELSE Derived :
       /\ pc' = [pc EXCEPT ![p] = "read"]
       /\ lv' = [lv EXCEPT ![p].delivery = d, ![p].patch = "gate", ![p].retry = 0]
  /\ UNCHANGED <<row, inFlight, bound, confirming, github, passed, counters>>

-----------------------------------------------------------------------------
(* Recovery: cancel, resolve, retry                                        *)

\* A handler that read the row in hand and goes on to a plain write of it.
Plain(p, label) ==
  /\ Issue(p)
  /\ Goto(p, label)
  /\ lv' = [lv EXCEPT ![p] = [NoLocals EXCEPT !.op = label, !.ver = row.version]]
  /\ UNCHANGED <<row, inFlight, bound, confirming, github, passed>>

\* POST /cancel, and POST /resolve with `abandon`.
Cancel(p) ==
  /\ row.status \notin CancelImmune \cup {"absent"}
  /\ Plain(p, "cancel")

\* POST /resolve with `proceed` before the spec was approved.
ResolveSpec(p) ==
  /\ row.status = "awaiting_critic_resolution" /\ row.approval = None
  /\ Plain(p, "reopen")

CancelWrite(p) ==
  /\ pc[p] = "cancel"
  /\ Commit(p, [row EXCEPT !.status = "cancelled"])
  /\ Return(p)
  /\ bound' = None
  /\ UNCHANGED <<github, passed, counters>>

ReopenSpec(p) ==
  /\ pc[p] = "reopen"
  /\ Commit(p, [row EXCEPT !.status = "awaiting_spec_approval"])
  /\ Return(p)
  /\ UNCHANGED <<bound, github, passed, counters>>

\* A plain write that lost the race throws `version conflict` to its caller.
VersionConflict(p) ==
  /\ pc[p] \in {"seed", "draft", "mint", "open", "cancel", "reopen", "fail"}
  /\ row.version # lv[p].ver
  /\ Return(p)
  /\ UNCHANGED <<row, bound, github, passed, counters>>

\* Mutants: a run the Critic parked before its spec was approved is re-verified; a push
\* that failed is re-verified.
ReverifyUnapproved(p) ==
  /\ row.status \in {"verify_failed", "awaiting_critic_resolution"}
  /\ Issue(p)
  /\ Goto(p, "docs")
  /\ lv' = [lv EXCEPT ![p] = [NoLocals EXCEPT !.op = "verify", !.files = row.code,
                                              !.delivery = row.delivery]]
  /\ UNCHANGED <<row, inFlight, bound, confirming, github, passed>>
ReverifyPushFailed(p) ==
  /\ row.status \in {"verify_failed", "push_failed"}
  /\ Issue(p)
  /\ Goto(p, "docs")
  /\ lv' = [lv EXCEPT ![p] = [NoLocals EXCEPT !.op = "verify", !.files = row.code,
                                              !.delivery = row.delivery]]
  /\ UNCHANGED <<row, inFlight, bound, confirming, github, passed>>

\* POST /retry, and POST /resolve with `proceed` after the spec was approved:
\* verify the stored files for real, again.
Reverify(p) ==
  /\ \/ row.status = "verify_failed" /\ SpecApproved
     \/ row.status = "awaiting_critic_resolution" /\ row.approval # None
  /\ Issue(p)
  /\ Goto(p, "docs")
  /\ lv' = [lv EXCEPT ![p] = [NoLocals EXCEPT !.op = "verify", !.files = row.code,
                                              !.delivery = row.delivery]]
  /\ UNCHANGED <<row, inFlight, bound, confirming, github, passed>>

-----------------------------------------------------------------------------
(* confirmPush(): Gate 4                                                   *)

\* POST /confirm: one confirmation of a session at a time.
Confirm(p) ==
  /\ row.status # "absent" /\ ~confirming
  /\ Issue(p)
  /\ confirming' = TRUE
  /\ Goto(p, "confirm")
  /\ lv' = [lv EXCEPT ![p] = [NoLocals EXCEPT !.op = "confirm"]]
  /\ UNCHANGED <<row, inFlight, bound, github, passed>>

\* Mutant: any token opens the push gate.
PushApprovedByAnyToken == row.token # None

\* The push gate: a token is present and covers the stored files.
PushApproved == row.token # None /\ row.token = row.code

MintPush(p) ==
  /\ pc[p] = "confirm"
  /\ IF row.status \in {"awaiting_push_confirm", "push_failed"} /\ PushApproved
     THEN /\ Goto(p, "dest")
          /\ lv' = [lv EXCEPT ![p].files = row.code, ![p].to = row.delivery]
          /\ UNCHANGED <<inFlight, confirming>>
     ELSE Return(p)
  /\ UNCHANGED <<row, bound, github, passed, counters>>

\* Mutant: the destination is derived at every confirmation.
DestinationUnpinned(p) ==
  /\ pc[p] = "dest"
  /\ Goto(p, "createRepo")
  /\ \E d \in Derived : lv' = [lv EXCEPT ![p].delivery = d, ![p].to = d]
  /\ UNCHANGED <<row, inFlight, bound, confirming, github, passed, counters>>

\* The pinned destination, or one derived now.  An owner with no usable
\* connection is refused and parked; an unowned session has no destination of
\* its own and goes to the shared adapter.
Destination(p) ==
  /\ pc[p] = "dest"
  /\ \E d \in IF lv[p].to # None THEN {None} ELSE Derived :
       \/ /\ Goto(p, "createRepo")
          /\ lv' = [lv EXCEPT ![p].delivery = d, ![p].to = IF @ = None THEN d ELSE @]
       \/ /\ pc' = [pc EXCEPT ![p] = "read"]
          /\ lv' = [lv EXCEPT ![p].delivery = d, ![p].patch = "pushFailed"]
  /\ UNCHANGED <<row, inFlight, bound, confirming, github, passed, counters>>

MakeRepo(p) == repos' = repos \cup ({lv[p].to} \ {None}) /\ UNCHANGED pushes
SendFiles(p) ==
  /\ pushes' = pushes \cup {[files |-> lv[p].files, to |-> lv[p].to]}
  /\ UNCHANGED repos

CreateRepo(p) ==
  /\ pc[p] = "createRepo"
  /\ MakeRepo(p)
  /\ Goto(p, "pushFiles")
  /\ UNCHANGED <<row, inFlight, bound, confirming, lv, passed, counters>>

PushFiles(p) ==
  /\ pc[p] = "pushFiles"
  /\ SendFiles(p)
  /\ Resilient(p, "done")
  /\ UNCHANGED <<row, inFlight, bound, confirming, passed, counters>>

\* GitHub refuses either call, or does it and the answer is lost.
PushFails(p) ==
  /\ \/ pc[p] = "createRepo" /\ (MakeRepo(p) \/ UNCHANGED github)
     \/ pc[p] = "pushFiles" /\ (SendFiles(p) \/ UNCHANGED github)
  /\ Resilient(p, "pushFailed")
  /\ UNCHANGED <<row, inFlight, bound, confirming, passed, counters>>

-----------------------------------------------------------------------------
(* The other writers of the row, and the process's own life                *)

\* chatAppend: a chat turn is appended at the version read, with one re-read.
Chat(p) ==
  /\ p \in Chatters /\ pc[p] = "idle" /\ row.status # "absent"
  /\ turns < MaxTurns
  /\ turns' = turns + 1
  /\ Goto(p, "chat")
  /\ lv' = [lv EXCEPT ![p].ver = row.version]
  /\ UNCHANGED <<row, inFlight, bound, confirming, github, passed, issued, crashes>>

AppendTurn(p) ==
  /\ pc[p] = "chat"
  /\ Commit(p, row)
  /\ Return(p)
  /\ UNCHANGED <<bound, github, passed, counters>>

ReReadTurn(p) ==
  /\ pc[p] = "chat" /\ row.version # lv[p].ver
  /\ IF lv[p].retry = 0
     THEN /\ lv' = [lv EXCEPT ![p].ver = row.version, ![p].retry = 1]
          /\ UNCHANGED <<pc, inFlight, confirming>>
     ELSE Return(p)
  /\ UNCHANGED <<row, bound, github, passed, counters>>

\* The FIFO cap on bound orchestrators drops this session's; the next request
\* falls back to the shared one.
EvictBound ==
  /\ CanEvict /\ bound # None
  /\ bound' = None
  /\ UNCHANGED <<row, inFlight, confirming, pc, lv, github, passed, counters>>

\* The server restarts: the stored row and GitHub survive, nothing else does.
Crash ==
  /\ crashes < MaxCrashes
  /\ crashes' = crashes + 1
  /\ inFlight' = {} /\ bound' = None /\ confirming' = FALSE
  /\ pc' = [p \in Proc |-> "idle"]
  /\ lv' = [p \in Proc |-> NoLocals]
  /\ UNCHANGED <<row, github, passed, issued, turns>>

-----------------------------------------------------------------------------
Request(p) ==
  \/ Start(p) \/ Approve(p) \/ Run(p) \/ Cancel(p) \/ ResolveSpec(p)
  \/ Reverify(p) \/ Confirm(p) \/ Chat(p)

\* What a handler does once it has begun.
Continue(p) ==
  \/ SeedSpec(p) \/ DraftSpec(p) \/ DraftFails(p) \/ MintApproval(p)
  \/ OpenBuild(p) \/ KickRun(p)
  \/ ReadFresh(p) \/ WriteFresh(p) \/ RetryFresh(p)
  \/ BeginRun(p) \/ Produce(p) \/ AgentFails(p) \/ CatchRead(p) \/ FailRun(p)
  \/ WriteDocs(p) \/ Trace(p) \/ PinDelivery(p)
  \/ CancelWrite(p) \/ ReopenSpec(p) \/ VersionConflict(p)
  \/ MintPush(p) \/ Destination(p) \/ CreateRepo(p) \/ PushFiles(p) \/ PushFails(p)
  \/ AppendTurn(p) \/ ReReadTurn(p)

Next == (\E p \in Proc : Request(p) \/ Continue(p)) \/ EvictBound \/ Crash

Spec == Init /\ [][Next]_vars

\* A handler that has begun keeps being scheduled: the event loop runs every
\* settled promise, and agents, verifier and GitHub answer or time out.
Fairness == \A p \in Proc : WF_vars(Continue(p))
FairSpec == Spec /\ Fairness

-----------------------------------------------------------------------------
(* Properties                                                              *)

Labels == {"idle", "seed", "draft", "mint", "open", "kick", "read", "write", "run",
           "produce", "catch", "fail", "docs", "trace", "pin", "cancel", "reopen",
           "confirm", "dest", "createRepo", "pushFiles", "chat"}
Patches == {"none", "code", "readme", "park", "verified", "gate", "unverified",
            "pushFailed", "done"}
Ops == {"none", "start", "approve", "run", "cancel", "reopen", "verify", "confirm"}

Rows == [status : Statuses \cup {"absent"}, version : Nat,
         spec : Specs \cup {None}, approval : Specs \cup {None},
         code : Codes \cup {None}, token : Codes \cup {None},
         delivery : Repos \cup {None}]
Locals == [op : Ops, orch : Orchs, ver : Nat, files : Codes \cup {None},
           delivery : Repos \cup {None}, to : Repos \cup {None},
           patch : Patches, retry : Nat, iter : Nat]

\* Every variable keeps its type.
TypeOK ==
  /\ row \in Rows
  /\ inFlight \subseteq Orchs /\ bound \in Workflows \cup {None} /\ confirming \in BOOLEAN
  /\ pc \in [Proc -> Labels] /\ lv \in [Proc -> Locals]
  /\ repos \subseteq Repos
  /\ pushes \subseteq [files : Codes \cup {None}, to : Repos \cup {None}]
  /\ passed \subseteq Codes \cup {None}
  /\ issued \in Nat /\ turns \in Nat /\ crashes \in Nat

(* Gates *)

\* No code exists, and Proto never runs, before a human approved the very spec the
\* session carries (Gate 1).
CodeNeedsApproval ==
  (row.code # None \/ \E p \in Proc : pc[p] = "produce") =>
    row.approval # None /\ row.approval = row.spec

\* A session shows the push gate, or lies past it, only with a token that a real
\* passing test run earned (Gate 3); the status is written in a later step than
\* the token, and other handlers write in between.
GateNeedsToken ==
  row.status \in {"awaiting_push_confirm", "push_failed", "done"} =>
    row.token \in passed

\* Whatever reaches GitHub passed a real test run as it stands, however the
\* recoveries, retries and chat turns of the session interleave (Gate 4).
OnlyVerifiedIsPushed == \A x \in pushes : x.files \in passed

(* Guards *)

Running == {p \in Proc : lv[p].op = "run" /\ pc[p] # "run"}

\* The guards are exclusive and never leak: a guard is held exactly while its handler
\* is under way, by one handler, so an orchestrator never runs a session twice at once,
\* and a session never refuses a run or a confirmation that nobody is working on.
GuardsAreHeld ==
  /\ \A p, q \in Running : lv[p].orch = lv[q].orch => p = q
  /\ inFlight = {lv[p].orch : p \in {q \in Proc : lv[q].op = "run"}}
  /\ confirming <=> \E p \in Proc : lv[p].op = "confirm"

(* Refinement *)

\* The ApprovedPush a confirmation holds until it has pushed.
Confirmed == {p \in Proc : pc[p] \in {"dest", "createRepo", "pushFiles"}}

Gates == INSTANCE TrustGates WITH
  approval <- row.approval, code <- row.code, verified <- passed,
  token <- row.token, approved <- {lv[p].files : p \in Confirmed},
  pushed <- {x.files : x \in pushes}

\* The handlers, the resilient writes and the crashes together implement the
\* gates: every step is one gate step or none.
ImplementsGates == Gates!Spec

(* Action properties *)

\* A cancelled session is never resurrected: no write decided on an earlier read
\* lands after the cancel.
CancelledIsFinal ==
  [][row.status = "cancelled" => row'.status = "cancelled"]_vars

\* A build pushed to GitHub is over: confirmPush is not repeatable.
DoneIsFinal == [][row.status = "done" => row'.status = "done"]_vars

\* A pinned destination is never derived again: the same project keeps its repo.
DeliveryIsPinned ==
  [][row.delivery # None => row'.delivery = row.delivery]_vars

\* At the push gate and past it, the token covers the very files the row holds, so
\* a confirmation cannot be refused for a mismatch.
GateMatchesCode ==
  row.status \in {"awaiting_push_confirm", "push_failed", "done"} =>
    row.token = row.code

\* However often a push is retried, GitHub receives one artifact.
OneArtifact == \A x, y \in pushes : x.files = y.files

(* Liveness *)

\* Every handler returns: the produce loop and the write retries are bounded, and
\* no handler waits for another.
HandlersReturn == \A p \in Proc : (pc[p] # "idle") ~> (pc[p] = "idle")

\* A detached run that got going never leaves its session in `building`, whatever
\* fails in it: the session settles, or a POST /run takes it over.
KickedRunSettles ==
  (pc[Kick] = "run") ~>
    (row.status # "building" \/ \E p \in Clients : lv[p].op = "run")

(* What the code says of itself, and does not keep: each fails within a few steps, as  *)
(* the README describes                                                                *)

\* Orchestrator.ts:357-359: a run cancelled at the push gate is not shipped.
NothingShipsAfterCancel ==
  [][row.status = "cancelled" => pushes' = pushes]_vars

\* Orchestrator.ts:734-737: a retried push goes to the same repository, so one session
\* creates one repository.
OneRepository == \A r, s \in repos : r = s

\* Orchestrator.ts:412-415: a stray POST /run never runs Proto twice.
RunIsExclusive == \A p, q \in Running : p = q

=============================================================================
