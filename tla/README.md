# A TLA+ model of AKIS

AKIS turns an idea into a verified application: Scribe drafts a spec, a human
approves it, Proto writes the code, Trace runs real tests against it, and a
human confirms the push to GitHub. This directory models the code that keeps
those steps honest when requests, background runs, crashes and lost
connections interleave: the modules are checked with TLC on small instances,
and nearly all of their safety properties are proved with TLAPS for every value
of the constants.

## 1. Inventory

Paths are relative to the repository; `backend/` means `backend/src/`.

| Component | State it keeps | Operations | Hard behaviour | Correct when |
|---|---|---|---|---|
| **Orchestrator** `backend/orchestrator/Orchestrator.ts` | the set `inFlightRuns`; everything else is the session's row | `start`, `approve`, `runToVerification`, `cancel`, `resolveCritic`, `retryVerification`, `confirmPush` | every `await` lets another handler write the row; five-fold write retries; a detached run with a catch of its own | no gate is passed unearned, no late write undoes a terminal status, every handler ends and frees its guard |
| **Gates and verifier** `backend/gates/{specGate,pushGate}.ts`, `backend/verify/verifier.ts` | none (tokens in the row) | mint and consume the approval, the verify token and the push approval | tokens outlive the values they cover | code follows an approved spec, pushes follow a real passing run |
| **Session store** `backend/store/*SessionStore.ts` | rows with a `version` | `create`, `get`, `update(version)`, `recordVerification` | lost updates | a write lands only at the version its writer read |
| **Session routes** `backend/api/sessions.routes.ts` | `bound` (captured orchestrators), `confirming`, `confirmingWrites` | HTTP actions, SSE, log, publish, external writes | guards taken before the first await; a capped map | one confirmation at a time; a guard never leaks |
| **Event bus and SSE** `backend/events/bus.ts`, `backend/api/sse.ts`, `frontend/src/live/EventStreamClient.ts`, `frontend/src/chat/useLiveChat.ts` | numbering and capped buffers; per connection `maxSent`; browser cursor and view | emit, replay, reset, `/log`, re-sync, snapshot, hydrate | overflow, eviction, stalls, reconnects, failing re-syncs, restart from a stale snapshot | no silent gap, no duplicate, the view converges |
| **External writes** `backend/gates/{externalWriteGate,appendExternalWrite,recordGithubProposal}.ts`, routes | proposals in the row (at most 50), `confirmingWrites` | propose, append under the cap, confirm, claim, send, settle | claim, send and record are three steps under a version | sent at most once, only after a human's yes |
| **Preview registry** `backend/preview/{PreviewRegistry,ports}.ts`, `backend/api/preview.routes.ts`, `backend/verify/previewBoot.ts` | entries, ownership tokens, children, reserved ports; the coordinator's in-flight and pending sets | start, stop, restart, evict, serve a `done`, verify boot | a stop or newer start at each await of a start; ports and a cap shared by all sessions | no stale launch takes over, no child escapes, what is served is what shipped |
| **MCP session pool** `backend/agent/mcp/{McpSessionPool,StdioDockerTransport}.ts`, `backend/agent/tools/githubMcpTools.ts` | entries with reference counts and idle timers; a container each | acquire, release, close idle, closeAll | timers that fire late, connects that time out and then succeed | a transport in use stays up, no container is forgotten |
| **Knowledge** `backend/knowledge/*` | sources, an ingest queue and dead letters for the server and for each workflow with retrieval; two indexes, the table `vector_chunks` behind a write chain | pass over a repository, hear a session, pump, retry, drain, flush, hydrate | retries, prunes and writes that overtake each other; restarts | every job is accounted for, both indexes and the table agree |
| **Usage, quota, limits** `backend/usage/*`, the checks in `backend/api/{sessions,chat}.routes.ts`, `backend/api/billing.routes.ts` | `user_usage`, the tap's map of sessions to owners, tiers | check, charge, roll a window | check and charge are apart, charges are fire-and-forget | the ledger is honest, over-admission is bounded |
| **Shutdown** `backend/api/shutdown.ts`, `start` in `backend/api/server.ts` | two flags, the step of the close sequence | signal, close step by step, force out | the timer against the drain, and against work that goes on | exits once, having saved and closed |
| **Workflows and agent registry** `backend/workflow/*`, `backend/agent/dynamic/*` | stored definitions | CRUD, select an orchestrator | a binding made after the run was launched | a session stays with the orchestrator that began it |
| **Chat** `backend/api/chat.routes.ts`, `chatAppend` in `backend/api/server.ts` | turns in the row | append | a writer of the same row as the pipeline | a turn never undoes a gate |
| **Agents, providers, tool loop** `backend/orchestrator/subagents/*`, `backend/agent/*` | none | model calls | any answer, or none | the pipeline copes with every answer |
| **Real test execution** `backend/verify/*` | temporary directories, processes | run, probe, smoke | I/O | "passed" means tests ran |
| **Passport, evidence, trust report** `backend/verify/{passport,evidence,digest}.ts`, `backend/report/*` | none | sign, digest, project | digests stand for values | a digest is injective |
| **Delivery naming** `backend/di/deliverySlug.ts` | none | derive, probe a free name | the name is taken, or the probe fails | one project, one repository |
| **GitHub adapter** `backend/di/*GitHubAdapter.ts` | remote repositories | create, push | lost answers | retries reach the same place |
| **Publisher** `backend/publish/*`, its route | on the owner's server: directories, processes, pid files, ports | stop, check, clear, upload, launch, verify, record | steps that fail unseen or time out and run on, supervisors, overlapping publishes, a profile changed between two | success means that this build is served |
| **Accounts, OAuth, keys** `backend/auth/*`, `backend/keys/*` | users, tokens, sealed keys | sign in, reset, link | token reuse | a token works once |
| **Billing, mail, analytics, audit** | ledgers, logs | adapters | - | - |
| **Frontend** `frontend/src/*` | React state | fold events, render | out-of-order answers | the view is the fold of the log |

How they meet: a route calls the orchestrator a session is bound to; the
orchestrator reads and writes the session's row under its version and emits
events on the bus; the bus feeds SSE streams, which browsers follow, the usage
tap, the knowledge sink and, on `done`, the preview coordinator. Chat turns,
publish records and external writes go to the same row. Shutdown tears down the
previews, the MCP pool and the knowledge engine in turn. Only Postgres (rows,
ledger, chunks), GitHub, the owner's server and the bus's snapshot survive a
restart.

## 2. Modules

| Module | Models | Used by |
|---|---|---|
| `Orchestrator` | one session: its row, the seven operations, the guards, chat turns, GitHub, restarts | runs, proofs |
| `TrustGates` | the abstract promise: what may be approved, tested, tokened and pushed, without handlers, versions or crashes | refined by `Orchestrator` |
| `EventStream` | one session's bus, stream, log, browser and snapshot | runs, proofs |
| `ExternalWrites` | the proposals of one session and their confirmations | runs, proofs |
| `PreviewRegistry` | every session's preview: registry, ports, coordinator, verify boots | runs, proofs |
| `Shutdown` | the signal, the close sequence and its timer | extended by the next two |
| `McpSessions` | pool, containers and tool loops, until and during shutdown | runs, proofs |
| `Knowledge` | sources, queue, indexes, write chain and table, over restarts and shutdown | runs, proofs |
| `Publish` | publishes and the server they go to | runs, proofs |
| `Admission` | quota, ledger, active-run cap and the work they admit | runs, proofs |
| `OrchestratorProofs` | types, gates, guards, approval, cancellation and delivery of `Orchestrator`, and its refinement of `TrustGates` | TLAPS |
| `EventStreamProofs`, `ExternalWritesProofs`, `PreviewRegistryProofs`, `McpSessionsProofs`, `KnowledgeProofs`, `PublishProofs`, `AdmissionProofs` | inductive invariants and theorems of the module each is named after | TLAPS |
| `MCOrchestrator`, `MCExternalWrites`, `MCPreviews`, `MCMcpSessions`, `MCPublish`, `MCAdmission` | symmetries and constant functions of the checked instances | runs |

### Orchestrator

A handler is a process: an HTTP request (`Clients`), a chat turn (`Chatters`) or
the detached run a seeded start launches (`Kick`). `pc[p]` says which await it is
at and `lv[p]` what it holds: the operation, the orchestrator it runs on, the row
version it read, the file set in hand, the delivery, and the retry counters.

* **One step is the code between two awaits.** A store write is a step (`Commit`,
  PgSessionStore.ts `UPDATE ... WHERE version = $v`); so is a call of an agent, of
  the verifier or of GitHub. Check-and-set code before the first await (`Run`,
  `Confirm`, the kick) is one step with its guard, as in the code.
* **Two kinds of writes.** Plain writes (`CancelWrite`, `MintApproval`,
  `OpenBuild`, `FailRun`, ...) fail on a conflict and throw (`VersionConflict`).
  Resilient writes are a loop of `ReadFresh`, `WriteFresh` and `RetryFresh`, which
  stops at a cancelled row; the patch they carry is named by `lv[p].patch`.
  `recordVerification` has the same loop and shares it.
* **Handlers.** `Start`..`KickRun` is `start`/`approve`/`mintSpecApproval`; `Run`,
  `BeginRun`, `Produce`, `AgentFails` is the pipeline with the Critic's
  three outcomes; `WriteDocs`, `Trace`, `PinDelivery` is `verifyAndTransition`;
  `Cancel`, `ResolveSpec`, `Reverify` are the recoveries; `Confirm`, `MintPush`,
  `Destination`, `CreateRepo`, `PushFiles`, `PushFails` is `confirmPush` with
  GitHub calls that succeed, fail, or succeed with their answer lost.
* **Guards.** `inFlight` is the set of orchestrators whose `inFlightRuns` holds the
  session, `confirming` the route's set, `bound` the route's map; `Return` is every
  `finally`. `EvictBound` is the FIFO cap. `Crash` keeps the row and GitHub.
* **Data.** A file set, a spec and a repository are opaque values. A digest is
  injective, so "the token covers these files" is equality with them. `passed`
  remembers which file sets a real test run passed and exists only for the
  properties.

### TrustGates

Six values (approval, code, tested sets, token, approved pushes, pushed sets) and
seven steps. `ImplementsGates` maps the row and the handlers' locals to them, so
every step of every handler is one gate step or none.

### EventStream

`Emit` numbers, buffers, trims and sends in one step, since the bus calls its
listeners synchronously; `Open` subscribes and replays in one turn of the event
loop, so the handler's own queue stays empty and is left out. The buffer is in the
order of its numbers, so what a replay sends (`Beyond`) is its tail, cut where the
backlog ends the stream (`Replay`). `sock` is
the socket: a bounded sequence of frames, `sent` the handler's `maxSent`. `Push`
ends a stream whose backlog overflows. The browser receives the head frame
(`ReceiveOpen`, `ReceiveEvent`, `ReceiveReset`), asks for the log on a reset and on
every re-open, retries a failed request once (`FailLog`) and merges
answers by seq (`MergeLog`). `Drop` loses the connection; the browser resumes
with its Last-Event-ID, or without one when a new EventSource replaces it.
`BeginPersist`, `EndPersist` and `Crash` are the debounced snapshot, written in
place, and the hydrate; they are part of `RestartSpec` only.

### ExternalWrites

A digest is the content it covers, so a confirmation names the content its user
saw. The row's version is the set `fresh`: the requests that have read the row as
it still is. `Propose`, `Duplicate`, `AppendRead`, `AppendWrite` are the append
with its cap, its deduplication and its retries; `MakeRoom` evicts the oldest
settled record, `Full` refuses. A confirmation enters the in-flight set
(`Enter`), reads, mints (`Mint`: the digest in hand is the content's), claims the
record as `executing`, sends, and settles it; each write is a `PatchRead` and a
`PatchWrite` that a conflict sends back. `CommitIsNotHeard` is a commit whose reply
is lost, `StoreFails` a write that never happened, `Bump` another writer of the
row, `Crash` a restart, which forgets requests and the in-flight set.

### PreviewRegistry

A launch is a slot, and the ownership token a session holds is its launch's slot.
Each await of `start` is a step: the stop before it, the evictions that make room
(one awaited stop each), the install, the port, the spawn, the probe; after each
the launch looks whether it still owns the session. A child is booting,
listening or dead; `procs` says which one the registry would kill. The
coordinator serialises the starts of a session and remembers a `done` it meets
(`OnDone`, `Finally`). Verify boots go through the registry under a session of
their own and are not counted by the cap.

### Shutdown, McpSessions, Knowledge

`Shutdown` has the step of the close sequence as `phase`. A module that extends it
says what its own step of the sequence does (`ShutdownStep`), and lets everything
else run on until the exit, as the process does.

`McpSessions`: a transport's `conn` follows the container from the connect to
the kill; `late` and `abandoned` are the connects that lost against their timer
or against a close and may still succeed. Timers that were overtaken are kept as
`strays`. A loop counts itself before it awaits the initialize.

`Knowledge`: an engine is what one `buildServices` makes, the server's own (`Default`) or
that of a workflow which runs with retrieval: its sources, its queue and its pump. With a
database they share both indexes, the write chain and the table. `Push` changes the
repository, `Pass` is a `RepoSource` pass (prune what is gone, enqueue what is new), `Say` a
text of the session, heard by the engine whose sink is subscribed. `Take`, `Attempt`,
`Embedded`, `EmbedFails`, `Retry` are an engine's single pump. Vector index and lexical
index change at once; the table follows through `writes`, a FIFO of upserts and deletes,
each of which may fail. `Drain` waits for the queue of the server's own engine, as the code
does, and `Flushed` for the writes issued by then; `Crash` and `Boot` are the restart and
the hydrate.

### Publish

The owner's server is directories (of each, whose build's files lie on top, and who else's
are left), processes (an app, or a supervisor that respawns it), the pid file in a
directory that the next publish kills by, and ports. The profile names a directory and a
port; `SetProfile` is the owner changing it, and a publish keeps what it read at `Begin`.

A step that fails is one of two things. `Fail` is an honest `ok: false`: the transport
throws, the total deadline is over, or an answer the code looks at is not as it should be.
`StepFails` is a stop, a clear or a start whose exit code nobody reads: an SSH error, a
command that fails before its `; true`, or a time-out. The publish goes on; the command
never ran, ran in part (`ClearPart`), or, its client killed, runs later on the server
(`RunLate`). `disturbed` (another publish, or a late command of one before, in the way),
`uncleared` (its clear was passed over), `mixed` (a node app was published) and `roots` (the
directories published with a port) are histories the properties use to say what they are
about.

### Admission

`Ask` is a start, a chat turn or an approval. `Policy`, `Quota` and `Count` are three
awaited reads of different stores; what they admit comes later. A charge leaves
with the clock of its moment (`owed`) and lands whenever (`Land`), on the row or on a
rolled window. Of a build the model keeps what is charged: whether an agent is
out, for which status, and whether the tap still knows the session. `parked`
stands for every status after the build that is neither counted nor over.
`overlap` and `dry` remember what the properties need: how many requests of an owner
were past the cap's check at once, and that an owner ran out of tokens when no
work of theirs was left.

## 3. Runs

| Run | Question | Bounds and why they are enough |
|---|---|---|
| `drivers` | do the gates hold when two clients and the detached run interleave? | 2 clients + kick: any two requests race the run. Five requests reach start, a verification, two recoveries in flight and a confirmation. Two specs and two file sets tell "this one" from "another" |
| `guards` | are the in-process guards exclusive, never leaked, and do the handlers implement `TrustGates`? | a bound workflow orchestrator beside the shared one, eviction, a restart; no write retries, so every conflict throws |
| `recovery` | is a session that is retried, resolved, restarted and confirmed again delivered once, to one place? | one client at a time with the kick and a chat turn, five requests, two repositories, one restart |
| `live` | does every handler return and every kicked run settle? | one extra Proto attempt and one write retry exercise both loops; agents may fail at any call |
| `stream` | ordered, gap-free, complete and convergent stream? | buffer of 2 and four events: a trim by one and by two; a backlog of 2 frames; one lost connection besides any number the overflow ends; any number of evictions and failing re-syncs |
| `writes` | is an outward write sent at most once, as confirmed, and kept while in flight? | 3 requests on 2 proposals: two confirmations of one, or one beside an append; a row with room for one, so every append evicts or is refused; one retry, one foreign write of the row, one restart; contents that collide in their key |
| `previews` | cap, tracking, ownership and freshness under racing starts? | 2 user sessions and a verify boot, 2 launches at once, 2 ports, a cap of one: any two starts, or a start and a stop, or an eviction, race; two builds tell stale from fresh |
| `mcp` | is a container in use kept, and every other one closed? | 3 loops of 2 owners, 2 transports: two loops share one while the third replaces or adds another; connects fail, time out and come late; the shutdown at any time |
| `knowledge` | is no job lost or tried for ever, do indexes and table agree, and does a clean exit save what it waited for, with two engines on one corpus? | the server's engine and a workflow's; a file that comes and goes (two pushes) and a text, so that either engine may upsert or prune the other's chunk; one retry and one dead letter exercise loop and ring; one restart; the shutdown at any time |
| `publish` | does success mean that this build's files are there and no others, that the new site is served, and is the key always removed? | 2 publishes at once, three in all: any overlap, and a repetition after it; two static builds tell new from old, and a node build has a supervisor; one directory and 2 ports; 3 processes hold an old app, its supervisor and a new one; one mishap: a change of the profile, a step that fails unseen, an app that exits or a write of the row. A second directory would add a fresh start, and the case `TakenPortIsNoticed` is about |
| `admission` | is the ledger honest, the cap passed only by racing starts, and an owner out of tokens stopped? | one user and the anonymous row, 2 requests, 2 sessions, a budget and a cap of one: each check is met at its limit and raced once; 3 tokens: one opens a window, one lands late in it, one rolls it; one tier changes, one restart |
| `served_stale` | violated: `PublishedIsServed` | two publishes of node builds, one after the other |

Deadlock checking is off everywhere: a session that ended, a stream whose
bounded events are all seen, a process that exited, rightly have nothing left to
do. Clients, requests, sessions, contents and the like are symmetric where no
liveness is checked.

**Bounds.** Constants named `Max...` for requests, turns, events, crashes, drops,
pushes, failing steps and the like cap what the environment does, and appear only as
guards of the actions they count. Limits of the code are scaled down: `MaxRetry` 1 or
0 for five, `MaxRetries` 1 for three, `MaxIterate` 1 or 0 for its default, `Cap` 2 for
200 events and 1 for 50 proposals, `Backlog` 2 frames for one megabyte, `MaxDead`
1 for 100, `MaxConcurrent` 1 for two. `MaxMishaps` caps four things the environment of
`Publish` does, taken together: one of them happens in a behaviour. Each limit is large enough that the loop is entered,
repeated or exhausted, and the limit met; the theorems hold for every value of them.

**Fairness.** `Orchestrator!FairSpec` asks weak fairness of each handler's next
step: the event loop runs the continuation of a settled promise, and agents, the
test runner and GitHub answer or time out. Nothing is asked of requests, chat
turns, evictions and restarts. `EventStream!FairSpec` asks it of the browser and
its connections as a whole: an EventSource reconnects, the socket delivers, the
log answers or fails; a re-sync that failed twice (`missed`) is given up by the
code, and the liveness property excuses it. `McpSessions!FairSpec` asks that an idle
timer that is due fires; nothing is asked of loops, connects, kills (the close of a
connection that came late, `closeConnQuietly`, waits for its client without a bound) or
the shutdown. `Knowledge!FairSpec` asks it of each engine's pump: it takes a job, the
embedding answers or fails, and the retry timer fires.

### What the properties say

`CodeNeedsApproval`, `GateNeedsToken` and `OnlyVerifiedIsPushed` are the gates as
facts about a row that several handlers write. `GateMatchesCode`, `OneArtifact`,
`DeliveryIsPinned` and `DoneIsFinal` are what makes a confirmation repeatable.
`GuardsAreHeld` is exclusion and an equivalence, so a second run, a leaked and a
missing guard all violate it. `CancelledIsFinal` is an action property over writes
that were decided before the cancel. `StreamIsOrdered`, `NoSilentGap` and
`ViewIsComplete` relate bus, socket and view; `Converges` asks that the view
catches up for good. `DoneIsFinal` and `KickedRunSettles` hold as the runs check
them (one client at a time, or no two builders at once; no chat turn); section 4 says
how they fail without.

`AtMostOnce` also says that what can still be confirmed was not sent, which is what
makes a repeated confirmation safe; `InFlightIsKept` is an action property against the
cap and against late writes. `CapHolds`, `ChildrenAreTracked`, `LiveIsOwned` and
`ServesShipped` relate the registry's entry, token and child to each other and to
the coordinator's dones. `UsedIsUp`, `NoOrphan` and `IdleIsReaped` relate containers
to their users. `JobsAreAccounted` is a balance; `StoresAgree` compares the indexes
with the table as it will be once the write chain has run: the last write of a chunk
that still waits decides, and where none waits the table agrees already or a write
failed. `DrainedIsDurable` is about what the server's own engine was given before the
signal; `AllIsDurable` says it of every engine, and fails. `FilesAreTheBuilds` and
`StaticIsServed` speak of publishes nothing disturbed and whose clear was carried out, since
the code keeps no two apart and does not look at the clear; `RemovedIsGone` and
`TakenPortIsNoticed` say what its comments promise without these conditions, and fail.
`LedgerIsHonest`
compares the ledger with every charge ever made, and the window with the charges since it
opened; those that landed at the very instant it opened may be in the window before.
`OverAdmissionIsBounded` makes
"best effort" exact: the excess is at most the starts that were past the check together;
`QuotaStops` follows an owner from the moment the tokens and the work ran out.

## 4. What the checks found

**A publish that reports success for the old app** (`served_stale`,
`Publisher.ts:268`). The launcher writes `run.pid` in the login directory and not in the
target directory, so the next publish kills the app and not its supervisor, which starts
the old code again and keeps the port; the verification is content with a port
that listens. The finding in `PROJECT.json` quotes the comment that promises otherwise.

### Known divergences

The following properties are stated in the modules and are not kept by the code. No
run checks them; TLC finds each violated, within seconds, when it takes the place of the
properties in the configuration named.

| Property | What happens | To see it |
|---|---|---|
| `DoneIsFinal` | two recoveries are in flight (they take no in-flight guard); the slower one writes the push gate over `done` (`Orchestrator.ts:443`) | `drivers.cfg` with `Specs = {s1}`, `MaxRequests = 4` |
| `NothingShipsAfterCancel` | `confirmPush` looks at the row once, before two GitHub calls; a cancel in between is not seen (`Orchestrator.ts:765`) | as before with `MaxRequests = 3` |
| `RunIsExclusive` | a workflow's orchestrator is bound after its run was kicked; a stray `POST /run` reaches the shared one, whose in-flight set is empty (`sessions.routes.ts:281`) | as before with `Workflows = {wf}`, `MaxRequests = 2` |
| `KickedRunSettles` | the kicked run's catch writes `failed` once and swallows a conflict with a chat turn (`Orchestrator.ts:205`) | `live.cfg` with `Clients = {c1}`, `Chatters = {w1}`, `MaxRequests = 1`, `MaxTurns = 1` |
| `OneRepository` | a destination derived at confirm time is stored only after the push; a restart in between derives another (`Orchestrator.ts:779`) | `recovery.cfg` with `Chatters = {}`, `Codes = {x1}`, `MaxRequests = 3`, `MaxTurns = 0` |
| `ViewIsComplete` | the bus resumes from a snapshot half a second old, or torn; the numbers it hands out lie behind the browser's cursor (`server.ts:336`, `bus.ts:54`) | `stream.cfg` with `RestartSpec`, `MaxEmits = 3`, `MaxDrops = 0`, `MaxCrashes = 1` |
| `PortsAreExclusive` | an entry that failed keeps the port it released; the stop at the head of its next start releases it again, though another session may hold it (`PreviewRegistry.ts:369`) | `previews.cfg` with `Sessions = {s1, s2}`, `Verify = {}`, `Kinds = {"heavy"}`, `MaxConcurrent = 2`, no symmetry |
| `NoContainerSurvives` | `closeAll` meets a transport that is still connecting and finds nothing to close; the connection that comes is never closed (`McpSessionPool.ts:142`) | `mcp.cfg` with `Spec` |
| `AllIsDurable` | a workflow that runs with retrieval has an ingest queue of its own over the same table (`buildRag.ts:101`, `server.ts:376-398`); the shutdown drains the server's only, flushes and closes the pool, and what waits in the other is lost on a clean exit (`server.ts:1034`, against its comment at 1029-1033) | `knowledge.cfg` with `Spec` |
| `RemovedIsGone` | of the clear only a total deadline that was over before it began is noticed; an SSH error, a time-out or an `rm` that fails goes by, the upload merges with the old payload, and the publish reports success (`Publisher.ts:203`, against 190-195) | `publish.cfg` |
| `TakenPortIsNoticed` | no publish kills a static server (its `app.pid` is written in the login directory), so the next one ends with EADDRINUSE and the check is content with the port the first one holds (`Publisher.ts:293`); harmless while the directory is the same (`StaticIsServed`), but once the owner has named another and kept the port, the old site is served. `staticServe.ts:60-64` and `Publisher.ts:275-280` say the check catches this | `publish.cfg` with `Dirs = {d1, d2}`, `Ports = {q1}` |
| `RemovedIsForgotten` | a file is pruned while its chunk waits in the queue, and is ingested afterwards (`RepoSource.ts:87`) | `knowledge.cfg` with `Spec` |
| `EndedIsPruned` | abandoning a session emits no terminal signal, so the usage tap keeps its entry (`Orchestrator.ts:687`, against `UsageCollector.ts:26-27`) | `admission.cfg` |

What the models show besides, without a promise it breaks:

* a stop that arrives during the stop a start awaits first is lost, and a launch that is
  superseded while it makes room leaves its workspace behind;
* the knowledge sink unsubscribes at `done`, so what is said later is not ingested; the
  chunks of a file's older contents are not pruned when it changes; a file whose job was
  dead-lettered counts as seen;
* an outward write whose fate is unknown stays `executing` until a human looks;
  `session.ts:268` says "oldest dropped first" where the eviction looks at the status;
* a publish whose session was written meanwhile answers with an error and loses its record,
  after the deploy succeeded; nothing keeps two publishes of an owner apart;
* a Critic that fails removes the tap's entry while the session may be run again, and a
  restart forgets all entries, so what is spent afterwards is charged to nobody; a spec draft
  that does not parse is not charged.

## 5. What is proved

Each theorem holds for every value of the constants that the assumptions allow: any
number of clients, requests, sessions, launches, loops, publishes, restarts and lost
connections, any limits. The argument is the same throughout. A property says what
must never be seen; it is rarely kept by a step on its own account, since the
code works through steps with other handlers in between. So the module states an
inductive invariant, in named parts, of what each handler relies on while it waits;
its proof has one step per action, and under it one per part the action can disturb.
The invariants were checked with TLC before they were proved.

### OrchestratorProofs

Assumptions: `ProcsDisjoint`, `NoneIsFresh`, `BoundsAreNat`.

| Theorem | States | Inductive invariant, and why the property alone does not do |
|---|---|---|
| `TypeCorrect` | `TypeOK` | `TypeInv`: a handler at `read` or `write` carries a patch, else `WriteFresh` has no successor to type |
| `PushGateIsEarned`, `PushIsVerified` | `GateNeedsToken`, `OnlyVerifiedIsPushed` | `GateInv`: token, status, push approval and push are four steps. Whoever is about to show the gate or to push (`NeedsToken`) does so over a row whose token was earned; whoever records a token or pushes (`NeedsPass`) holds files that passed. Both are stable, since nothing un-passes |
| `GuardsNeverLeak` | `GuardsAreHeld` | `GuardInv`: a guard is released by what its handler remembers, so the memory is tied to where the handler is (`Placed`, `KickPlaced`), no two remember the same guard (`Exclusive`), and each guard taken is remembered (`Accounted`) |
| `CodeIsApproved`, `CancelIsFinal` | `CodeNeedsApproval`, `CancelledIsFinal` | `Sound`: what the optimistic lock buys. No handler holds a version the row has not reached; one that holds the row's own version still knows what it read (`KnowsRow`); a build goes on only over an approved spec, and the first spec is written at version 0 or never, so no spec changes under an approval |
| `GatesAreImplemented` | `ImplementsGates` | the refinement: under the invariants above each step of a handler is one step of `TrustGates` or a stutter, with one case per action |
| `GateKeepsItsCode`, `OneFileSetIsPushed`, `DeliveredIsFinal`, `PinIsKept` | `GateMatchesCode`, `OneArtifact`, `DoneIsFinal`, `DeliveryIsPinned`, each of `Spec /\ []BuildsApart` | `Aligned`: a builder works before the gate and before any push, what it verifies is what the row holds, and its delivery is the row's; a confirmation under way has the row's files, and derives a destination only when the row has none; builders and confirmations never meet |
| `OnlyRecoveriesOverlap` | without workflows, `[]RecoveriesApart => []BuildsApart` | `Phased`: a run builds on a row that is building (or failed, or was cancelled, under it), a recovery on one that a run left behind; who opens, reopens or gives up a build at the row's own version knows which |
| `OneClientDelivers` | the four properties above, for one client, without workflows | the same, and that only clients recover |

`BuildsApart` (no two handlers build the session at once) is a hypothesis on the
behaviour and not a fact about the code: nothing keeps two recoveries of a session
apart, and section 4 shows what happens when they meet. The theorems say that this is
all that can go wrong: any number of confirmations, cancels, retries, chat turns and
restarts are harmless. `OneClientDelivers` needs no such hypothesis; it is the general
form of the run `recovery`.

### The other modules

| Module and theorem | States | Inductive invariant |
|---|---|---|
| **ExternalWritesProofs** `SentAtMostOnce`, `OnlyConfirmedIsSent` | `AtMostOnce`, `SentWasConfirmed` | `IInv`: that a record was sent at most once follows from its status only while nobody is about to send it, so `HandlersAgree` says what status the record of each handler has, and what a request that read the current row saw; `OwnersDiffer`: no two handlers own one record |
| `WritesTyped`, `NoneInFlightIsLost` | `TypeOK`, `InFlightIsKept` | `RowInv`: the row keeps to its cap, and the in-flight set is exactly the confirmations past its check; `Forward`: a step moves a record on, never back |
| **PreviewRegistryProofs** `NoChildEscapes`, `LiveEntriesAreOwned` | `ChildrenAreTracked`, `LiveIsOwned` | `Placed`: where a launch that still owns its session stands and what the entry, the port and the child then are (`LaunchHolds`); one owner per session (`PairHolds`); what an entry without a launch is (`SessionHolds`) |
| `CapIsKept` | `CapHolds` | `CapHolds` itself, given `Placed`: no step makes an entry count that did not, but the one that finds room and registers in the same step (`CapStep`) |
| `ReadyServesShipped` | `ServesShipped` | `Serving`: a start that has read its files holds what last shipped unless a `done` is remembered, and a preview that is behind has such a start, or the `done`, to come |
| **McpSessionsProofs** `CountsAreUsers`, `UsedStaysUp`, `NoneIsOrphaned` | counts, `UsedIsUp`, `NoOrphan` | `Bookkept`, until the pool is closed: a pooled transport counts its users, one that is up is pooled, an idle timer runs for one without users only |
| `PoolTyped` | `TypeOK` | `Limits`, in every phase: once `closeAll` has run, a loop releases entries it never joined, so a count may be negative; strays, users and loops of other scopes still bound it |
| **PublishProofs** `PublishTyped` | `TypeOK` | `Typed` |
| `FilesArePublished`, `StaticIsPublished` | `FilesAreTheBuilds`, `StaticIsServed` | `Deployed`: an undisturbed publish is alone; unless its clear was passed over, no clear runs late and its directory is as its own steps left it, whatever late stops and starts do (`JobHolds`); what runs, waits or is being started serves a directory published with its port (`RootsHold`); with static sites only, no supervisor runs and no pid file names a process, so that a port once answered stays so but for a crash (`StaticHolds`) |
| **KnowledgeProofs** `EngineTyped`, `NoJobIsLost`, `TableFollowsIndexes`, `CleanExitIsDurable` | `TypeOK`, `JobsAreAccounted`, `StoresAgree`, `DrainedIsDurable` | `Sound`: types, the balance of jobs, `Agreed` (the last pending write of a chunk says what the indexes do) and `DrainHolds`: each chunk given in time is in the indexes, waiting or under way (`InHand`), and once the server's own queue is drained, a write the flush waits for makes its row and no later one takes it away (`Written`), though another engine's pump runs on and writes to the same rows |
| **EventStreamProofs** `FramesComeInOrder`, `GapsAreAnnounced`, `QuietIsComplete` | `StreamIsOrdered`, `NoSilentGap`, `ViewIsComplete` | `StreamInv`: the buffer is a run of consecutive numbers that ends at the head (`Buffered`), the socket one that begins after the cursor and that only a reset interrupts (`Wired`), and an event of the buffer the cursor has passed is in the view or in an answer under way, unless a re-sync is still to come or was given up (`Covered`). Of `Spec`, that is without restarts |
| **AdmissionProofs** `StartsAreBounded`, `TheDryStop` | `OverAdmissionIsBounded`, `QuotaStops` | `Admits`: the active runs and the starts let through together exceed the cap by at most those that raced (`CapInv`); an owner who is dry has no agent out, and what they still ask will be refused (`DryInv`) |
| `LedgerIsKept` | `LedgerIsHonest` | `Accounts`: the row's total is what landed, its window what landed since it opened, and both with what is under way stay between what is due and what was spent (`BooksHold`); until a restart the tap knows every session whose work is to be charged (`TapHolds`) |

Assumptions: `ContentsAssumption`, `WritesBounds`, `PreviewAssumption`, `McpAssumption`,
`PublishAssumption`, `KnowledgeAssumption`, `CapPositive`, `StreamBoundsAreNat`,
`AdmissionAssumption`. They ask for distinct kinds of values, for limits that are
natural numbers and, where something is counted, for finite sets: a process that runs
has served finitely many requests. TLC evaluates every assumption in the runs.

One attempt failed for a good reason. `LedgerIsHonest` said that a row's window is
exactly what landed since it opened; but a charge may land at the very instant at which
a later one opens the next window, and it belongs to the window before. The bounds of the
run are too small to show this. The property now allows for it; the code loses nothing by
it, since the total counts every charge.

### Only model-checked

* Liveness: `KickedRunSettles`, `HandlersReturn`, `Converges`, `IdleIsReaped`,
  `QueueDrains`. Fairness and ENABLED are out of the prover's reach.
* `GateMatchesCode`, `OneArtifact`, `DeliveryIsPinned` and `DoneIsFinal` with two clients
  and with workflows are proved under `BuildsApart` only, and do not hold without it.
* `EventStream` with restarts, where its properties fail (section 4).

## 6. What is not modelled

Prompts, model answers' contents, parsing, validation rules, SQL, HTTP status
codes, event wording, cryptography, mail, analytics and rendering carry no state
the properties tell apart. The cap of six manual reconnects in a row and the
browser's banners are left out of `EventStream`; chunking, exclusion of secrets and
ranking out of `Knowledge`; the HTTP transport out of `McpSessions`; the URL probe out of
`Publish`; the in-memory rate limiter out of `Admission`. Accounts, OAuth and reset
tokens, the LLM providers, the passport, and React's views are not modelled: single
calls without interleaving state, or rendering.

`Publish` keeps some things simple. No target directory contains another or is the login
directory (there the pid files of the launchers would be found). Another host is another
directory and another port. A process ends at once when it is killed, and its pid is not
given to another while a pid file names it. The `run.sh` an overlapping publish writes for
another port is not told apart from one's own. What the clear keeps on purpose (`app.db`,
pid files, logs) does not count as a build's file.

## 7. Plan

1. `Orchestrator`, `TrustGates`, `OrchestratorProofs`, `EventStream` - done.
2. `ExternalWrites` and its proofs, `PreviewRegistry`, `Shutdown` with `McpSessions` and
   `Knowledge`, `Publish`, `Admission` - done.
3. Pure algorithms as operators against a reference definition: `mergeFiles`,
   reciprocal rank fusion, delivery slugs.
4. OAuth state and reset tokens; the flags of the browser's view (`useLiveChat`).

Every safety property and action property that a passing run checks is stated by a
theorem. Proofs to come: that a workflow which stays bound overlaps with nothing either,
so that `OneClientDelivers` need not exclude workflows; what a restart leaves true of
`EventStream`; for `Publish`, that the verdict a session's row keeps is of a publish that
was made; and for `Admission`, a bound on what a window of tokens can be overspent by.
