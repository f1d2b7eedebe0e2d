----------------------------- MODULE Knowledge -----------------------------
(***************************************************************************)
(* The knowledge engine (backend/src/knowledge): the sources that feed it, *)
(* the ingest queue, the two indexes it keeps in memory and the table of   *)
(* vector_chunks they are written through to, with the restarts and the    *)
(* graceful shutdown of the server around them.                            *)
(*                                                                         *)
(* An engine is what one buildServices makes: the sources, the queue and   *)
(* its pump.  The server has one, and one more for each workflow that runs *)
(* with retrieval; with a database they share the indexes and the table.   *)
(*                                                                         *)
(* One session of one user.  A chunk is the source it was cut from and its *)
(* text; a source is a file of the session's repository or its             *)
(* conversation.  Every file is one chunk.  What is excluded as a secret   *)
(* never reaches the queue and is left out, and so is the ranking.         *)
(***************************************************************************)
EXTENDS Shutdown, FiniteSets, SequencesExt

CONSTANTS
  Engines,      \* those the session's requests may reach
  Default,      \* the one of the server's own services
  Files,
  Contents,     \* the contents a file may have
  Absent,       \* no engine; the content of a file the repository does not have
  Texts,        \* bound: what is said in the session, each once
  MaxRetries,   \* the retries of a job (3)
  MaxDead,      \* the dead letters kept (100)
  MaxPushes,    \* bound: commits to the session's repository
  MaxBoots      \* bound: restarts of the server

ASSUME KnowledgeAssumption ==
  /\ Default \in Engines /\ Absent \notin Engines
  /\ Absent \notin Contents /\ Files \cap Texts = {} /\ IsFiniteSet(Files)
  /\ MaxRetries \in Nat /\ MaxDead \in Nat /\ MaxPushes \in Nat /\ MaxBoots \in Nat

Chunks == (Files \X Contents) \cup {<<t, t>> : t \in Texts}
Repos == [Files -> Contents \cup {Absent}]
NoPass == [f \in Files |-> Absent]

VARIABLES
  repo,         \* the session's repository at its head
  seen,         \* each engine's RepoSource: the files of its last pass
  listening,    \* the engine whose sink hears the session's events
  queue,        \* each engine's jobs that wait, a chunk each
  job,          \* its job under way: its chunk, its step and its retries
  metrics,      \* its queue's counters
  dead,         \* its dead letters
  vectors,      \* the vector index
  bm25,         \* the lexical index
  writes,       \* the write-through chain
  db,           \* the rows of vector_chunks
  flushing,     \* the writes the shutdown's flush still waits for
  pushes, said, boots,
  enqueued,     \* history: the jobs each engine was given in this process
  early,        \* history: the chunks it was given before the signal, neither dead nor pruned
  unsaved       \* history: chunks whose last write failed

memory == <<seen, listening, queue, job, metrics, dead, vectors, bm25, writes>>
world == <<repo, pushes, said, boots>>
history == <<enqueued, early, unsaved>>
vars == <<phase, exit, memory, db, flushing, world, history>>

Idle == [chunk |-> <<>>, step |-> "none", tries |-> 0]
Zero == [ingested |-> 0, deadLettered |-> 0]
All(x) == [e \in Engines |-> x]

\* The memory of a process that starts: the indexes are those of the table.
Booted(rows) ==
  /\ seen' = All(NoPass) /\ listening' = Absent
  /\ queue' = All(<<>>) /\ job' = All(Idle) /\ metrics' = All(Zero) /\ dead' = All(<<>>)
  /\ vectors' = rows /\ bm25' = rows /\ writes' = <<>>

Init ==
  /\ ShutdownInit
  /\ repo = NoPass /\ seen = All(NoPass) /\ listening \in Engines
  /\ queue = All(<<>>) /\ job = All(Idle) /\ metrics = All(Zero) /\ dead = All(<<>>)
  /\ vectors = {} /\ bm25 = {} /\ writes = <<>> /\ db = {} /\ flushing = 0
  /\ pushes = 0 /\ said = {} /\ boots = 0
  /\ enqueued = All(0) /\ early = All({}) /\ unsaved = {}

-----------------------------------------------------------------------------
(* The sources                                                             *)

Of(fs) == {c \in Chunks : c[1] \in fs}

Enqueue(e, chunks) ==
  /\ queue' = [queue EXCEPT ![e] = @ \o SetToSeq(chunks)]
  /\ enqueued' = [enqueued EXCEPT ![e] = @ + Cardinality(chunks)]

\* What an engine is given before the signal, it is given in time.
Given(e, chunks) ==
  IF phase = "serving" THEN [early EXCEPT ![e] = @ \cup chunks] ELSE early

\* A build pushes other files to the session's repository.
Push ==
  /\ pushes < MaxPushes /\ pushes' = pushes + 1
  /\ \E r \in Repos : r # repo /\ repo' = r
  /\ Alive /\ UNCHANGED <<memory, db, flushing, said, boots, history>>

\* RepoSource.ingest, after a push or on request: the files that changed since the last
\* pass are enqueued, and the chunks of those that are gone are deleted.
Pass(e) ==
  LET changed == {f \in Files : repo[f] \notin {Absent, seen[e][f]}}
      gone == {f \in Files : repo[f] = Absent /\ seen[e][f] # Absent}
      pruned == vectors \cap Of(gone)
      new == {<<f, repo[f]>> : f \in changed}
  IN
  /\ repo # seen[e]
  /\ seen' = [seen EXCEPT ![e] = repo]
  /\ Enqueue(e, new)
  /\ vectors' = vectors \ pruned /\ bm25' = bm25 \ pruned
  /\ writes' = IF pruned = {} THEN writes ELSE Append(writes, [op |-> "delete", rows |-> pruned])
  /\ early' = [o \in Engines |-> Given(e, new)[o] \ pruned]
  /\ Alive /\ UNCHANGED <<listening, job, metrics, dead, db, flushing, world, unsaved>>

\* A text that is not ephemeral is emitted, and ingested by the engine that hears it.
Say(t) ==
  /\ t \notin said /\ said' = said \cup {t}
  /\ IF listening \in Engines
     THEN Enqueue(listening, {<<t, t>>}) /\ early' = Given(listening, {<<t, t>>})
     ELSE UNCHANGED <<queue, enqueued, early>>
  /\ Alive
  /\ UNCHANGED <<seen, listening, job, metrics, dead, vectors, bm25, writes, db, flushing,
                 repo, pushes, boots, unsaved>>

\* The session is done, failed or cancelled: the sink unsubscribes.
Terminal ==
  /\ listening # Absent /\ listening' = Absent
  /\ Alive
  /\ UNCHANGED <<seen, queue, job, metrics, dead, vectors, bm25, writes, db, flushing, world,
                 history>>

-----------------------------------------------------------------------------
(* The queue                                                               *)

stores == <<vectors, bm25, writes>>
quiet == <<seen, listening, db, flushing, world, enqueued, unsaved>>

Goes(e, step) == job' = [job EXCEPT ![e].step = step]

Settle(e, outcome) ==
  /\ job' = [job EXCEPT ![e] = Idle]
  /\ metrics' = [metrics EXCEPT ![e][outcome] = @ + 1]

\* The pump takes the next job, one at a time.
Take(e) ==
  /\ job[e] = Idle /\ queue[e] # <<>>
  /\ job' = [job EXCEPT ![e] = [chunk |-> Head(queue[e]), step |-> "run", tries |-> 0]]
  /\ queue' = [queue EXCEPT ![e] = Tail(@)]
  /\ Alive /\ UNCHANGED <<metrics, dead, early, stores, quiet>>

\* An attempt: a chunk the store has already is done with, another is embedded.
Attempt(e) ==
  /\ job[e].step = "run"
  /\ IF job[e].chunk \in vectors
     THEN Settle(e, "ingested")
     ELSE Goes(e, "embed") /\ UNCHANGED metrics
  /\ Alive /\ UNCHANGED <<queue, dead, early, stores, quiet>>

\* The chunk enters both indexes, and its row is written behind them.
Embedded(e) ==
  /\ job[e].step = "embed"
  /\ vectors' = vectors \cup {job[e].chunk} /\ bm25' = bm25 \cup {job[e].chunk}
  /\ writes' = Append(writes, [op |-> "upsert", rows |-> {job[e].chunk}])
  /\ Settle(e, "ingested")
  /\ Alive /\ UNCHANGED <<queue, dead, early, quiet>>

\* The attempt is to be made again after a while...
Again(e) ==
  /\ job[e].tries < MaxRetries
  /\ job' = [job EXCEPT ![e].step = "backoff", ![e].tries = @ + 1]
  /\ UNCHANGED <<metrics, dead, early>>

\* ...or was the last, and the job becomes a dead letter.
Dies(e) ==
  /\ job[e].tries >= MaxRetries
  /\ Settle(e, "deadLettered")
  /\ early' = [early EXCEPT ![e] = @ \ {job[e].chunk}]

\* Mutant: a job out of retries is dropped.
EmbedFailsDropping(e) ==
  /\ job[e].step = "embed"
  /\ \/ Again(e)
     \/ /\ job[e].tries >= MaxRetries /\ job' = [job EXCEPT ![e] = Idle]
        /\ UNCHANGED <<metrics, dead, early>>
  /\ Alive /\ UNCHANGED <<queue, stores, quiet>>

\* Mutant: a retry does not count.
EmbedFailsForever(e) ==
  /\ job[e].step = "embed" /\ Goes(e, "backoff")
  /\ Alive /\ UNCHANGED <<queue, metrics, dead, early, stores, quiet>>

\* Mutant: the dead letters are not trimmed.
EmbedFailsUntrimmed(e) ==
  /\ job[e].step = "embed"
  /\ Again(e) \/ (Dies(e) /\ dead' = [dead EXCEPT ![e] = Append(@, job[e].chunk)])
  /\ Alive /\ UNCHANGED <<queue, stores, quiet>>

\* The attempt failed.  Of the dead letters the last ones are kept.
EmbedFails(e) ==
  /\ job[e].step = "embed"
  /\ \/ Again(e)
     \/ /\ Dies(e)
        /\ LET all == Append(dead[e], job[e].chunk) IN
           dead' = [dead EXCEPT ![e] = IF Len(all) > MaxDead THEN Tail(all) ELSE all]
  /\ Alive /\ UNCHANGED <<queue, stores, quiet>>

Retry(e) ==
  /\ job[e].step = "backoff" /\ Goes(e, "run")
  /\ Alive /\ UNCHANGED <<queue, metrics, dead, early, stores, quiet>>

-----------------------------------------------------------------------------
(* The table                                                               *)

Applied(rows, w) == IF w.op = "upsert" THEN rows \cup w.rows ELSE rows \ w.rows

\* The next write of the chain is made, or fails and is only logged: once the pool is
\* closed every one does.
Write ==
  /\ writes # <<>>
  /\ \/ /\ phase # "pool"
        /\ db' = Applied(db, Head(writes)) /\ unsaved' = unsaved \ Head(writes).rows
     \/ UNCHANGED db /\ unsaved' = unsaved \cup Head(writes).rows
  /\ writes' = Tail(writes)
  /\ flushing' = IF flushing > 0 THEN flushing - 1 ELSE 0
  /\ Alive
  /\ UNCHANGED <<seen, listening, queue, job, metrics, dead, vectors, bm25, world, enqueued, early>>

\* Mutant: the drain does not wait for the job under way.
DrainQueued ==
  /\ CloseStep("drain") /\ queue[Default] = <<>>
  /\ flushing' = Len(writes)
  /\ UNCHANGED <<memory, db, world, history>>

\* The drain is over when the queue of the server's own services is idle, whatever the
\* others hold; the flush then waits for the writes issued so far.
Drain ==
  /\ CloseStep("drain") /\ queue[Default] = <<>> /\ job[Default] = Idle
  /\ flushing' = Len(writes)
  /\ UNCHANGED <<memory, db, world, history>>

Flushed ==
  /\ CloseStep("flush") /\ flushing = 0
  /\ UNCHANGED <<memory, db, flushing, world, history>>

\* The steps of the shutdown the engine takes no part in.
ShutdownStep ==
  /\ \/ Signal \/ ForceExit
     \/ \E p \in Phases \ {"drain", "flush"} : CloseStep(p)
  /\ UNCHANGED <<memory, db, flushing, world, history>>

\* The process dies.
Crash ==
  /\ phase = "serving" /\ boots < MaxBoots
  /\ phase' = "exited" /\ UNCHANGED <<exit, memory, db, flushing, world, history>>

\* Mutant: the lexical index starts empty.
BootWithoutBm25 ==
  /\ phase = "exited" /\ boots < MaxBoots
  /\ phase' = "serving" /\ exit' = "none" /\ boots' = boots + 1
  /\ seen' = All(NoPass) /\ listening' = Absent
  /\ queue' = All(<<>>) /\ job' = All(Idle) /\ metrics' = All(Zero) /\ dead' = All(<<>>)
  /\ vectors' = db /\ bm25' = {} /\ writes' = <<>>
  /\ flushing' = 0 /\ enqueued' = All(0) /\ early' = All({}) /\ unsaved' = {}
  /\ UNCHANGED <<db, repo, pushes, said>>

\* A new process: the indexes are rebuilt from the table, and what the sources knew and
\* the jobs are gone.  No sink hears a session of before.
Boot ==
  /\ phase = "exited" /\ boots < MaxBoots
  /\ phase' = "serving" /\ exit' = "none" /\ boots' = boots + 1
  /\ Booted(db)
  /\ flushing' = 0 /\ enqueued' = All(0) /\ early' = All({}) /\ unsaved' = {}
  /\ UNCHANGED <<db, repo, pushes, said>>

-----------------------------------------------------------------------------

Next ==
  \/ Push \/ Terminal
  \/ \E t \in Texts : Say(t)
  \/ \E e \in Engines : \/ Pass(e) \/ Take(e) \/ Attempt(e) \/ Embedded(e)
                        \/ EmbedFails(e) \/ Retry(e)
  \/ Write \/ Drain \/ Flushed \/ ShutdownStep
  \/ Crash \/ Boot

Spec == Init /\ [][Next]_vars

\* A pump runs on, and every await of a job ends, well or not.
Pump(e) == Take(e) \/ Attempt(e) \/ Embedded(e) \/ EmbedFails(e) \/ Retry(e)
FairSpec == Spec /\ \A e \in Engines : WF_vars(Pump(e))

-----------------------------------------------------------------------------
(* Properties                                                              *)

Pending(e) == Len(queue[e]) + (IF job[e] = Idle THEN 0 ELSE 1)

\* Every variable keeps its type; the dead letters stay within their ring.
TypeOK ==
  /\ ShutdownTypeOK
  /\ repo \in Repos /\ seen \in [Engines -> Repos] /\ listening \in Engines \cup {Absent}
  /\ queue \in [Engines -> Seq(Chunks)]
  /\ dead \in [Engines -> Seq(Chunks)] /\ \A e \in Engines : Len(dead[e]) <= MaxDead
  /\ job \in [Engines -> [chunk : Chunks \cup {<<>>},
                          step : {"none", "run", "embed", "backoff"}, tries : 0..MaxRetries]]
  /\ metrics \in [Engines -> [ingested : Nat, deadLettered : Nat]]
  /\ vectors \subseteq Chunks /\ bm25 \subseteq Chunks /\ db \subseteq Chunks
  /\ writes \in Seq([op : {"upsert", "delete"}, rows : SUBSET Chunks])
  /\ flushing \in 0..Len(writes)
  /\ pushes \in 0..MaxPushes /\ said \subseteq Texts /\ boots \in 0..MaxBoots
  /\ enqueued \in [Engines -> Nat] /\ early \in [Engines -> SUBSET Chunks]
  /\ unsaved \subseteq Chunks

\* No job is lost and none is run twice: what an engine was given is waiting, under way,
\* ingested, or counted as dead-lettered.
JobsAreAccounted ==
  \A e \in Engines :
    enqueued[e] = metrics[e].ingested + metrics[e].deadLettered + Pending(e)

\* The last write of the chain that is of a chunk decides its row.
LastOf(c, n) ==
  c \in writes[n].rows /\ \A m \in (n + 1)..Len(writes) : c \notin writes[m].rows

\* The two halves of hybrid retrieval hold the same chunks, and the table, once the
\* writes under way are made, holds them too, but for writes that failed: across prunes,
\* retries, restarts and engines.  A failed write is made good by the next of its chunk.
StoresAgree ==
  phase # "exited" =>
    /\ vectors = bm25
    /\ \A c \in Chunks :
         /\ \A n \in 1..Len(writes) :
              LastOf(c, n) => (writes[n].op = "upsert" <=> c \in vectors)
         /\ (\A n \in 1..Len(writes) : c \notin writes[n].rows) =>
              c \in unsaved \/ (c \in db <=> c \in vectors)

\* A clean shutdown has written what the server's own services were given before the
\* signal, but for dead letters, files removed since and writes that failed; whatever the
\* other engines, which it does not wait for, do to the same indexes and the same table.
DrainedIsDurable == exit = "clean" => early[Default] \subseteq db \cup unsaved

\* A clean shutdown has written what was enqueued before the signal, in whatever queue.
AllIsDurable == exit = "clean" => \A e \in Engines : early[e] \subseteq db \cup unsaved

\* No job is tried for ever: the queues run empty, all of them, again and again, as long as
\* the process runs.
QueueDrains == []<>(phase = "exited" \/ \A e \in Engines : Pending(e) = 0)

\* After a pass, and once the queues are idle, no chunk of a file that is gone from the
\* repository is left to ground on.
RemovedIsForgotten ==
  phase = "serving" /\ boots = 0 /\ (\A e \in Engines : repo = seen[e] /\ Pending(e) = 0) =>
    \A c \in vectors : c[1] \in Files => repo[c[1]] # Absent

=============================================================================
