--------------------------- MODULE KnowledgeProofs ---------------------------
(***************************************************************************)
(* That no job of the ingest queue is lost or run twice, that the two      *)
(* indexes and the table agree, and that a clean shutdown leaves nothing   *)
(* unwritten of what the server's own engine was given, for any number of  *)
(* engines, files, contents, texts, pushes, retries and restarts.          *)
(***************************************************************************)
EXTENDS Knowledge, FiniteSetTheorems, SequenceTheorems, TLAPS

\* A job under way has its chunk.
JobHolds ==
  \A e \in Engines : /\ job[e].step = "none" => job[e] = Idle
                     /\ job[e].step # "none" => job[e].chunk \in Chunks

Typed == TypeOK /\ JobHolds

Agreed ==
  /\ vectors = bm25
  /\ \A c \in Chunks :
       /\ \A n \in 1..Len(writes) :
            LastOf(c, n) => (writes[n].op = "upsert" <=> c \in vectors)
       /\ (\A n \in 1..Len(writes) : c \notin writes[n].rows) =>
            c \in unsaved \/ (c \in db <=> c \in vectors)

\* The drain is behind the process, and was not cut short.
Drained == phase \in {"flush", "pool"} \/ exit = "clean"

\* A chunk an engine was given is in the indexes, waiting or under way.
Waits(e, c) == \E n \in 1..Len(queue[e]) : queue[e][n] = c
InHand(e, c) == c \in vectors \/ Waits(e, c) \/ (job[e] # Idle /\ job[e].chunk = c)

\* Of the writes the flush waits for, the last one that is of the chunk writes its row; if
\* none is, the row is there; and behind the flush it may be written again, never deleted.
Written(c) ==
  /\ \A n \in (flushing + 1)..Len(writes) : c \in writes[n].rows => writes[n].op = "upsert"
  /\ \A n \in 1..flushing :
       c \in writes[n].rows /\ (\A m \in (n + 1)..flushing : c \notin writes[m].rows) =>
         writes[n].op = "upsert"
  /\ (\A n \in 1..flushing : c \notin writes[n].rows) => c \in db \cup unsaved

DrainHolds ==
  /\ exit # "none" => phase = "exited"
  /\ phase = "pool" \/ exit = "clean" => flushing = 0
  /\ \A e \in Engines : \A c \in early[e] : InHand(e, c)
  /\ Drained => \A c \in early[Default] : Written(c)

-----------------------------------------------------------------------------
(* The close sequence                                                      *)

LEMMA Ranks ==
  ASSUME NEW n \in 1..8
  PROVE  Rank(CloseSequence[n]) = n
<1> DEFINE P(m) == m \in 1..8 /\ CloseSequence[m] = CloseSequence[n]
<1>1. Len(CloseSequence) = 8
  BY DEF CloseSequence
<1>2. \A m \in 1..8 : CloseSequence[m] = CloseSequence[n] => m = n
  BY DEF CloseSequence
<1>3. \E m \in 1..8 : CloseSequence[m] = CloseSequence[n]
  OBVIOUS
<1>4. Rank(CloseSequence[n]) = CHOOSE m \in 1..8 : CloseSequence[m] = CloseSequence[n]
  BY <1>1 DEF Rank
<1> QED
  BY <1>2, <1>3, <1>4

LEMMA ShutdownTypes ==
  ASSUME ShutdownTypeOK, Signal \/ ForceExit \/ \E p \in Phases : CloseStep(p)
  PROVE  ShutdownTypeOK'
<1>1. Len(CloseSequence) = 8
  BY DEF CloseSequence
<1>2. "http" \in Phases /\ "exited" \in Phases
  <2>1. CloseSequence[2] = "http" /\ CloseSequence[8] = "exited"
    BY DEF CloseSequence
  <2> QED
    BY <1>1, <2>1 DEF Phases
<1>3. CASE Signal \/ ForceExit
  BY <1>2, <1>3 DEF Signal, ForceExit, ShutdownTypeOK
<1>4. ASSUME NEW p \in Phases, CloseStep(p) PROVE ShutdownTypeOK'
  <2>1. PICK n \in 1..8 : p = CloseSequence[n]
    BY <1>1 DEF Phases
  <2>2. phase = p /\ phase' = CloseSequence[n + 1] /\ phase # "exited"
    BY <1>4, <2>1, Ranks DEF CloseStep, Draining
  <2>3. n + 1 \in 1..8
    BY <2>1, <2>2 DEF CloseSequence
  <2>4. exit' \in {"clean", exit}
    BY <1>4 DEF CloseStep
  <2> QED
    BY <1>1, <2>2, <2>3, <2>4 DEF ShutdownTypeOK, Phases
<1> QED
  BY <1>3, <1>4

\* Where a step of the sequence leads.
LEMMA ClosesTo ==
  ASSUME NEW p \in Phases, CloseStep(p), exit # "none" => phase = "exited"
  PROVE  /\ phase = p /\ exit = "none" /\ p \notin {"serving", "exited"}
         /\ phase' = "flush" <=> p = "drain"
         /\ phase' = "pool" <=> p = "flush"
         /\ phase' = "exited" <=> p = "pool"
         /\ exit' = IF p = "pool" THEN "clean" ELSE "none"
<1>1. Len(CloseSequence) = 8
  BY DEF CloseSequence
<1>2. PICK n \in 1..8 : p = CloseSequence[n]
  BY <1>1 DEF Phases
<1>3. phase = p /\ phase' = CloseSequence[n + 1] /\ p \notin {"serving", "exited"}
  BY <1>2, Ranks DEF CloseStep, Draining
<1>4. n \in 2..7
  BY <1>2, <1>3 DEF CloseSequence
<1>5. exit' = IF phase' = "exited" THEN "clean" ELSE exit
  BY DEF CloseStep
<1>6. phase' = "exited" <=> p = "pool"
  BY <1>2, <1>3, <1>4 DEF CloseSequence
<1>7. /\ phase' = "flush" <=> p = "drain"
      /\ phase' = "pool" <=> p = "flush"
  BY <1>2, <1>3, <1>4 DEF CloseSequence
<1> QED
  BY <1>3, <1>5, <1>6, <1>7

-----------------------------------------------------------------------------
(* Sequences                                                               *)

\* A finite set is enqueued whole, and each of its elements once.
LEMMA SetIsEnqueued ==
  ASSUME NEW S, IsFiniteSet(S)
  PROVE  /\ SetToSeq(S) \in Seq(S) /\ Len(SetToSeq(S)) = Cardinality(S)
         /\ Cardinality(S) \in Nat
         /\ \A c \in S : \E n \in 1..Cardinality(S) : SetToSeq(S)[n] = c
<1> DEFINE n == Cardinality(S)
           q == SetToSeq(S)
<1>1. n \in Nat /\ ExistsBijection(1..n, S)
  BY FS_CardinalityType
<1>2. \E f \in [1..n -> S] : IsInjective(f)
  BY <1>1 DEF ExistsBijection, Bijection, Injection
<1>3. q \in [1..n -> S] /\ IsInjective(q)
  BY <1>2 DEF SetToSeq
<1>4. q \in Injection(1..n, S)
  BY <1>3 DEF Injection
<1>5. IsFiniteSet(1..n) /\ Cardinality(1..n) = n
  BY <1>1, FS_Interval
<1> HIDE DEF q
<1>6. q \in Surjection(1..n, S)
  BY <1>4, <1>5, FS_Injection
<1>7. \A c \in S : \E m \in 1..n : q[m] = c
  BY <1>6 DEF Surjection
<1> HIDE DEF n
<1>8. q \in Seq(S) /\ Len(q) = n
  BY <1>1, <1>3
<1> QED
  BY <1>1, <1>7, <1>8 DEF n, q

\* What else the engines have is left alone.
Same(o) == /\ queue'[o] = queue[o] /\ job'[o] = job[o]
           /\ metrics'[o] = metrics[o] /\ enqueued'[o] = enqueued[o]

LEMMA QueueGrows ==
  ASSUME Typed, NEW e \in Engines, NEW S \in SUBSET Chunks, IsFiniteSet(S), Enqueue(e, S)
  PROVE  /\ queue' \in [Engines -> Seq(Chunks)] /\ enqueued' \in [Engines -> Nat]
         /\ Len(queue'[e]) = Len(queue[e]) + Cardinality(S)
         /\ Cardinality(S) \in Nat /\ enqueued'[e] = enqueued[e] + Cardinality(S)
         /\ \A o \in Engines \ {e} : queue'[o] = queue[o] /\ enqueued'[o] = enqueued[o]
         /\ \A o \in Engines, c \in Chunks : Waits(o, c) => Waits(o, c)'
         /\ \A c \in S : Waits(e, c)'
<1> DEFINE q == SetToSeq(S)
           k == Len(queue[e])
<1>1. /\ q \in Seq(S) /\ Len(q) = Cardinality(S) /\ Cardinality(S) \in Nat
      /\ \A c \in S : \E n \in 1..Len(q) : q[n] = c
  BY SetIsEnqueued
<1>2. /\ q \in Seq(Chunks) /\ queue[e] \in Seq(Chunks)
      /\ queue \in [Engines -> Seq(Chunks)] /\ enqueued \in [Engines -> Nat]
  BY <1>1, SeqMonotonic DEF Typed, TypeOK
<1>3. queue' = [queue EXCEPT ![e] = @ \o q]
      /\ enqueued' = [enqueued EXCEPT ![e] = @ + Cardinality(S)]
  BY DEF Enqueue
<1> HIDE DEF q
<1>4. /\ queue[e] \o q \in Seq(Chunks) /\ Len(queue[e] \o q) = k + Len(q)
      /\ \A n \in 1..(k + Len(q)) :
           (queue[e] \o q)[n] = IF n <= k THEN queue[e][n] ELSE q[n - k]
  BY <1>2, ConcatProperties
<1>5. k \in Nat /\ Len(q) \in Nat
  BY <1>2, LenProperties
<1>6. /\ queue' \in [Engines -> Seq(Chunks)] /\ enqueued' \in [Engines -> Nat]
      /\ queue'[e] = queue[e] \o q /\ enqueued'[e] = enqueued[e] + Cardinality(S)
      /\ \A o \in Engines \ {e} : queue'[o] = queue[o] /\ enqueued'[o] = enqueued[o]
  BY <1>1, <1>2, <1>3, <1>4
<1> HIDE DEF k
<1>7. ASSUME NEW o \in Engines, NEW c \in Chunks, Waits(o, c)
      PROVE  Waits(o, c)'
  <2>1. CASE o # e
    BY <1>6, <1>7, <2>1 DEF Waits
  <2>2. CASE o = e
    <3>1. PICK n \in 1..k : queue[e][n] = c
      BY <1>7, <2>2 DEF Waits, k
    <3>2. n \in 1..(k + Len(q)) /\ n <= k
      BY <1>5
    <3>3. queue'[e][n] = c
      BY <1>4, <1>6, <3>1, <3>2
    <3> QED
      BY <1>4, <1>6, <2>2, <3>2, <3>3 DEF Waits
  <2> QED
    BY <2>1, <2>2
<1>8. ASSUME NEW c \in S
      PROVE  Waits(e, c)'
  <2>1. PICK n \in 1..Len(q) : q[n] = c
    BY <1>1
  <2>2. n + k \in 1..(k + Len(q)) /\ ~(n + k <= k) /\ (n + k) - k = n
    BY <1>5
  <2>3. (queue[e] \o q)[n + k] = q[(n + k) - k]
    BY <1>4, <2>2
  <2> QED
    BY <1>4, <1>6, <2>1, <2>2, <2>3 DEF Waits
<1> QED
  BY <1>1, <1>4, <1>6, <1>7, <1>8 DEF k

Entries == [op : {"upsert", "delete"}, rows : SUBSET Chunks]

LEMMA ChainGrows ==
  ASSUME Typed, NEW w \in Entries, writes' = Append(writes, w)
  PROVE  /\ writes' \in Seq(Entries) /\ Len(writes') = Len(writes) + 1 /\ Len(writes) \in Nat
         /\ writes'[Len(writes) + 1] = w
         /\ \A n \in 1..Len(writes) : writes'[n] = writes[n]
<1>1. writes \in Seq(Entries)
  BY DEF Typed, TypeOK, Entries
<1> HIDE DEF Entries
<1> QED
  BY <1>1

LEMMA ChainShifts ==
  ASSUME Typed, writes # <<>>, writes' = Tail(writes)
  PROVE  /\ writes' \in Seq(Entries) /\ Len(writes') = Len(writes) - 1
         /\ Len(writes) \in Nat \ {0}
         /\ Head(writes) = writes[1] /\ writes[1] \in Entries
         /\ \A n \in 1..Len(writes') : writes'[n] = writes[n + 1]
<1>1. writes \in Seq(Entries)
  BY DEF Typed, TypeOK, Entries
<1> HIDE DEF Entries
<1>2. Len(writes) \in Nat \ {0}
  BY <1>1, EmptySeq
<1> QED
  BY <1>1, <1>2, HeadTailProperties

-----------------------------------------------------------------------------
(* Types                                                                   *)

LEMMA IdleJob ==
  /\ Idle.step = "none" /\ Idle.chunk = <<>> /\ Idle.tries = 0
  /\ \A j : j.step # "none" => j # Idle
BY DEF Idle

Jobs ==
  [chunk : Chunks \cup {<<>>}, step : {"none", "run", "embed", "backoff"}, tries : 0..MaxRetries]

Counters == [ingested : Nat, deadLettered : Nat]

LEMMA SettleTypes ==
  ASSUME Typed, NEW e \in Engines, NEW outcome \in {"ingested", "deadLettered"},
         Settle(e, outcome)
  PROVE  /\ job' \in [Engines -> Jobs] /\ JobHolds' /\ job'[e] = Idle
         /\ metrics' \in [Engines -> Counters]
         /\ metrics'[e].ingested + metrics'[e].deadLettered
              = metrics[e].ingested + metrics[e].deadLettered + 1
         /\ \A o \in Engines \ {e} : job'[o] = job[o] /\ metrics'[o] = metrics[o]
<1>1. /\ metrics \in [Engines -> Counters] /\ metrics[e] \in Counters
      /\ job \in [Engines -> Jobs] /\ MaxRetries \in Nat
  BY KnowledgeAssumption DEF Typed, TypeOK, Counters, Jobs
<1>2. /\ job' = [job EXCEPT ![e] = Idle]
      /\ metrics' = [metrics EXCEPT ![e][outcome] = @ + 1]
  BY DEF Settle
<1>3. Idle \in Jobs
  BY <1>1 DEF Idle, Jobs
<1> HIDE DEF Idle
<1>4. /\ job' \in [Engines -> Jobs] /\ job'[e] = Idle
      /\ \A o \in Engines \ {e} : job'[o] = job[o]
  BY <1>1, <1>2, <1>3
<1>5. JobHolds'
  BY <1>4, IdleJob DEF Typed, JobHolds
<1> DEFINE m == [metrics[e] EXCEPT ![outcome] = metrics[e][outcome] + 1]
<1>6. m \in Counters /\ m.ingested + m.deadLettered
                          = metrics[e].ingested + metrics[e].deadLettered + 1
  <2>1. CASE outcome = "ingested"
    BY <1>1, <2>1 DEF Counters
  <2>2. CASE outcome = "deadLettered"
    BY <1>1, <2>2 DEF Counters
  <2> QED
    BY <2>1, <2>2
<1>7. metrics' = [metrics EXCEPT ![e] = m]
  BY <1>2
<1> HIDE DEF m
<1>8. /\ metrics' \in [Engines -> Counters] /\ metrics'[e] = m
      /\ \A o \in Engines \ {e} : metrics'[o] = metrics[o]
  BY <1>1, <1>6, <1>7
<1> QED
  BY <1>4, <1>5, <1>6, <1>8

\* A job goes to another step with its chunk.
LEMMA JobGoes ==
  ASSUME Typed, NEW e \in Engines, job[e].step # "none",
         (\E step \in {"run", "embed", "backoff"} : Goes(e, step)) \/ Again(e)
  PROVE  /\ job' \in [Engines -> Jobs] /\ JobHolds' /\ job'[e].chunk = job[e].chunk
         /\ job[e] # Idle /\ job'[e] # Idle
         /\ \A o \in Engines \ {e} : job'[o] = job[o]
<1>1. /\ job \in [Engines -> Jobs] /\ job[e] \in Jobs /\ job[e].chunk \in Chunks
      /\ MaxRetries \in Nat
  BY KnowledgeAssumption DEF Typed, TypeOK, JobHolds, Jobs
<1>2. PICK j \in Jobs : /\ job' = [job EXCEPT ![e] = j] /\ j.chunk = job[e].chunk
                        /\ j.step # "none"
  <2>1. ASSUME NEW step \in {"run", "embed", "backoff"}, Goes(e, step)
        PROVE  \E j \in Jobs : /\ job' = [job EXCEPT ![e] = j] /\ j.chunk = job[e].chunk
                               /\ j.step # "none"
    <3> DEFINE j == [job[e] EXCEPT !.step = step]
    <3>1. j \in Jobs /\ j.chunk = job[e].chunk /\ j.step # "none"
      BY <1>1 DEF Jobs
    <3>2. job' = [job EXCEPT ![e] = j]
      BY <2>1 DEF Goes
    <3> QED
      BY <3>1, <3>2
  <2>2. CASE Again(e)
    <3> DEFINE j == [job[e] EXCEPT !.step = "backoff", !.tries = @ + 1]
    <3>1. job[e].tries + 1 \in 0..MaxRetries
      BY <1>1, <2>2 DEF Again, Jobs
    <3>2. j \in Jobs /\ j.chunk = job[e].chunk /\ j.step # "none"
      BY <1>1, <3>1 DEF Jobs
    <3>3. job' = [job EXCEPT ![e] = j]
      BY <2>2 DEF Again
    <3> QED
      BY <3>2, <3>3
  <2> QED
    BY <2>1, <2>2
<1>3. /\ job' \in [Engines -> Jobs] /\ job'[e] = j
      /\ \A o \in Engines \ {e} : job'[o] = job[o]
  BY <1>1, <1>2
<1>4. JobHolds'
  BY <1>1, <1>2, <1>3 DEF Typed, JobHolds
<1> QED
  BY <1>1, <1>2, <1>3, <1>4, IdleJob

\* The dead letters stay within their ring.
LEMMA DiesTypes ==
  ASSUME Typed, NEW e \in Engines, EmbedFails(e), Dies(e)
  PROVE  /\ dead' \in [Engines -> Seq(Chunks)]
         /\ \A o \in Engines : Len(dead'[o]) <= MaxDead
<1>1. /\ MaxDead \in Nat /\ dead \in [Engines -> Seq(Chunks)] /\ dead[e] \in Seq(Chunks)
      /\ \A o \in Engines : Len(dead[o]) <= MaxDead
  BY KnowledgeAssumption DEF Typed, TypeOK
<1> DEFINE all == Append(dead[e], job[e].chunk)
<1>2. job[e].step = "embed" /\ job[e].chunk \in Chunks
  BY DEF EmbedFails, Typed, JobHolds
<1>3. all \in Seq(Chunks) /\ Len(all) = Len(dead[e]) + 1 /\ all # <<>> /\ Len(dead[e]) \in Nat
  <2> HIDE DEF Chunks
  <2> QED
    BY <1>1, <1>2
<1>4. Tail(all) \in Seq(Chunks) /\ Len(Tail(all)) = Len(all) - 1
  <2> HIDE DEF all
  <2> QED
    BY <1>3, HeadTailProperties
<1>5. \/ UNCHANGED dead
      \/ dead' = [dead EXCEPT ![e] = IF Len(all) > MaxDead THEN Tail(all) ELSE all]
  BY DEF EmbedFails, Again
<1> DEFINE kept == IF Len(all) > MaxDead THEN Tail(all) ELSE all
<1> HIDE DEF all
<1>6. kept \in Seq(Chunks) /\ Len(kept) <= MaxDead
  BY <1>1, <1>3, <1>4
<1>7. dead' = dead \/ dead' = [dead EXCEPT ![e] = kept]
  BY <1>5
<1> HIDE DEF kept, Chunks
<1> QED
  BY <1>1, <1>6, <1>7

\* The parts of the type invariant that the steps disturb together.
Stored ==
  /\ vectors \subseteq Chunks /\ bm25 \subseteq Chunks /\ db \subseteq Chunks
  /\ writes \in Seq(Entries) /\ flushing \in 0..Len(writes)
  /\ early \in [Engines -> SUBSET Chunks] /\ unsaved \subseteq Chunks
Queued ==
  /\ queue \in [Engines -> Seq(Chunks)] /\ job \in [Engines -> Jobs]
  /\ dead \in [Engines -> Seq(Chunks)] /\ \A o \in Engines : Len(dead[o]) <= MaxDead
  /\ metrics \in [Engines -> Counters] /\ enqueued \in [Engines -> Nat]
Sourced ==
  /\ repo \in Repos /\ seen \in [Engines -> Repos] /\ listening \in Engines \cup {Absent}
  /\ pushes \in 0..MaxPushes /\ said \subseteq Texts /\ boots \in 0..MaxBoots

LEMMA TypesSplit == TypeOK <=> ShutdownTypeOK /\ Stored /\ Queued /\ Sourced
BY DEF TypeOK, Stored, Queued, Sourced, Entries, Jobs, Counters

LEMMA TypesSplitNext == TypeOK' <=> ShutdownTypeOK' /\ Stored' /\ Queued' /\ Sourced'
BY DEF TypeOK, Stored, Queued, Sourced, Entries, Jobs, Counters, ShutdownTypeOK

\* Only a process that serves is given chunks in time.
LEMMA GivenTypes ==
  ASSUME Stored, NEW e \in Engines, NEW S \in SUBSET Chunks
  PROVE  /\ Given(e, S) \in [Engines -> SUBSET Chunks]
         /\ \A o \in Engines, c \in Chunks :
              c \in Given(e, S)[o] =>
                c \in early[o] \/ (phase = "serving" /\ o = e /\ c \in S)
<1>1. early \in [Engines -> SUBSET Chunks] /\ early[e] \cup S \in SUBSET Chunks
  BY DEF Stored
<1> HIDE DEF Chunks
<1> QED
  BY <1>1 DEF Given

LEMMA PassMoves ==
  ASSUME Typed, NEW e \in Engines, Pass(e)
  PROVE  \E new, pruned \in SUBSET Chunks :
           /\ IsFiniteSet(new) /\ Enqueue(e, new) /\ pruned \subseteq vectors
           /\ vectors' = vectors \ pruned /\ bm25' = bm25 \ pruned
           /\ writes' = IF pruned = {} THEN writes
                        ELSE Append(writes, [op |-> "delete", rows |-> pruned])
           /\ early' \in [Engines -> SUBSET Chunks]
           /\ \A o \in Engines, c \in Chunks :
                c \in early'[o] =>
                  /\ c \notin pruned
                  /\ c \in early[o] \/ (phase = "serving" /\ o = e /\ c \in new)
           /\ seen' \in [Engines -> Repos]
<1> DEFINE changed == {f \in Files : repo[f] \notin {Absent, seen[e][f]}}
           gone == {f \in Files : repo[f] = Absent /\ seen[e][f] # Absent}
           pruned == vectors \cap Of(gone)
           new == {<<f, repo[f]>> : f \in changed}
<1>1. /\ repo \in Repos /\ vectors \subseteq Chunks /\ seen \in [Engines -> Repos]
      /\ Stored
  BY TypesSplit DEF Typed, TypeOK
<1>2. new \in SUBSET Chunks
  <2>1. \A f \in changed : f \in Files /\ repo[f] \in Contents
    BY <1>1 DEF Repos
  <2> HIDE DEF changed
  <2> QED
    BY <2>1 DEF Chunks
<1>3. IsFiniteSet(new)
  <2>1. changed \in SUBSET Files
    OBVIOUS
  <2>2. IsFiniteSet(changed)
    BY <2>1, KnowledgeAssumption, FS_Subset
  <2> DEFINE g == [f \in changed |-> <<f, repo[f]>>]
  <2>3. g \in Surjection(changed, new)
    <3> HIDE DEF changed
    <3> QED
      BY DEF Surjection
  <2> HIDE DEF g, new, changed
  <2> QED
    BY <2>2, <2>3, FS_Surjection
<1>4. /\ Enqueue(e, new) /\ vectors' = vectors \ pruned /\ bm25' = bm25 \ pruned
      /\ writes' = IF pruned = {} THEN writes
                   ELSE Append(writes, [op |-> "delete", rows |-> pruned])
      /\ early' = [o \in Engines |-> Given(e, new)[o] \ pruned]
      /\ seen' = [seen EXCEPT ![e] = repo]
  BY DEF Pass
<1>5. pruned \subseteq vectors /\ pruned \in SUBSET Chunks
  BY <1>1
<1>6. seen' \in [Engines -> Repos]
  <2> HIDE DEF Repos
  <2> QED
    BY <1>1, <1>4
<1> HIDE DEF new, pruned
<1>7. /\ Given(e, new) \in [Engines -> SUBSET Chunks]
      /\ \A o \in Engines, c \in Chunks :
           c \in Given(e, new)[o] =>
             c \in early[o] \/ (phase = "serving" /\ o = e /\ c \in new)
  BY <1>1, <1>2, GivenTypes
<1> HIDE DEF Chunks
<1>8. early' \in [Engines -> SUBSET Chunks]
  BY <1>4, <1>7
<1>9. \A o \in Engines, c \in Chunks :
        c \in early'[o] => /\ c \notin pruned
                           /\ c \in early[o] \/ (phase = "serving" /\ o = e /\ c \in new)
  BY <1>4, <1>7
<1> QED
  BY <1>2, <1>3, <1>4, <1>5, <1>6, <1>8, <1>9

LEMMA SayMoves ==
  ASSUME Typed, NEW t \in Texts, Say(t)
  PROVE  /\ said' = said \cup {t}
         /\ \/ UNCHANGED <<queue, enqueued, early>>
            \/ /\ listening \in Engines
               /\ {<<t, t>>} \in SUBSET Chunks /\ IsFiniteSet({<<t, t>>})
               /\ Enqueue(listening, {<<t, t>>})
               /\ early' = Given(listening, {<<t, t>>})
               /\ early' \in [Engines -> SUBSET Chunks]
               /\ \A o \in Engines, c \in Chunks :
                    c \in early'[o] =>
                      \/ c \in early[o]
                      \/ phase = "serving" /\ o = listening /\ c \in {<<t, t>>}
<1>1. {<<t, t>>} \in SUBSET Chunks /\ IsFiniteSet({<<t, t>>}) /\ Stored
  BY TypesSplit, FS_Singleton DEF Chunks, Typed
<1>2. /\ said' = said \cup {t}
      /\ \/ UNCHANGED <<queue, enqueued, early>>
         \/ /\ listening \in Engines /\ Enqueue(listening, {<<t, t>>})
            /\ early' = Given(listening, {<<t, t>>})
  BY DEF Say
<1> DEFINE S == {<<t, t>>}
<1> HIDE DEF S
<1>3. ASSUME listening \in Engines, early' = Given(listening, S), S \in SUBSET Chunks
      PROVE  /\ early' \in [Engines -> SUBSET Chunks]
             /\ \A o \in Engines, c \in Chunks :
                  c \in early'[o] =>
                    c \in early[o] \/ (phase = "serving" /\ o = listening /\ c \in S)
  <2>1. PICK e \in Engines : e = listening
    BY <1>3
  <2> QED
    BY <1>1, <1>3, <2>1, GivenTypes
<1> QED
  BY <1>1, <1>2, <1>3 DEF S

\* What a process starts with.
LEMMA StartTypes ==
  /\ All(NoPass) \in [Engines -> Repos]
  /\ All(<<>>) \in [Engines -> Seq(Chunks)] /\ \A o \in Engines : Len(All(<<>>)[o]) <= MaxDead
  /\ All(Idle) \in [Engines -> Jobs] /\ \A o \in Engines : All(Idle)[o].step = "none"
                                                       /\ All(Idle)[o] = Idle
  /\ All(Zero) \in [Engines -> Counters] /\ All(0) \in [Engines -> Nat]
  /\ All({}) \in [Engines -> SUBSET Chunks]
  /\ <<>> \in Seq(Entries) /\ Len(<<>>) = 0
<1>1. MaxRetries \in Nat /\ MaxDead \in Nat /\ NoPass \in Repos
  BY KnowledgeAssumption DEF NoPass, Repos
<1>2. /\ <<>> \in Seq(Chunks) /\ <<>> \in Seq(Entries) /\ Len(<<>>) = 0
  BY EmptySeq
<1>3. Idle \in Jobs /\ Zero \in Counters
  BY <1>1 DEF Idle, Jobs, Zero, Counters
<1> HIDE DEF Idle, Zero, NoPass
<1> QED
  BY <1>1, <1>2, <1>3, IdleJob DEF All

LEMMA StartAccounts ==
  ASSUME enqueued' = All(0), metrics' = All(Zero), queue' = All(<<>>), job' = All(Idle)
  PROVE  \A o \in Engines :
           enqueued'[o] = metrics'[o].ingested + metrics'[o].deadLettered
                          + (Len(queue'[o]) + (IF job'[o] = Idle THEN 0 ELSE 1))
<1>1. Zero.ingested = 0 /\ Zero.deadLettered = 0 /\ Len(<<>>) = 0
  BY EmptySeq DEF Zero
<1> HIDE DEF Idle, Zero
<1> TAKE o \in Engines
<1>2. enqueued'[o] = 0 /\ metrics'[o] = Zero /\ queue'[o] = <<>> /\ job'[o] = Idle
  BY DEF All
<1>3. metrics'[o].ingested = 0 /\ metrics'[o].deadLettered = 0 /\ Len(queue'[o]) = 0
  BY <1>1, <1>2
<1> QED
  BY <1>2, <1>3

LEMMA TypesKept ==
  ASSUME Typed, Next
  PROVE  Typed'
<1> DEFINE Kept == ShutdownTypeOK' /\ Stored' /\ Queued' /\ Sourced' /\ JobHolds'
<1> SUFFICES Kept
  BY TypesSplitNext DEF Typed
<1>0. ShutdownTypeOK /\ Stored /\ Queued /\ Sourced /\ JobHolds
  BY TypesSplit DEF Typed
<1>1. ASSUME Push PROVE Kept
  <2>1. /\ UNCHANGED <<phase, exit, memory, db, flushing, said, boots, history>>
        /\ pushes < MaxPushes /\ pushes' = pushes + 1 /\ repo' \in Repos
    BY <1>1 DEF Push, Alive
  <2>2. MaxPushes \in Nat
    BY KnowledgeAssumption
  <2> QED
    BY <1>0, <2>1, <2>2 DEF memory, history, ShutdownTypeOK, Stored, Queued, Sourced, JobHolds
<1>2. ASSUME NEW e \in Engines, Pass(e) PROVE Kept
  <2>1. PICK new \in SUBSET Chunks, pruned \in SUBSET Chunks :
           /\ IsFiniteSet(new) /\ Enqueue(e, new) /\ pruned \subseteq vectors
           /\ vectors' = vectors \ pruned /\ bm25' = bm25 \ pruned
           /\ writes' = IF pruned = {} THEN writes
                        ELSE Append(writes, [op |-> "delete", rows |-> pruned])
           /\ early' \in [Engines -> SUBSET Chunks]
           /\ seen' \in [Engines -> Repos]
    BY <1>2, PassMoves
  <2>2. UNCHANGED <<phase, exit, listening, job, metrics, dead, db, flushing, repo, pushes, said,
                    boots, unsaved>>
    BY <1>2 DEF Pass, Alive, world
  <2>3. queue' \in [Engines -> Seq(Chunks)] /\ enqueued' \in [Engines -> Nat]
    BY <2>1, QueueGrows
  <2>4. writes' \in Seq(Entries) /\ Len(writes) \in Nat /\ Len(writes') >= Len(writes)
    <3>1. CASE pruned = {}
      BY <1>0, <2>1, <3>1 DEF Stored
    <3>2. CASE pruned # {}
      <4>1. [op |-> "delete", rows |-> pruned] \in Entries
        BY DEF Entries
      <4> QED
        BY <2>1, <3>2, <4>1, ChainGrows
    <3> QED
      BY <3>1, <3>2
  <2>5. Stored'
    BY <1>0, <2>1, <2>2, <2>4 DEF Stored
  <2> QED
    BY <1>0, <2>1, <2>2, <2>3, <2>5 DEF ShutdownTypeOK, Queued, Sourced, JobHolds
<1>3. ASSUME NEW t \in Texts, Say(t) PROVE Kept
  <2>1. UNCHANGED <<phase, exit, seen, listening, job, metrics, dead, vectors, bm25, writes, db,
                    flushing, repo, pushes, boots, unsaved>>
    BY <1>3 DEF Say, Alive
  <2>2. /\ said' = said \cup {t}
        /\ \/ UNCHANGED <<queue, enqueued, early>>
           \/ /\ listening \in Engines
              /\ {<<t, t>>} \in SUBSET Chunks /\ IsFiniteSet({<<t, t>>})
              /\ Enqueue(listening, {<<t, t>>})
              /\ early' \in [Engines -> SUBSET Chunks]
    BY <1>3, SayMoves
  <2>3. queue' \in [Engines -> Seq(Chunks)] /\ enqueued' \in [Engines -> Nat]
    <3>1. CASE UNCHANGED <<queue, enqueued, early>>
      BY <1>0, <3>1 DEF Queued
    <3>2. CASE listening \in Engines /\ {<<t, t>>} \in SUBSET Chunks /\ IsFiniteSet({<<t, t>>})
               /\ Enqueue(listening, {<<t, t>>})
      <4>1. PICK e \in Engines : e = listening
        BY <3>2
      <4> QED
        BY <3>2, <4>1, QueueGrows
    <3> QED
      BY <2>2, <3>1, <3>2
  <2>4. early' \in [Engines -> SUBSET Chunks]
    BY <1>0, <2>2 DEF Stored
  <2> QED
    BY <1>0, <2>1, <2>2, <2>3, <2>4 DEF ShutdownTypeOK, Stored, Queued, Sourced, JobHolds
<1>4. ASSUME Terminal PROVE Kept
  <2>1. listening' = Absent
    BY <1>4 DEF Terminal
  <2> QED
    BY <1>0, <1>4, <2>1 DEF Terminal, Alive, world, history, ShutdownTypeOK, Stored, Queued,
       Sourced, JobHolds
<1>5. ASSUME NEW e \in Engines, Take(e) PROVE Kept
  <2> DEFINE j == [chunk |-> Head(queue[e]), step |-> "run", tries |-> 0]
  <2>1. /\ UNCHANGED <<phase, exit, metrics, dead, early, stores, quiet>>
        /\ job' = [job EXCEPT ![e] = j]
        /\ queue[e] # <<>> /\ queue' = [queue EXCEPT ![e] = Tail(queue[e])]
    BY <1>5 DEF Take, Alive
  <2>2. Head(queue[e]) \in Chunks /\ Tail(queue[e]) \in Seq(Chunks)
    BY <1>0, <2>1, HeadTailProperties DEF Queued
  <2>3. j \in Jobs /\ j.chunk \in Chunks /\ j.step # "none"
    <3>1. 0 \in 0..MaxRetries
      BY KnowledgeAssumption
    <3> QED
      BY <2>2, <3>1 DEF Jobs
  <2> HIDE DEF j
  <2>4. /\ job' \in [Engines -> Jobs] /\ job'[e] = j
        /\ \A o \in Engines \ {e} : job'[o] = job[o]
    BY <1>0, <2>1, <2>3 DEF Queued
  <2>5. JobHolds'
    BY <1>0, <2>3, <2>4 DEF JobHolds
  <2>6. queue' \in [Engines -> Seq(Chunks)]
    BY <1>0, <2>1, <2>2 DEF Queued
  <2> QED
    BY <1>0, <2>1, <2>4, <2>5, <2>6 DEF stores, quiet, world, ShutdownTypeOK, Stored, Queued,
       Sourced
<1>6. ASSUME NEW e \in Engines, Attempt(e) PROVE Kept
  <2>1. /\ UNCHANGED <<phase, exit, queue, dead, early, stores, quiet>> /\ job[e].step = "run"
        /\ Settle(e, "ingested") \/ (Goes(e, "embed") /\ UNCHANGED metrics)
    BY <1>6 DEF Attempt, Alive
  <2>2. job' \in [Engines -> Jobs] /\ JobHolds' /\ metrics' \in [Engines -> Counters]
    BY <1>0, <2>1, SettleTypes, JobGoes DEF Queued
  <2> QED
    BY <1>0, <2>1, <2>2 DEF stores, quiet, world, ShutdownTypeOK, Stored, Queued, Sourced
<1>7. ASSUME NEW e \in Engines, Embedded(e) PROVE Kept
  <2> DEFINE c == job[e].chunk
  <2>1. /\ UNCHANGED <<phase, exit, queue, dead, early, quiet>> /\ job[e].step = "embed"
        /\ vectors' = vectors \cup {c} /\ bm25' = bm25 \cup {c}
        /\ writes' = Append(writes, [op |-> "upsert", rows |-> {c}])
        /\ Settle(e, "ingested")
    BY <1>7 DEF Embedded, Alive
  <2>2. c \in Chunks
    BY <1>0, <2>1 DEF JobHolds
  <2> HIDE DEF c
  <2>3. [op |-> "upsert", rows |-> {c}] \in Entries
    BY <2>2 DEF Entries
  <2>4. writes' \in Seq(Entries) /\ Len(writes') = Len(writes) + 1 /\ Len(writes) \in Nat
    BY <2>1, <2>3, ChainGrows
  <2>5. job' \in [Engines -> Jobs] /\ JobHolds' /\ metrics' \in [Engines -> Counters]
    BY <2>1, SettleTypes
  <2>6. UNCHANGED <<db, flushing, early, unsaved>>
    BY <2>1 DEF quiet
  <2>7. Stored'
    BY <1>0, <2>1, <2>2, <2>4, <2>6 DEF Stored
  <2> QED
    BY <1>0, <2>1, <2>5, <2>7 DEF quiet, world, ShutdownTypeOK, Queued, Sourced
<1>8. ASSUME NEW e \in Engines, EmbedFails(e) PROVE Kept
  <2>1. UNCHANGED <<phase, exit, queue, stores, quiet>> /\ job[e].step = "embed"
    BY <1>8 DEF EmbedFails, Alive
  <2>2. CASE Again(e) /\ UNCHANGED dead
    <3>1. UNCHANGED <<metrics, early>>
      BY <2>2 DEF Again
    <3>2. job' \in [Engines -> Jobs] /\ JobHolds'
      BY <2>1, <2>2, JobGoes
    <3> QED
      BY <1>0, <2>1, <2>2, <3>1, <3>2 DEF stores, quiet, world, ShutdownTypeOK, Stored, Queued,
         Sourced
  <2>3. CASE Dies(e)
    <3>1. job' \in [Engines -> Jobs] /\ JobHolds' /\ metrics' \in [Engines -> Counters]
      BY <2>3, SettleTypes DEF Dies
    <3>2. dead' \in [Engines -> Seq(Chunks)] /\ \A o \in Engines : Len(dead'[o]) <= MaxDead
      BY <1>8, <2>3, DiesTypes
    <3>3. early' \in [Engines -> SUBSET Chunks]
      <4>1. early \in [Engines -> SUBSET Chunks]
            /\ early' = [early EXCEPT ![e] = early[e] \ {job[e].chunk}]
        BY <1>0, <2>3 DEF Dies, Stored
      <4> HIDE DEF Chunks
      <4> QED
        BY <4>1
    <3> QED
      BY <1>0, <2>1, <3>1, <3>2, <3>3 DEF stores, quiet, world, ShutdownTypeOK, Stored, Queued,
         Sourced
  <2> QED
    BY <1>8, <2>2, <2>3 DEF EmbedFails, Again
<1>9. ASSUME NEW e \in Engines, Retry(e) PROVE Kept
  <2>1. /\ UNCHANGED <<phase, exit, queue, metrics, dead, early, stores, quiet>>
        /\ job[e].step = "backoff" /\ Goes(e, "run")
    BY <1>9 DEF Retry, Alive
  <2>2. job' \in [Engines -> Jobs] /\ JobHolds'
    BY <2>1, JobGoes
  <2> QED
    BY <1>0, <2>1, <2>2 DEF stores, quiet, world, ShutdownTypeOK, Stored, Queued, Sourced
<1>10. ASSUME Write PROVE Kept
  <2>1. /\ UNCHANGED <<phase, exit, seen, listening, queue, job, metrics, dead, vectors, bm25, world,
                       enqueued, early>>
        /\ writes # <<>> /\ writes' = Tail(writes)
        /\ flushing' = IF flushing > 0 THEN flushing - 1 ELSE 0
        /\ \/ db' = Applied(db, Head(writes)) /\ unsaved' = unsaved \ Head(writes).rows
           \/ UNCHANGED db /\ unsaved' = unsaved \cup Head(writes).rows
    BY <1>10 DEF Write, Alive
  <2>2. /\ writes' \in Seq(Entries) /\ Len(writes') = Len(writes) - 1
        /\ Len(writes) \in Nat \ {0} /\ Head(writes) \in Entries
    BY <2>1, ChainShifts
  <2>3. Head(writes).rows \subseteq Chunks
    BY <2>2 DEF Entries
  <2>4. db' \subseteq Chunks /\ unsaved' \subseteq Chunks
    BY <1>0, <2>1, <2>3 DEF Stored, Applied
  <2>5. flushing' \in 0..Len(writes')
    BY <1>0, <2>1, <2>2 DEF Stored
  <2>6. Stored'
    BY <1>0, <2>1, <2>2, <2>4, <2>5 DEF Stored
  <2> QED
    BY <1>0, <2>1, <2>6 DEF world, ShutdownTypeOK, Queued, Sourced, JobHolds
<1>11. ASSUME NEW p \in Phases, CloseStep(p), UNCHANGED <<memory, db, world, history>>,
              flushing' \in {flushing, Len(writes)}
       PROVE  Kept
  <2>1. ShutdownTypeOK'
    BY <1>0, <1>11, ShutdownTypes
  <2>2. flushing' \in 0..Len(writes)
    BY <1>0, <1>11 DEF Stored
  <2> QED
    BY <1>0, <1>11, <2>1, <2>2 DEF memory, world, history, Stored, Queued, Sourced, JobHolds
<1>12. ASSUME Drain \/ Flushed \/ ShutdownStep PROVE Kept
  <2>1. "drain" \in Phases /\ "flush" \in Phases
    BY DEF Phases, CloseSequence
  <2>2. ASSUME Signal \/ ForceExit, UNCHANGED <<memory, db, flushing, world, history>> PROVE Kept
    <3>1. ShutdownTypeOK'
      BY <1>0, <2>2, ShutdownTypes
    <3> QED
      BY <1>0, <2>2, <3>1 DEF memory, world, history, Stored, Queued, Sourced, JobHolds
  <2> QED
    BY <1>11, <1>12, <2>1, <2>2 DEF Drain, Flushed, ShutdownStep
<1>13. ASSUME Crash PROVE Kept
  <2>1. "exited" \in Phases
    BY DEF Phases, CloseSequence
  <2>2. phase' = "exited" /\ UNCHANGED <<exit, memory, db, flushing, world, history>>
    BY <1>13 DEF Crash
  <2> QED
    BY <1>0, <2>1, <2>2 DEF memory, world, history, ShutdownTypeOK, Stored, Queued, Sourced, JobHolds
<1>14. ASSUME Boot PROVE Kept
  <2>1. /\ phase' = "serving" /\ exit' = "none" /\ boots < MaxBoots /\ boots' = boots + 1
        /\ seen' = All(NoPass) /\ listening' = Absent
        /\ queue' = All(<<>>) /\ job' = All(Idle) /\ metrics' = All(Zero) /\ dead' = All(<<>>)
        /\ vectors' = db /\ bm25' = db /\ writes' = <<>>
        /\ flushing' = 0 /\ enqueued' = All(0) /\ early' = All({}) /\ unsaved' = {}
        /\ UNCHANGED <<db, repo, pushes, said>>
    BY <1>14 DEF Boot, Booted
  <2>2. /\ "serving" \in Phases /\ MaxBoots \in Nat
    BY KnowledgeAssumption DEF Phases, CloseSequence
  <2>3. ShutdownTypeOK' /\ boots' \in 0..MaxBoots
    BY <1>0, <2>1, <2>2 DEF Sourced, ShutdownTypeOK
  <2> QED
    BY <1>0, <2>1, <2>3, StartTypes DEF Stored, Queued, Sourced, JobHolds
<1> QED
  BY <1>1, <1>2, <1>3, <1>4, <1>5, <1>6, <1>7, <1>8, <1>9, <1>10, <1>12, <1>13, <1>14 DEF Next

-----------------------------------------------------------------------------
(* The jobs                                                                *)

\* The account of one engine.
Accounted(e) == enqueued[e] = metrics[e].ingested + metrics[e].deadLettered + Pending(e)

LEMMA AccountsStay ==
  ASSUME NEW e \in Engines, Accounted(e), Same(e)
  PROVE  Accounted(e)'
BY DEF Accounted, Pending, Same

LEMMA JobsKept ==
  ASSUME Typed, JobsAreAccounted, Next
  PROVE  JobsAreAccounted'
<1>1. /\ Stored /\ Queued /\ Sourced /\ JobHolds
      /\ \A o \in Engines : /\ Len(queue[o]) \in Nat /\ enqueued[o] \in Nat
                            /\ metrics[o].ingested \in Nat /\ metrics[o].deadLettered \in Nat
  BY TypesSplit, LenProperties DEF Typed, Queued, Counters
<1>2. \A o \in Engines : Accounted(o)
  BY DEF JobsAreAccounted, Accounted
<1>3. SUFFICES \A o \in Engines : Accounted(o)'
  BY DEF JobsAreAccounted, Accounted
<1> HIDE DEF Idle
<1>4. CASE UNCHANGED <<enqueued, metrics, queue, job>>
  BY <1>2, <1>4, AccountsStay DEF Same
<1>5. ASSUME NEW e \in Engines, NEW S \in SUBSET Chunks, IsFiniteSet(S), Enqueue(e, S),
             UNCHANGED <<metrics, job>>
      PROVE  \A o \in Engines : Accounted(o)'
  <2>1. /\ Len(queue'[e]) = Len(queue[e]) + Cardinality(S) /\ Cardinality(S) \in Nat
        /\ enqueued'[e] = enqueued[e] + Cardinality(S)
        /\ \A o \in Engines \ {e} : queue'[o] = queue[o] /\ enqueued'[o] = enqueued[o]
    BY <1>5, QueueGrows
  <2>2. Accounted(e)'
    <3> DEFINE k == IF job[e] = Idle THEN 0 ELSE 1
    <3>0. Pending(e) = Len(queue[e]) + k /\ Pending(e)' = Len(queue'[e]) + k
      BY <1>5 DEF Pending
    <3>1. Pending(e) \in Nat /\ Pending(e)' = Pending(e) + Cardinality(S)
      <4>1. k \in Nat /\ Len(queue[e]) \in Nat
        BY <1>1
      <4> HIDE DEF k
      <4> QED
        BY <2>1, <3>0, <4>1
    <3>2. enqueued[e] = metrics[e].ingested + metrics[e].deadLettered + Pending(e)
      BY <1>2 DEF Accounted
    <3> HIDE DEF Pending
    <3>3. enqueued'[e] = metrics[e].ingested + metrics[e].deadLettered + Pending(e)'
      BY <1>1, <2>1, <3>1, <3>2
    <3> QED
      BY <1>5, <3>3 DEF Accounted
  <2>3. \A o \in Engines \ {e} : Same(o)
    BY <1>5, <2>1 DEF Same
  <2> QED
    BY <1>2, <2>2, <2>3, AccountsStay
<1>6. ASSUME NEW e \in Engines, NEW outcome \in {"ingested", "deadLettered"},
             Settle(e, outcome), job[e] # Idle, UNCHANGED <<enqueued, queue>>
      PROVE  \A o \in Engines : Accounted(o)'
  <2>1. /\ job'[e] = Idle /\ metrics' \in [Engines -> Counters]
        /\ metrics'[e].ingested + metrics'[e].deadLettered
              = metrics[e].ingested + metrics[e].deadLettered + 1
        /\ \A o \in Engines \ {e} : job'[o] = job[o] /\ metrics'[o] = metrics[o]
    BY <1>6, SettleTypes
  <2>2. metrics'[e].ingested \in Nat /\ metrics'[e].deadLettered \in Nat
    BY <2>1 DEF Counters
  <2>3. Accounted(e)'
    <3>1. Pending(e)' \in Nat /\ Pending(e) = Pending(e)' + 1
      BY <1>1, <1>6, <2>1 DEF Pending
    <3>2. enqueued[e] = metrics[e].ingested + metrics[e].deadLettered + Pending(e)
      BY <1>2 DEF Accounted
    <3> HIDE DEF Pending
    <3>3. enqueued[e] = metrics'[e].ingested + metrics'[e].deadLettered + Pending(e)'
      <4>1. metrics[e].ingested \in Nat /\ metrics[e].deadLettered \in Nat
        BY <1>1
      <4> QED
        BY <2>1, <2>2, <3>1, <3>2, <4>1
    <3> QED
      BY <1>6, <3>3 DEF Accounted
  <2>4. \A o \in Engines \ {e} : Same(o)
    BY <1>6, <2>1 DEF Same
  <2> QED
    BY <1>2, <2>3, <2>4, AccountsStay
<1>7. ASSUME NEW e \in Engines, job[e] # Idle, job'[e] # Idle,
             \A o \in Engines \ {e} : job'[o] = job[o], UNCHANGED <<enqueued, metrics, queue>>
      PROVE  \A o \in Engines : Accounted(o)'
  <2>1. Accounted(e)'
    BY <1>2, <1>7 DEF Accounted, Pending
  <2>2. \A o \in Engines \ {e} : Same(o)
    BY <1>7 DEF Same
  <2> QED
    BY <1>2, <2>1, <2>2, AccountsStay
<1>8. ASSUME NEW e \in Engines, Pass(e) PROVE \A o \in Engines : Accounted(o)'
  <2>1. UNCHANGED <<metrics, job>>
    BY <1>8 DEF Pass
  <2> QED
    BY <1>5, <1>8, <2>1, PassMoves
<1>9. ASSUME NEW t \in Texts, Say(t) PROVE \A o \in Engines : Accounted(o)'
  <2>1. UNCHANGED <<metrics, job>>
    BY <1>9 DEF Say
  <2>2. \/ UNCHANGED <<queue, enqueued>>
        \/ \E e \in Engines, S \in SUBSET Chunks : IsFiniteSet(S) /\ Enqueue(e, S)
    BY <1>9, SayMoves
  <2> QED
    BY <1>4, <1>5, <2>1, <2>2
<1>10. ASSUME NEW e \in Engines, Take(e) PROVE \A o \in Engines : Accounted(o)'
  <2>1. /\ job[e] = Idle /\ queue[e] # <<>> /\ queue' = [queue EXCEPT ![e] = Tail(queue[e])]
        /\ UNCHANGED <<metrics, enqueued>>
        /\ job' = [job EXCEPT ![e] = [chunk |-> Head(queue[e]), step |-> "run", tries |-> 0]]
    BY <1>10 DEF Take, quiet
  <2>2. /\ job'[e] # Idle /\ queue'[e] = Tail(queue[e])
        /\ \A o \in Engines \ {e} : job'[o] = job[o] /\ queue'[o] = queue[o]
    BY <1>1, <2>1, IdleJob DEF Queued
  <2>3. Len(queue'[e]) = Len(queue[e]) - 1
    BY <1>1, <2>1, <2>2, HeadTailProperties DEF Queued
  <2>4. Accounted(e)'
    <3>1. Pending(e)' = Pending(e)
      BY <1>1, <2>1, <2>2, <2>3 DEF Pending
    <3> HIDE DEF Pending
    <3> QED
      BY <1>2, <2>1, <3>1 DEF Accounted
  <2>5. \A o \in Engines \ {e} : Same(o)
    BY <2>1, <2>2 DEF Same
  <2> QED
    BY <1>2, <2>4, <2>5, AccountsStay
<1>11. ASSUME NEW e \in Engines, Attempt(e) PROVE \A o \in Engines : Accounted(o)'
  <2>1. /\ UNCHANGED <<enqueued, queue>> /\ job[e].step = "run"
        /\ Settle(e, "ingested") \/ (Goes(e, "embed") /\ UNCHANGED metrics)
    BY <1>11 DEF Attempt, quiet
  <2> QED
    BY <1>6, <1>7, <2>1, JobGoes, IdleJob
<1>12. ASSUME NEW e \in Engines, Embedded(e) PROVE \A o \in Engines : Accounted(o)'
  <2>1. UNCHANGED <<enqueued, queue>> /\ job[e].step = "embed" /\ Settle(e, "ingested")
    BY <1>12 DEF Embedded, quiet
  <2> QED
    BY <1>6, <2>1, IdleJob
<1>13. ASSUME NEW e \in Engines, EmbedFails(e) PROVE \A o \in Engines : Accounted(o)'
  <2>1. /\ UNCHANGED <<enqueued, queue>> /\ job[e].step = "embed"
        /\ (Again(e) /\ UNCHANGED metrics) \/ Settle(e, "deadLettered")
    BY <1>13 DEF EmbedFails, Again, Dies, quiet
  <2> QED
    BY <1>6, <1>7, <2>1, JobGoes, IdleJob
<1>14. ASSUME NEW e \in Engines, Retry(e) PROVE \A o \in Engines : Accounted(o)'
  <2>1. /\ UNCHANGED <<enqueued, queue, metrics>> /\ job[e].step = "backoff" /\ Goes(e, "run")
    BY <1>14 DEF Retry, quiet
  <2> QED
    BY <1>7, <2>1, JobGoes
<1>15. CASE Boot
  <2>1. enqueued' = All(0) /\ metrics' = All(Zero) /\ queue' = All(<<>>) /\ job' = All(Idle)
    BY <1>15 DEF Boot, Booted
  <2> QED
    BY <2>1, StartAccounts DEF Accounted, Pending
<1>16. CASE Push \/ Terminal \/ Write \/ Drain \/ Flushed \/ ShutdownStep \/ Crash
  BY <1>4, <1>16 DEF Push, Terminal, Write, Drain, Flushed, ShutdownStep, Crash, memory, history
<1> QED
  BY <1>8, <1>9, <1>10, <1>11, <1>12, <1>13, <1>14, <1>15, <1>16 DEF Next

-----------------------------------------------------------------------------
(* The indexes and the table                                               *)

AgreedOn(c) ==
  /\ \A n \in 1..Len(writes) : LastOf(c, n) => (writes[n].op = "upsert" <=> c \in vectors)
  /\ (\A n \in 1..Len(writes) : c \notin writes[n].rows) =>
       c \in unsaved \/ (c \in db <=> c \in vectors)

\* A write goes behind the chain, and the indexes are as it says of its chunks.
LEMMA AgreedGrows ==
  ASSUME Typed, NEW w \in Entries, writes' = Append(writes, w), UNCHANGED <<db, unsaved>>,
         NEW c \in Chunks, AgreedOn(c),
         c \in w.rows => (w.op = "upsert" <=> c \in vectors'),
         c \notin w.rows => (c \in vectors' <=> c \in vectors)
  PROVE  AgreedOn(c)'
<1> DEFINE k == Len(writes)
<1>1. /\ Len(writes') = k + 1 /\ k \in Nat /\ writes'[k + 1] = w
      /\ \A n \in 1..k : writes'[n] = writes[n]
  BY ChainGrows
<1>2. AgreedOn(c)
  OBVIOUS
<1> HIDE DEF k
<1>3. CASE c \in w.rows
  <2>1. ~(\A n \in 1..Len(writes') : c \notin writes'[n].rows)
    BY <1>1, <1>3
  <2>2. ASSUME NEW n \in 1..Len(writes'), LastOf(c, n)'
        PROVE  n = k + 1
    <3>1. SUFFICES ASSUME n # k + 1 PROVE FALSE
      OBVIOUS
    <3>2. k + 1 \in (n + 1)..Len(writes')
      BY <1>1, <3>1
    <3> QED
      BY <1>1, <1>3, <2>2, <3>2 DEF LastOf
  <2> QED
    BY <1>1, <1>3, <2>1, <2>2 DEF AgreedOn
<1>4. CASE c \notin w.rows
  <2>1. ASSUME NEW n \in 1..Len(writes'), LastOf(c, n)'
        PROVE  n \in 1..k /\ LastOf(c, n)
    <3>1. n # k + 1 /\ n \in 1..k
      BY <1>1, <1>4, <2>1 DEF LastOf
    <3>2. \A m \in (n + 1)..k : m \in (n + 1)..Len(writes') /\ writes'[m] = writes[m]
      BY <1>1, <3>1
    <3> QED
      BY <1>1, <2>1, <3>1, <3>2 DEF LastOf, k
  <2>2. \A n \in 1..Len(writes') : LastOf(c, n)' => (writes'[n].op = "upsert" <=> c \in vectors')
    BY <1>1, <1>2, <1>4, <2>1 DEF AgreedOn, k
  <2>3. (\A n \in 1..Len(writes') : c \notin writes'[n].rows) =>
          \A n \in 1..k : c \notin writes[n].rows
    BY <1>1
  <2>4. (\A n \in 1..Len(writes') : c \notin writes'[n].rows) =>
          c \in unsaved' \/ (c \in db' <=> c \in vectors')
    BY <1>2, <1>4, <2>3 DEF AgreedOn, k
  <2> QED
    BY <2>2, <2>4 DEF AgreedOn
<1> QED
  BY <1>3, <1>4

\* The first write of the chain is made, or fails and is remembered.
LEMMA AgreedShifts ==
  ASSUME Typed, Write, NEW c \in Chunks, AgreedOn(c)
  PROVE  AgreedOn(c)'
<1> DEFINE w == Head(writes)
<1>1. /\ writes # <<>> /\ writes' = Tail(writes) /\ UNCHANGED vectors
      /\ \/ db' = Applied(db, w) /\ unsaved' = unsaved \ w.rows
         \/ UNCHANGED db /\ unsaved' = unsaved \cup w.rows
  BY DEF Write
<1>2. /\ Len(writes') = Len(writes) - 1 /\ Len(writes) \in Nat \ {0}
      /\ w = writes[1] /\ w \in Entries
      /\ \A n \in 1..Len(writes') : writes'[n] = writes[n + 1]
  BY <1>1, ChainShifts
<1>3. /\ \A n \in 1..Len(writes) : LastOf(c, n) => (writes[n].op = "upsert" <=> c \in vectors)
      /\ (\A n \in 1..Len(writes) : c \notin writes[n].rows) =>
           c \in unsaved \/ (c \in db <=> c \in vectors)
  BY DEF AgreedOn
<1> HIDE DEF w
<1>4. ASSUME NEW n \in 1..Len(writes'), LastOf(c, n)'
      PROVE  n + 1 \in 1..Len(writes) /\ LastOf(c, n + 1)
  <2>1. n + 1 \in 1..Len(writes) /\ c \in writes[n + 1].rows
    BY <1>2, <1>4 DEF LastOf
  <2>2. ASSUME NEW m \in (n + 1 + 1)..Len(writes)
        PROVE  c \notin writes[m].rows
    <3>1. m - 1 \in (n + 1)..Len(writes') /\ m - 1 \in 1..Len(writes') /\ m - 1 + 1 = m
      BY <1>2
    <3>2. writes'[m - 1] = writes[m]
      BY <1>2, <3>1
    <3> QED
      BY <1>4, <3>1, <3>2 DEF LastOf
  <2> QED
    BY <2>1, <2>2 DEF LastOf
<1>5. \A n \in 1..Len(writes') : LastOf(c, n)' => (writes'[n].op = "upsert" <=> c \in vectors')
  BY <1>1, <1>2, <1>3, <1>4
<1>6. ASSUME \A n \in 1..Len(writes') : c \notin writes'[n].rows
      PROVE  c \in unsaved' \/ (c \in db' <=> c \in vectors')
  <2>1. \A m \in 2..Len(writes) : c \notin writes[m].rows
    <3> TAKE m \in 2..Len(writes)
    <3>1. m - 1 \in 1..Len(writes') /\ m - 1 + 1 = m
      BY <1>2
    <3>2. writes'[m - 1] = writes[m]
      BY <1>2, <3>1
    <3> QED
      BY <1>6, <3>1, <3>2
  <2>2. CASE c \in w.rows
    <3>1. LastOf(c, 1) /\ 1 \in 1..Len(writes)
      BY <1>2, <2>1, <2>2 DEF LastOf
    <3>2. w.op = "upsert" <=> c \in vectors
      BY <1>2, <1>3, <3>1
    <3> QED
      BY <1>1, <2>2, <3>2 DEF Applied
  <2>3. CASE c \notin w.rows
    <3>1. \A n \in 1..Len(writes) : c \notin writes[n].rows
      <4> TAKE n \in 1..Len(writes)
      <4>1. n = 1 \/ n \in 2..Len(writes)
        BY <1>2
      <4> QED
        BY <1>2, <2>1, <2>3, <4>1
    <3> QED
      BY <1>1, <1>3, <2>3, <3>1 DEF Applied
  <2> QED
    BY <2>2, <2>3
<1> QED
  BY <1>5, <1>6 DEF AgreedOn

LEMMA AgreedKept ==
  ASSUME Typed, Agreed, Next
  PROVE  Agreed'
<1>1. vectors = bm25 /\ \A c \in Chunks : AgreedOn(c)
  BY DEF Agreed, AgreedOn
<1>2. SUFFICES vectors' = bm25' /\ \A c \in Chunks : AgreedOn(c)'
  BY DEF Agreed, AgreedOn
<1>3. CASE UNCHANGED <<vectors, bm25, writes, db, unsaved>>
  BY <1>1, <1>3 DEF AgreedOn, LastOf
<1>4. ASSUME NEW e \in Engines, Pass(e) PROVE vectors' = bm25' /\ \A c \in Chunks : AgreedOn(c)'
  <2>1. PICK pruned \in SUBSET Chunks :
           /\ vectors' = vectors \ pruned /\ bm25' = bm25 \ pruned
           /\ writes' = IF pruned = {} THEN writes
                        ELSE Append(writes, [op |-> "delete", rows |-> pruned])
    BY <1>4, PassMoves
  <2>2. UNCHANGED <<db, unsaved>>
    BY <1>4 DEF Pass
  <2>3. CASE pruned = {}
    BY <1>3, <2>1, <2>2, <2>3
  <2>4. CASE pruned # {}
    <3> DEFINE w == [op |-> "delete", rows |-> pruned]
    <3>1. w \in Entries /\ w.op = "delete" /\ w.rows = pruned
      BY DEF Entries
    <3>2. writes' = Append(writes, w)
      BY <2>1, <2>4
    <3> HIDE DEF w
    <3> QED
      BY <1>1, <2>1, <2>2, <3>1, <3>2, AgreedGrows
  <2> QED
    BY <2>3, <2>4
<1>5. ASSUME NEW e \in Engines, Embedded(e)
      PROVE  vectors' = bm25' /\ \A c \in Chunks : AgreedOn(c)'
  <2> DEFINE w == [op |-> "upsert", rows |-> {job[e].chunk}]
  <2>1. job[e].chunk \in Chunks
    BY <1>5 DEF Embedded, Typed, JobHolds
  <2>2. /\ vectors' = vectors \cup {job[e].chunk} /\ bm25' = bm25 \cup {job[e].chunk}
        /\ writes' = Append(writes, w) /\ UNCHANGED <<db, unsaved>>
    BY <1>5 DEF Embedded, quiet
  <2>3. w \in Entries /\ w.op = "upsert" /\ w.rows = {job[e].chunk}
    BY <2>1 DEF Entries
  <2> HIDE DEF w
  <2> QED
    BY <1>1, <2>2, <2>3, AgreedGrows
<1>6. CASE Write
  BY <1>1, <1>6, AgreedShifts DEF Write
<1>7. CASE Boot
  <2>1. vectors' = db /\ bm25' = db /\ writes' = <<>> /\ UNCHANGED db
    BY <1>7 DEF Boot, Booted
  <2>2. Len(writes') = 0
    BY <2>1, EmptySeq
  <2> QED
    BY <2>1, <2>2 DEF AgreedOn
<1>8. ASSUME NEW e \in Engines, Take(e) \/ Attempt(e) \/ EmbedFails(e) \/ Retry(e)
      PROVE  vectors' = bm25' /\ \A c \in Chunks : AgreedOn(c)'
  BY <1>3, <1>8 DEF Take, Attempt, EmbedFails, Retry, stores, quiet
<1>9. CASE \/ Push \/ Terminal \/ (\E t \in Texts : Say(t)) \/ Drain \/ Flushed \/ ShutdownStep
           \/ Crash
  BY <1>3, <1>9 DEF Push, Terminal, Say, Drain, Flushed, ShutdownStep, Crash, memory, history
<1> QED
  BY <1>4, <1>5, <1>6, <1>7, <1>8, <1>9 DEF Next

-----------------------------------------------------------------------------
(* The drain                                                               *)

LEMMA ExitKept ==
  ASSUME DrainHolds, Stored, Next
  PROVE  /\ exit' # "none" => phase' = "exited"
         /\ phase' = "pool" \/ exit' = "clean" => flushing' = 0
<1> DEFINE Kept == /\ exit' # "none" => phase' = "exited"
                   /\ phase' = "pool" \/ exit' = "clean" => flushing' = 0
<1>1. /\ exit # "none" => phase = "exited"
      /\ phase = "pool" \/ exit = "clean" => flushing = 0
  BY DEF DrainHolds
<1>2. CASE UNCHANGED <<phase, exit, flushing>>
  BY <1>1, <1>2
<1>3. ASSUME NEW p \in Phases, CloseStep(p), p # "drain" => UNCHANGED flushing,
             p = "flush" => flushing = 0
      PROVE  Kept
  <2>1. /\ phase = p /\ exit = "none" /\ p \notin {"serving", "exited"}
        /\ phase' = "flush" <=> p = "drain"
        /\ phase' = "pool" <=> p = "flush"
        /\ phase' = "exited" <=> p = "pool"
        /\ exit' = IF p = "pool" THEN "clean" ELSE "none"
    BY <1>1, <1>3, ClosesTo
  <2> QED
    BY <1>1, <1>3, <2>1
<1>4. CASE Drain \/ Flushed \/ ShutdownStep
  <2>1. "drain" \in Phases /\ "flush" \in Phases
    BY DEF Phases, CloseSequence
  <2>2. CASE Signal
    BY <1>1, <2>2 DEF Signal
  <2>3. CASE ForceExit
    BY <2>3 DEF ForceExit
  <2>4. CASE Drain
    BY <1>3, <2>1, <2>4 DEF Drain
  <2>5. CASE Flushed
    BY <1>3, <2>1, <2>5 DEF Flushed
  <2>6. ASSUME NEW p \in Phases \ {"drain", "flush"}, CloseStep(p), UNCHANGED flushing
        PROVE  Kept
    BY <1>3, <2>6
  <2> QED
    BY <1>4, <2>2, <2>3, <2>4, <2>5, <2>6 DEF ShutdownStep
<1>5. CASE Write
  <2>1. flushing \in Nat
    BY DEF Stored
  <2> QED
    BY <1>1, <1>5, <2>1 DEF Write, Alive
<1>6. CASE Crash
  BY <1>1, <1>6 DEF Crash
<1>7. CASE Boot
  BY <1>7 DEF Boot
<1>8. CASE Push \/ Terminal \/ \E t \in Texts : Say(t)
  BY <1>2, <1>8 DEF Push, Terminal, Say, Alive
<1>9. ASSUME NEW e \in Engines,
             Pass(e) \/ Take(e) \/ Attempt(e) \/ Embedded(e) \/ EmbedFails(e) \/ Retry(e)
      PROVE  Kept
  BY <1>2, <1>9 DEF Pass, Take, Attempt, Embedded, EmbedFails, Retry, Alive, quiet
<1> QED
  BY <1>4, <1>5, <1>6, <1>7, <1>8, <1>9 DEF Next

HandHolds == \A e \in Engines : \A c \in early[e] : InHand(e, c)

LEMMA HandKept ==
  ASSUME Typed, HandHolds, Next
  PROVE  HandHolds'
<1>1. /\ Stored /\ Queued /\ JobHolds
      /\ \A e \in Engines : \A c \in early[e] : InHand(e, c) /\ c \in Chunks
  BY TypesSplit DEF Typed, HandHolds, Stored
<1>2. SUFFICES ASSUME NEW o \in Engines, NEW c \in early'[o]
               PROVE  InHand(o, c)'
  BY DEF HandHolds
<1> HIDE DEF Idle
<1>3. CASE UNCHANGED <<vectors, queue, job, early>>
  BY <1>1, <1>3 DEF InHand, Waits
<1>4. ASSUME NEW e \in Engines, Pass(e) PROVE InHand(o, c)'
  <2>1. PICK new \in SUBSET Chunks, pruned \in SUBSET Chunks :
           /\ IsFiniteSet(new) /\ Enqueue(e, new) /\ vectors' = vectors \ pruned
           /\ early' \in [Engines -> SUBSET Chunks]
           /\ \A i \in Engines, d \in Chunks :
                d \in early'[i] =>
                  /\ d \notin pruned
                  /\ d \in early[i] \/ (phase = "serving" /\ i = e /\ d \in new)
    BY <1>4, PassMoves
  <2>2. c \in Chunks /\ c \notin pruned /\ (c \in early[o] \/ (o = e /\ c \in new))
    BY <2>1
  <2>3. /\ \A i \in Engines, d \in Chunks : Waits(i, d) => Waits(i, d)'
        /\ \A d \in new : Waits(e, d)'
    BY <2>1, QueueGrows
  <2>4. UNCHANGED job
    BY <1>4 DEF Pass
  <2> QED
    BY <1>1, <2>1, <2>2, <2>3, <2>4 DEF InHand
<1>5. ASSUME NEW t \in Texts, Say(t) PROVE InHand(o, c)'
  <2>1. UNCHANGED <<vectors, job>>
    BY <1>5 DEF Say
  <2>2. CASE UNCHANGED <<queue, enqueued, early>>
    BY <1>3, <2>1, <2>2
  <2> DEFINE S == {<<t, t>>}
  <2> HIDE DEF S
  <2>3. ASSUME listening \in Engines, S \in SUBSET Chunks, IsFiniteSet(S), Enqueue(listening, S),
               early' \in [Engines -> SUBSET Chunks],
               \A i \in Engines, d \in Chunks :
                 d \in early'[i] => d \in early[i] \/ (phase = "serving" /\ i = listening /\ d \in S)
        PROVE  InHand(o, c)'
    <3>1. c \in Chunks /\ (c \in early[o] \/ (o = listening /\ c \in S))
      BY <2>3
    <3>2. PICK e \in Engines : e = listening
      BY <2>3
    <3>3. /\ \A i \in Engines, d \in Chunks : Waits(i, d) => Waits(i, d)'
          /\ \A d \in S : Waits(e, d)'
      BY <2>3, <3>2, QueueGrows
    <3>4. CASE c \in early[o]
      BY <1>1, <2>1, <3>3, <3>4 DEF InHand
    <3>5. CASE o = listening /\ c \in S
      <4>1. Waits(o, c)'
        BY <3>2, <3>3, <3>5
      <4> QED
        BY <4>1 DEF InHand
    <3> QED
      BY <3>1, <3>4, <3>5
  <2> QED
    BY <1>5, <2>2, <2>3, SayMoves DEF S
<1>6. ASSUME NEW e \in Engines, Take(e) PROVE InHand(o, c)'
  <2>1. /\ job[e] = Idle /\ queue[e] # <<>> /\ queue' = [queue EXCEPT ![e] = Tail(queue[e])]
        /\ UNCHANGED <<vectors, early>>
        /\ job' = [job EXCEPT ![e] = [chunk |-> Head(queue[e]), step |-> "run", tries |-> 0]]
    BY <1>6 DEF Take, stores
  <2>2. /\ job'[e] # Idle /\ job'[e].chunk = Head(queue[e]) /\ queue'[e] = Tail(queue[e])
        /\ \A i \in Engines \ {e} : job'[i] = job[i] /\ queue'[i] = queue[i]
    BY <1>1, <2>1, IdleJob DEF Queued
  <2>3. InHand(o, c)
    BY <1>1, <2>1
  <2>4. CASE o # e
    BY <2>1, <2>2, <2>3, <2>4 DEF InHand, Waits
  <2>5. CASE o = e /\ c \in vectors
    BY <2>1, <2>5 DEF InHand
  <2>6. CASE o = e /\ Waits(e, c)
    <3>1. PICK n \in 1..Len(queue[e]) : queue[e][n] = c
      BY <2>6 DEF Waits
    <3>2. /\ Len(Tail(queue[e])) = Len(queue[e]) - 1 /\ Len(queue[e]) \in Nat
          /\ Head(queue[e]) = queue[e][1]
          /\ \A m \in 1..Len(Tail(queue[e])) : Tail(queue[e])[m] = queue[e][m + 1]
      BY <1>1, <2>1, HeadTailProperties DEF Queued
    <3>3. CASE n = 1
      BY <2>2, <2>6, <3>1, <3>2, <3>3 DEF InHand
    <3>4. CASE n # 1
      <4>1. n - 1 \in 1..Len(Tail(queue[e])) /\ n - 1 + 1 = n
        BY <3>1, <3>2, <3>4
      <4>2. Tail(queue[e])[n - 1] = c
        BY <3>1, <3>2, <4>1
      <4> QED
        BY <2>2, <2>6, <4>1, <4>2 DEF InHand, Waits
    <3> QED
      BY <3>3, <3>4
  <2> QED
    BY <2>1, <2>3, <2>4, <2>5, <2>6 DEF InHand
\* The job under way keeps its chunk, or is settled with it in the indexes.
<1>7. ASSUME NEW e \in Engines, UNCHANGED queue, vectors \subseteq vectors', c \in early[o],
             \A i \in Engines \ {e} : job'[i] = job[i],
             \/ job'[e] # Idle /\ job'[e].chunk = job[e].chunk
             \/ job[e].chunk \in vectors'
             \/ o = e /\ c # job[e].chunk
      PROVE  InHand(o, c)'
  <2>1. InHand(o, c)
    BY <1>1, <1>7
  <2>2. CASE c \in vectors \/ Waits(o, c)
    BY <1>7, <2>2 DEF InHand, Waits
  <2>3. CASE job[o] # Idle /\ job[o].chunk = c
    BY <1>7, <2>3 DEF InHand
  <2> QED
    BY <2>1, <2>2, <2>3 DEF InHand
<1>8. ASSUME NEW e \in Engines, Attempt(e) PROVE InHand(o, c)'
  <2>1. /\ UNCHANGED <<vectors, queue, early>> /\ job[e].step = "run"
        /\ \/ job[e].chunk \in vectors /\ Settle(e, "ingested")
           \/ Goes(e, "embed")
    BY <1>8 DEF Attempt, stores
  <2> QED
    BY <1>7, <2>1, SettleTypes, JobGoes
<1>9. ASSUME NEW e \in Engines, Embedded(e) PROVE InHand(o, c)'
  <2>1. /\ vectors' = vectors \cup {job[e].chunk} /\ UNCHANGED <<queue, early>>
        /\ Settle(e, "ingested")
    BY <1>9 DEF Embedded
  <2> QED
    BY <1>7, <2>1, SettleTypes
<1>10. ASSUME NEW e \in Engines, EmbedFails(e) PROVE InHand(o, c)'
  <2>1. UNCHANGED <<vectors, queue>> /\ job[e].step = "embed" /\ (Again(e) \/ Dies(e))
    BY <1>10 DEF EmbedFails, stores
  <2>2. CASE Again(e)
    <3>1. UNCHANGED early
      BY <2>2 DEF Again
    <3> QED
      BY <1>7, <2>1, <2>2, <3>1, JobGoes
  <2>3. CASE Dies(e)
    <3>1. /\ early \in [Engines -> SUBSET Chunks]
          /\ early' = [early EXCEPT ![e] = early[e] \ {job[e].chunk}]
          /\ Settle(e, "deadLettered")
      BY <1>1, <2>3 DEF Dies, Stored
    <3>2. c \in early[o] /\ (o = e => c # job[e].chunk)
      BY <3>1
    <3>3. /\ \A i \in Engines \ {e} : job'[i] = job[i]
      BY <3>1, SettleTypes
    <3>4. CASE o = e
      BY <1>7, <2>1, <3>2, <3>3, <3>4
    <3>5. CASE o # e
      BY <1>1, <2>1, <3>2, <3>3, <3>5 DEF InHand, Waits
    <3> QED
      BY <3>4, <3>5
  <2> QED
    BY <2>1, <2>2, <2>3
<1>11. ASSUME NEW e \in Engines, Retry(e) PROVE InHand(o, c)'
  <2>1. UNCHANGED <<vectors, queue, early>> /\ job[e].step = "backoff" /\ Goes(e, "run")
    BY <1>11 DEF Retry, stores
  <2> QED
    BY <1>7, <2>1, JobGoes
<1>12. CASE Boot
  BY <1>12 DEF Boot, All
<1>13. CASE Push \/ Terminal \/ Write \/ Drain \/ Flushed \/ ShutdownStep \/ Crash
  BY <1>3, <1>13 DEF Push, Terminal, Write, Drain, Flushed, ShutdownStep, Crash, memory, history
<1> QED
  BY <1>4, <1>5, <1>6, <1>8, <1>9, <1>10, <1>11, <1>12, <1>13 DEF Next

\* Behind the flush no write of a chunk deletes its row.
LEMMA WrittenGrows ==
  ASSUME Typed, NEW w \in Entries, writes' = Append(writes, w), UNCHANGED <<db, unsaved, flushing>>,
         NEW c, Written(c), c \in w.rows => w.op = "upsert"
  PROVE  Written(c)'
<1> DEFINE k == Len(writes)
<1>1. /\ Len(writes') = k + 1 /\ k \in Nat /\ writes'[k + 1] = w
      /\ \A n \in 1..k : writes'[n] = writes[n]
  BY ChainGrows
<1>2. flushing \in 0..k
  BY DEF Typed, TypeOK
<1>3. /\ \A n \in (flushing + 1)..k : c \in writes[n].rows => writes[n].op = "upsert"
      /\ \A n \in 1..flushing :
           c \in writes[n].rows /\ (\A m \in (n + 1)..flushing : c \notin writes[m].rows) =>
             writes[n].op = "upsert"
      /\ (\A n \in 1..flushing : c \notin writes[n].rows) => c \in db \cup unsaved
  BY DEF Written
<1> HIDE DEF k
<1>4. \A n \in 1..flushing : n \in 1..k /\ writes'[n] = writes[n]
  BY <1>1, <1>2
<1>5. ASSUME NEW n \in (flushing + 1)..Len(writes'), c \in writes'[n].rows
      PROVE  writes'[n].op = "upsert"
  <2>1. n = k + 1 \/ n \in (flushing + 1)..k
    BY <1>1, <1>2
  <2>2. CASE n = k + 1
    BY <1>1, <1>5, <2>2
  <2>3. CASE n \in (flushing + 1)..k
    <3>1. n \in 1..k
      BY <1>1, <1>2, <2>3
    <3> QED
      BY <1>1, <1>3, <1>5, <2>3, <3>1
  <2> QED
    BY <2>1, <2>2, <2>3
<1>6. ASSUME NEW n \in 1..flushing, c \in writes'[n].rows,
             \A m \in (n + 1)..flushing : c \notin writes'[m].rows
      PROVE  writes'[n].op = "upsert"
  <2>1. \A m \in (n + 1)..flushing : m \in 1..flushing
    BY <1>1, <1>2
  <2> QED
    BY <1>3, <1>4, <1>6, <2>1
<1>7. (\A n \in 1..flushing : c \notin writes'[n].rows) => c \in db' \cup unsaved'
  BY <1>3, <1>4
<1> QED
  BY <1>5, <1>6, <1>7 DEF Written

LEMMA WrittenShifts ==
  ASSUME Typed, Write, NEW c, Written(c)
  PROVE  Written(c)'
<1> DEFINE w == Head(writes)
<1>1. /\ writes # <<>> /\ writes' = Tail(writes)
      /\ flushing' = IF flushing > 0 THEN flushing - 1 ELSE 0
      /\ \/ db' = Applied(db, w) /\ unsaved' = unsaved \ w.rows
         \/ UNCHANGED db /\ unsaved' = unsaved \cup w.rows
  BY DEF Write
<1>2. /\ Len(writes') = Len(writes) - 1 /\ Len(writes) \in Nat \ {0}
      /\ w = writes[1] /\ w \in Entries
      /\ \A n \in 1..Len(writes') : writes'[n] = writes[n + 1]
  BY <1>1, ChainShifts
<1>3. /\ \A n \in (flushing + 1)..Len(writes) : c \in writes[n].rows => writes[n].op = "upsert"
      /\ \A n \in 1..flushing :
           c \in writes[n].rows /\ (\A m \in (n + 1)..flushing : c \notin writes[m].rows) =>
             writes[n].op = "upsert"
      /\ (\A n \in 1..flushing : c \notin writes[n].rows) => c \in db \cup unsaved
  BY DEF Written
<1>4. flushing \in 0..Len(writes)
  BY DEF Typed, TypeOK
<1> HIDE DEF w
<1>5. ASSUME NEW n \in (flushing' + 1)..Len(writes'), c \in writes'[n].rows
      PROVE  writes'[n].op = "upsert"
  <2>1. n \in 1..Len(writes') /\ n + 1 \in (flushing + 1)..Len(writes)
    BY <1>1, <1>2, <1>4
  <2> QED
    BY <1>2, <1>3, <1>5, <2>1
<1>6. ASSUME NEW n \in 1..flushing', c \in writes'[n].rows,
             \A m \in (n + 1)..flushing' : c \notin writes'[m].rows
      PROVE  writes'[n].op = "upsert"
  <2>1. n \in 1..Len(writes') /\ n + 1 \in 1..flushing
    BY <1>1, <1>2, <1>4
  <2>2. ASSUME NEW m \in (n + 1 + 1)..flushing PROVE c \notin writes[m].rows
    <3>1. m - 1 \in (n + 1)..flushing' /\ m - 1 \in 1..Len(writes') /\ m - 1 + 1 = m
      BY <1>1, <1>2, <1>4
    <3>2. writes'[m - 1] = writes[m]
      BY <1>2, <3>1
    <3> QED
      BY <1>6, <3>1, <3>2
  <2> QED
    BY <1>2, <1>3, <1>6, <2>1, <2>2
<1>7. ASSUME \A n \in 1..flushing' : c \notin writes'[n].rows
      PROVE  c \in db' \cup unsaved'
  <2>1. ASSUME NEW m \in 2..flushing PROVE c \notin writes[m].rows
    <3>1. m - 1 \in 1..flushing' /\ m - 1 \in 1..Len(writes') /\ m - 1 + 1 = m
      BY <1>1, <1>2, <1>4
    <3>2. writes'[m - 1] = writes[m]
      BY <1>2, <3>1
    <3> QED
      BY <1>7, <3>1, <3>2
  <2>2. CASE c \in w.rows
    <3>1. w.op = "upsert"
      <4>1. CASE flushing = 0
        <5>1. 1 \in (flushing + 1)..Len(writes)
          BY <1>2, <4>1
        <5> QED
          BY <1>2, <1>3, <2>2, <5>1
      <4>2. CASE flushing # 0
        <5>1. 1 \in 1..flushing /\ 1 + 1 = 2
          BY <1>2, <1>4, <4>2
        <5> QED
          BY <1>2, <1>3, <2>1, <2>2, <5>1
      <4> QED
        BY <4>1, <4>2
    <3> QED
      BY <1>1, <2>2, <3>1 DEF Applied
  <2>3. CASE c \notin w.rows
    <3>1. ASSUME NEW n \in 1..flushing PROVE c \notin writes[n].rows
      <4>1. n = 1 \/ n \in 2..flushing
        BY <1>4
      <4> QED
        BY <1>2, <2>1, <2>3, <4>1
    <3> QED
      BY <1>1, <1>3, <2>3, <3>1 DEF Applied
  <2> QED
    BY <2>2, <2>3
<1> QED
  BY <1>5, <1>6, <1>7 DEF Written

FlushHolds == Drained => \A c \in early[Default] : Written(c)

\* When the drain is over the default engine's chunks are in the indexes, and the flush
\* waits for all their writes.
LEMMA DrainedWrites ==
  ASSUME Typed, Agreed, HandHolds, Drain
  PROVE  \A c \in early'[Default] : Written(c)'
<1>1. /\ queue[Default] = <<>> /\ job[Default] = Idle /\ flushing' = Len(writes)
      /\ UNCHANGED <<early, writes, db, unsaved>>
  BY DEF Drain, memory, history
<1>2. Default \in Engines /\ early[Default] \in SUBSET Chunks /\ Len(writes) \in Nat
  <2>1. writes \in Seq(Entries) /\ early \in [Engines -> SUBSET Chunks]
    BY TypesSplit DEF Typed, Stored
  <2> QED
    BY <2>1, KnowledgeAssumption, LenProperties
<1>3. SUFFICES ASSUME NEW c \in early[Default] PROVE Written(c)'
  BY <1>1
<1>4. Len(queue[Default]) = 0
  BY <1>1, EmptySeq
<1>5. c \in vectors /\ c \in Chunks
  <2>1. InHand(Default, c)
    BY <1>2, <1>3 DEF HandHolds
  <2>2. ~Waits(Default, c)
    BY <1>4 DEF Waits
  <2> QED
    BY <1>1, <1>2, <1>3, <2>1, <2>2 DEF InHand
<1>6. AgreedOn(c)
  BY <1>5 DEF Agreed, AgreedOn
<1> DEFINE k == Len(writes)
<1>7. \A n \in (k + 1)..k : FALSE
  BY <1>2
<1>8. \A n \in 1..k :
        c \in writes[n].rows /\ (\A m \in (n + 1)..k : c \notin writes[m].rows) =>
          writes[n].op = "upsert"
  BY <1>5, <1>6 DEF AgreedOn, LastOf
<1>9. (\A n \in 1..k : c \notin writes[n].rows) => c \in db \cup unsaved
  BY <1>5, <1>6 DEF AgreedOn
<1> QED
  BY <1>1, <1>7, <1>8, <1>9 DEF Written

LEMMA FlushKept ==
  ASSUME Typed, Agreed, DrainHolds, Next
  PROVE  FlushHolds'
<1>1. /\ Stored /\ HandHolds /\ Default \in Engines
      /\ exit # "none" => phase = "exited"
      /\ Drained => \A c \in early[Default] : Written(c)
  BY TypesSplit, KnowledgeAssumption DEF Typed, DrainHolds, HandHolds
<1>2. CASE ~Drained'
  BY <1>2 DEF FlushHolds
<1>3. CASE /\ Drained' => Drained /\ early'[Default] \subseteq early[Default]
           /\ UNCHANGED <<writes, db, unsaved, flushing>>
  BY <1>1, <1>3 DEF FlushHolds, Written
\* What the process does while it drains.
<1>4. ASSUME Alive, Drained'
      PROVE  Drained /\ phase # "serving" /\ UNCHANGED <<phase, exit>>
  BY <1>1, <1>4 DEF Alive, Drained
<1>5. ASSUME NEW e \in Engines, Pass(e) PROVE FlushHolds'
  <2>1. PICK new \in SUBSET Chunks, pruned \in SUBSET Chunks :
           /\ writes' = IF pruned = {} THEN writes
                        ELSE Append(writes, [op |-> "delete", rows |-> pruned])
           /\ early' \in [Engines -> SUBSET Chunks]
           /\ \A i \in Engines, d \in Chunks :
                d \in early'[i] =>
                  /\ d \notin pruned
                  /\ d \in early[i] \/ (phase = "serving" /\ i = e /\ d \in new)
    BY <1>5, PassMoves
  <2>2. Alive /\ UNCHANGED <<db, unsaved, flushing>>
    BY <1>5 DEF Pass
  <2>3. SUFFICES ASSUME Drained', NEW c \in early'[Default] PROVE Written(c)'
    BY DEF FlushHolds
  <2>4. Drained /\ c \in early[Default] /\ c \notin pruned
    <3>1. c \in Chunks
      BY <1>1, <2>1, <2>3
    <3> QED
      BY <1>1, <1>4, <2>1, <2>2, <2>3, <3>1
  <2>5. Written(c)
    BY <1>1, <2>4
  <2>6. CASE pruned = {}
    BY <2>1, <2>2, <2>5, <2>6 DEF Written
  <2>7. CASE pruned # {}
    <3> DEFINE w == [op |-> "delete", rows |-> pruned]
    <3>1. w \in Entries /\ w.rows = pruned
      BY DEF Entries
    <3>2. writes' = Append(writes, w)
      BY <2>1, <2>7
    <3> HIDE DEF w
    <3> QED
      BY <2>2, <2>4, <2>5, <3>1, <3>2, WrittenGrows
  <2> QED
    BY <2>6, <2>7
<1>6. ASSUME NEW t \in Texts, Say(t) PROVE FlushHolds'
  <2>1. Alive /\ UNCHANGED <<writes, db, unsaved, flushing>>
    BY <1>6 DEF Say
  <2>2. phase # "serving" => UNCHANGED early
    BY <1>6 DEF Say, Given
  <2> QED
    BY <1>2, <1>3, <1>4, <2>1, <2>2
<1>7. ASSUME NEW e \in Engines, Take(e) \/ Attempt(e) \/ Retry(e) PROVE FlushHolds'
  <2>1. Alive /\ UNCHANGED <<early, writes, db, unsaved, flushing>>
    BY <1>7 DEF Take, Attempt, Retry, stores, quiet
  <2> QED
    BY <1>2, <1>3, <1>4, <2>1
<1>8. ASSUME NEW e \in Engines, Embedded(e) PROVE FlushHolds'
  <2> DEFINE w == [op |-> "upsert", rows |-> {job[e].chunk}]
  <2>1. /\ writes' = Append(writes, w) /\ job[e].step = "embed"
        /\ Alive /\ UNCHANGED <<early, db, unsaved, flushing>>
    BY <1>8 DEF Embedded, quiet
  <2>2. w \in Entries /\ w.op = "upsert"
    BY <2>1 DEF Entries, Typed, JobHolds
  <2> HIDE DEF w
  <2>3. SUFFICES ASSUME Drained', NEW c \in early'[Default] PROVE Written(c)'
    BY DEF FlushHolds
  <2>4. Written(c)
    BY <1>1, <1>4, <2>1, <2>3
  <2> QED
    BY <2>1, <2>2, <2>4, WrittenGrows
<1>9. ASSUME NEW e \in Engines, EmbedFails(e) PROVE FlushHolds'
  <2>1. Alive /\ UNCHANGED <<writes, db, unsaved, flushing>>
    BY <1>9 DEF EmbedFails, stores, quiet
  <2>2. early' = early \/ early' = [early EXCEPT ![e] = early[e] \ {job[e].chunk}]
    BY <1>9 DEF EmbedFails, Again, Dies
  <2>3. early'[Default] \subseteq early[Default]
    BY <1>1, <2>2 DEF Stored
  <2> QED
    BY <1>2, <1>3, <1>4, <2>1, <2>3
<1>10. CASE Write
  <2>1. Alive /\ UNCHANGED early
    BY <1>10 DEF Write
  <2>2. SUFFICES ASSUME Drained', NEW c \in early'[Default] PROVE Written(c)'
    BY DEF FlushHolds
  <2>3. Written(c)
    BY <1>1, <1>4, <2>1, <2>2
  <2> QED
    BY <1>10, <2>3, WrittenShifts
<1>11. CASE Drain
  BY <1>1, <1>11, DrainedWrites DEF FlushHolds
<1>12. ASSUME NEW p \in Phases \ {"drain"}, CloseStep(p),
              UNCHANGED <<memory, db, flushing, world, history>>
       PROVE  FlushHolds'
  <2>1. /\ phase = p /\ exit = "none" /\ p \notin {"serving", "exited"}
        /\ phase' = "flush" <=> p = "drain"
        /\ phase' = "pool" <=> p = "flush"
        /\ phase' = "exited" <=> p = "pool"
        /\ exit' = IF p = "pool" THEN "clean" ELSE "none"
    BY <1>1, <1>12, ClosesTo
  <2>2. Drained' => Drained
    BY <1>12, <2>1 DEF Drained
  <2> QED
    BY <1>3, <1>12, <2>2 DEF memory, history
<1>13. CASE Flushed \/ ShutdownStep
  <2>1. "flush" \in Phases \ {"drain"}
    BY DEF Phases, CloseSequence
  <2>2. CASE Signal
    BY <1>1, <1>2, <2>2 DEF Signal, Drained
  <2>3. CASE ForceExit
    BY <1>2, <2>3 DEF ForceExit, Drained
  <2> QED
    BY <1>12, <1>13, <2>1, <2>2, <2>3 DEF Flushed, ShutdownStep
<1>14. CASE Crash
  BY <1>1, <1>2, <1>14 DEF Crash, Drained
<1>15. CASE Boot
  BY <1>2, <1>15 DEF Boot, Drained
<1>16. CASE Push \/ Terminal
  <2>1. Alive /\ UNCHANGED <<early, writes, db, unsaved, flushing>>
    BY <1>16 DEF Push, Terminal, memory, history
  <2> QED
    BY <1>2, <1>3, <1>4, <2>1
<1> QED
  BY <1>5, <1>6, <1>7, <1>8, <1>9, <1>10, <1>11, <1>13, <1>14, <1>15, <1>16 DEF Next

LEMMA DrainKept ==
  ASSUME Typed, Agreed, DrainHolds, Next
  PROVE  DrainHolds'
<1>1. Stored /\ HandHolds
  BY TypesSplit DEF Typed, DrainHolds, HandHolds
<1>2. HandHolds' /\ FlushHolds'
  BY <1>1, HandKept, FlushKept
<1>3. /\ exit' # "none" => phase' = "exited"
      /\ phase' = "pool" \/ exit' = "clean" => flushing' = 0
  BY <1>1, ExitKept
<1> QED
  BY <1>2, <1>3 DEF DrainHolds, HandHolds, FlushHolds

-----------------------------------------------------------------------------
(* The invariant and what it implies                                       *)

Sound == Typed /\ JobsAreAccounted /\ Agreed /\ DrainHolds

LEMMA SoundInit == Init => Sound
<1> SUFFICES ASSUME Init PROVE Sound
  OBVIOUS
<1>1. /\ NoPass \in Repos
      /\ MaxPushes \in Nat /\ MaxBoots \in Nat
  BY KnowledgeAssumption DEF NoPass, Repos
<1>2. ShutdownTypeOK /\ phase = "serving" /\ exit = "none"
  <2>1. "serving" \in Phases
    BY DEF Phases, CloseSequence
  <2> QED
    BY <2>1 DEF Init, ShutdownInit, ShutdownTypeOK
<1>3. /\ repo = NoPass /\ seen = All(NoPass) /\ listening \in Engines
      /\ queue = All(<<>>) /\ job = All(Idle) /\ metrics = All(Zero) /\ dead = All(<<>>)
      /\ vectors = {} /\ bm25 = {} /\ writes = <<>> /\ db = {} /\ flushing = 0
      /\ pushes = 0 /\ said = {} /\ boots = 0
      /\ enqueued = All(0) /\ early = All({}) /\ unsaved = {}
  BY DEF Init
<1>4. Stored /\ Queued /\ Sourced /\ JobHolds
  BY <1>1, <1>3, StartTypes DEF Stored, Queued, Sourced, JobHolds
<1>5. JobsAreAccounted
  <2>1. Zero.ingested = 0 /\ Zero.deadLettered = 0 /\ Len(<<>>) = 0
    BY EmptySeq DEF Zero
  <2> SUFFICES ASSUME NEW o \in Engines
               PROVE  enqueued[o] = metrics[o].ingested + metrics[o].deadLettered
                                    + (Len(queue[o]) + (IF job[o] = Idle THEN 0 ELSE 1))
    BY DEF JobsAreAccounted, Pending
  <2> HIDE DEF Idle, Zero
  <2>2. enqueued[o] = 0 /\ metrics[o] = Zero /\ queue[o] = <<>> /\ job[o] = Idle
    BY <1>3 DEF All
  <2>3. metrics[o].ingested = 0 /\ metrics[o].deadLettered = 0 /\ Len(queue[o]) = 0
    BY <2>1, <2>2
  <2> QED
    BY <2>2, <2>3
<1>6. Agreed
  <2>1. Len(writes) = 0
    BY <1>3, EmptySeq
  <2> QED
    BY <1>3, <2>1 DEF Agreed
<1>7. DrainHolds
  BY <1>2, <1>3 DEF DrainHolds, Drained, All
<1> QED
  BY <1>2, <1>4, <1>5, <1>6, <1>7, TypesSplit DEF Sound, Typed

LEMMA SoundStutters ==
  ASSUME Sound, UNCHANGED vars
  PROVE  Sound'
<1>1. /\ UNCHANGED <<phase, exit, memory, db, flushing, world, history>>
      /\ UNCHANGED <<seen, listening, queue, job, metrics, dead, vectors, bm25, writes>>
      /\ UNCHANGED <<repo, pushes, said, boots, enqueued, early, unsaved>>
  BY DEF vars, memory, world, history
<1>2. ShutdownTypeOK' /\ Stored' /\ Queued' /\ Sourced' /\ JobHolds'
  BY <1>1, TypesSplit DEF Sound, Typed, ShutdownTypeOK, Stored, Queued, Sourced, JobHolds
<1>3. JobsAreAccounted'
  BY <1>1 DEF Sound, JobsAreAccounted, Pending
<1>4. Agreed'
  BY <1>1 DEF Sound, Agreed, LastOf
<1>5. DrainHolds'
  BY <1>1 DEF Sound, DrainHolds, Drained, Written, InHand, Waits
<1> QED
  BY <1>2, <1>3, <1>4, <1>5, TypesSplitNext DEF Sound, Typed

LEMMA SoundInvariant == Spec => []Sound
<1>1. Sound /\ [Next]_vars => Sound'
  BY TypesKept, JobsKept, AgreedKept, DrainKept, SoundStutters DEF Sound
<1> QED
  BY <1>1, SoundInit, PTL DEF Spec

\* Every variable keeps its type, and the dead letters stay within their ring.
THEOREM EngineTyped == Spec => []TypeOK
<1>1. Sound => TypeOK
  BY DEF Sound, Typed
<1> QED
  BY <1>1, SoundInvariant, PTL

\* Every job an engine was given is waiting, under way, ingested or counted as dead, once.
THEOREM NoJobIsLost == Spec => []JobsAreAccounted
<1>1. Sound => JobsAreAccounted
  BY DEF Sound
<1> QED
  BY <1>1, SoundInvariant, PTL

\* The indexes are the same, and the table follows them, but for writes that failed:
\* whichever engine wrote them.
THEOREM TableFollowsIndexes == Spec => []StoresAgree
<1>1. Sound => StoresAgree
  BY DEF Sound, Agreed, StoresAgree
<1> QED
  BY <1>1, SoundInvariant, PTL

\* A clean shutdown has written what the server's own engine was given before the signal;
\* what the others were given it may lose.
THEOREM CleanExitIsDurable == Spec => []DrainedIsDurable
<1>1. Sound => DrainedIsDurable
  <2> SUFFICES ASSUME Sound, exit = "clean", NEW c \in early[Default]
               PROVE  c \in db \cup unsaved
    BY DEF DrainedIsDurable
  <2>1. flushing = 0 /\ Written(c)
    BY DEF Sound, DrainHolds, Drained
  <2> QED
    BY <2>1 DEF Written
<1> QED
  BY <1>1, SoundInvariant, PTL

=============================================================================
