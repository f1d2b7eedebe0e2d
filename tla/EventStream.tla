----------------------------- MODULE EventStream -----------------------------
(***************************************************************************)
(* The live events of one build session: the in-memory bus that numbers    *)
(* and buffers them (backend/src/events/bus.ts), the SSE handler that      *)
(* replays and follows them (GET /sessions/:id/events), the batch log (GET *)
(* /sessions/:id/log), and the browser that rebuilds its view from both    *)
(* (frontend/src/live/EventStreamClient.ts, frontend/src/chat/useLiveChat. *)
(* ts).                                                                    *)
(*                                                                         *)
(* The handler subscribes and replays within one turn of the event loop,   *)
(* so opening a stream is one step; the frames then travel a socket that   *)
(* may drop what it holds.  An event is its transport number `seq` and its *)
(* identity `id`, which differ once a restart has numbered afresh.         *)
(***************************************************************************)
EXTENDS Naturals, Sequences, FiniteSets, SequencesExt

CONSTANTS
  Cap,          \* events the bus keeps of a session (200)
  Backlog,      \* frames a socket may hold (MAX_SSE_BUFFER_BYTES)
  MaxEmits,     \* bound: events emitted
  MaxDrops,     \* bound: connections lost
  MaxCrashes    \* bound: restarts of the server

ASSUME CapPositive == Cap \in Nat \ {0} /\ Backlog \in Nat \ {0}
ASSUME StreamBoundsAreNat == MaxEmits \in Nat /\ MaxDrops \in Nat /\ MaxCrashes \in Nat

VARIABLES
  bus,       \* the session's numbering and replay buffer
  file,      \* the snapshot on disk, as a restart reads it
  pending,   \* the snapshot that is being written
  sock,      \* the stream's socket, and the handler's maxSent
  cursor,    \* the browser's Last-Event-ID
  opened,    \* the browser has opened a stream before
  view,      \* the events the browser shows, one per seq
  asks,      \* re-syncs whose request is under way, first attempts and retries
  answers,   \* log responses under way
  missed,    \* history: a re-sync failed twice
  told,      \* history: the highest head a reset announced
  emitted, drops, crashes

client == <<cursor, opened, view, asks, answers, missed, told>>
counters == <<emitted, drops, crashes>>
vars == <<bus, file, pending, sock, client, counters>>

Empty == [seq |-> 0, buffer |-> <<>>]
NoFile == [none |-> TRUE]
Closed == [state |-> "none", wire |-> <<>>, sent |-> 0]

Init ==
  /\ bus = Empty /\ file = Empty /\ pending = NoFile
  /\ sock = Closed
  /\ cursor = 0 /\ opened = FALSE /\ view = {}
  /\ asks = [first |-> 0, retry |-> 0] /\ answers = {}
  /\ missed = FALSE /\ told = 0
  /\ emitted = 0 /\ drops = 0 /\ crashes = 0

-----------------------------------------------------------------------------
(* The bus                                                                 *)

\* The buffered events beyond a cursor: as the buffer is in order, all but those up
\* to the cursor, which come first.
Beyond(after) ==
  LET buffer == bus.buffer
      upTo == {i \in 1..Len(buffer) : buffer[i].seq <= after}
  IN SubSeq(buffer, Cardinality(upTo) + 1, Len(buffer))

\* Mutant: a buffer that is gone is taken for a session without events.
ReplaySinceBlindly(after) ==
  LET buffer == bus.buffer IN
  [dropped |-> buffer # <<>> /\ after + 1 < Head(buffer).seq,
   events  |-> Beyond(after)]

\* The buffered events after a cursor, and whether some of those the cursor still
\* needs are gone: trimmed off the buffer, or with the whole buffer.
ReplaySince(after) ==
  LET buffer == bus.buffer IN
  [dropped |-> IF buffer = <<>> THEN bus.seq > after
                                ELSE after + 1 < Head(buffer).seq,
   events  |-> Beyond(after)]

\* A write to the socket.  A browser that stalls until the backlog overflows is
\* dropped: nothing more is written, and what was written drains.
Push(s, frame) ==
  [s EXCEPT !.wire = Append(@, frame),
            !.state = IF Len(s.wire) = Backlog THEN "ending" ELSE @]

Frame(e) == [kind |-> "event", seq |-> e.seq, id |-> e.id]

\* An event frame, unless the stream is past it.
Write(s, e) ==
  IF s.state = "open" /\ e.seq > s.sent
  THEN [Push(s, Frame(e)) EXCEPT !.sent = e.seq]
  ELSE s

\* A stream that opens at a cursor and writes the events of a replay one after the
\* other, all beyond the cursor and in order, until one overflows the backlog.
Replay(after, events) ==
  LET n == IF Len(events) < Backlog THEN Len(events) ELSE Backlog IN
  [state |-> IF Len(events) < Backlog THEN "open" ELSE "ending",
   wire  |-> <<[kind |-> "open"]>> \o [i \in 1..n |-> Frame(events[i])],
   sent  |-> IF n = 0 THEN after ELSE events[n].seq]

\* A stream that opens and announces that the browser has to rebuild its view.
Reset ==
  [state |-> IF Backlog = 1 THEN "ending" ELSE "open",
   wire  |-> <<[kind |-> "open"], [kind |-> "reset", seq |-> bus.seq]>>,
   sent  |-> bus.seq]

\* One event: numbered after its session's last, buffered, and sent to the stream.
Emit ==
  LET e == [seq |-> bus.seq + 1, id |-> emitted + 1]
      longer == Append(bus.buffer, e)
  IN
  /\ emitted < MaxEmits
  /\ emitted' = emitted + 1
  /\ bus' = [seq |-> e.seq,
             buffer |-> IF Len(longer) > Cap THEN Tail(longer) ELSE longer]
  /\ sock' = Write(sock, e)
  /\ UNCHANGED <<file, pending, client, drops, crashes>>

\* Other sessions' events push this session's buffer out of the bus; its numbering
\* stays.
Evict ==
  /\ bus.buffer # <<>>
  /\ bus' = [bus EXCEPT !.buffer = <<>>]
  /\ UNCHANGED <<file, pending, sock, client, counters>>

\* The debounced snapshot: it is taken, the file is truncated, then written.  A
\* restart in between finds a file it cannot parse and starts empty.
BeginPersist ==
  /\ pending = NoFile /\ file # bus
  /\ pending' = bus /\ file' = Empty
  /\ UNCHANGED <<bus, sock, client, counters>>

EndPersist ==
  /\ pending # NoFile
  /\ file' = pending /\ pending' = NoFile
  /\ UNCHANGED <<bus, sock, client, counters>>

-----------------------------------------------------------------------------
(* The browser and its connections                                         *)

\* Mutant: the stream starts from the session's first event every time.
OpenFromStart ==
  /\ sock.state = "none"
  /\ LET replay == ReplaySince(0)
     IN sock' = IF replay.dropped THEN Reset ELSE Replay(0, replay.events)
  /\ UNCHANGED <<bus, file, pending, client, counters>>

\* GET /sessions/:id/events: subscribe and replay from the cursor, or announce that
\* the replay would have a gap.
Open ==
  /\ sock.state = "none"
  /\ LET replay == ReplaySince(cursor)
     IN sock' = IF replay.dropped THEN Reset ELSE Replay(cursor, replay.events)
  /\ UNCHANGED <<bus, file, pending, client, counters>>

Received == sock' = [sock EXCEPT !.wire = Tail(@)]
Resync == asks' = [asks EXCEPT !.first = @ + 1]

\* Later entries replace earlier ones with the same seq.
Merged(events) ==
  {e \in view : \A f \in events : f.seq # e.seq} \cup events

\* A stream opened again re-syncs from the log.
ReceiveOpen ==
  /\ sock.wire # <<>> /\ Head(sock.wire).kind = "open"
  /\ Received
  /\ opened' = TRUE
  /\ IF opened THEN Resync ELSE UNCHANGED asks
  /\ UNCHANGED <<bus, file, pending, cursor, view, answers, missed, told, counters>>

ReceiveEvent ==
  /\ sock.wire # <<>> /\ Head(sock.wire).kind = "event"
  /\ Received
  /\ LET e == [seq |-> Head(sock.wire).seq, id |-> Head(sock.wire).id]
     IN cursor' = e.seq /\ view' = Merged({e})
  /\ UNCHANGED <<bus, file, pending, opened, asks, answers, missed, told, counters>>

\* Mutant: a reset is received, and the log is not asked for.
ReceiveResetOnly ==
  /\ sock.wire # <<>> /\ Head(sock.wire).kind = "reset"
  /\ Received
  /\ cursor' = Head(sock.wire).seq /\ told' = Head(sock.wire).seq
  /\ view' = {}
  /\ UNCHANGED <<bus, file, pending, opened, asks, answers, missed, counters>>

\* A reset blanks the view, to be rebuilt from the log, and moves the cursor to the
\* head it announces.
ReceiveReset ==
  /\ sock.wire # <<>> /\ Head(sock.wire).kind = "reset"
  /\ Received
  /\ cursor' = Head(sock.wire).seq /\ told' = Head(sock.wire).seq
  /\ view' = {}
  /\ Resync
  /\ UNCHANGED <<bus, file, pending, opened, answers, missed, counters>>

\* GET /sessions/:id/log answers with the buffer as it is, or fails.
ServeLog ==
  /\ \E n \in {"first", "retry"} : asks[n] > 0 /\ asks' = [asks EXCEPT ![n] = @ - 1]
  /\ answers' = answers \cup {ToSet(bus.buffer)}
  /\ UNCHANGED <<bus, file, pending, sock, cursor, opened, view, missed, told, counters>>

\* A failed re-sync is tried once more, then given up.
FailLog ==
  /\ \/ /\ asks.first > 0
        /\ asks' = [first |-> asks.first - 1, retry |-> asks.retry + 1]
        /\ UNCHANGED missed
     \/ /\ asks.retry > 0
        /\ asks' = [asks EXCEPT !.retry = @ - 1]
        /\ missed' = TRUE
  /\ UNCHANGED <<bus, file, pending, sock, cursor, opened, view, answers, told, counters>>

MergeLog ==
  /\ \E log \in answers : view' = Merged(log) /\ answers' = answers \ {log}
  /\ UNCHANGED <<bus, file, pending, sock, cursor, opened, asks, missed, told, counters>>

\* Mutant: a stream the server ended is never opened again.
HangupOnce ==
  /\ sock.state = "ending" /\ sock.wire = <<>>
  /\ UNCHANGED vars

\* The browser has drained a stream that the server ended.
Hangup ==
  /\ sock.state = "ending" /\ sock.wire = <<>>
  /\ sock' = Closed
  /\ UNCHANGED <<bus, file, pending, client, counters>>

\* The connection is lost with what it holds.  The EventSource resumes with its
\* Last-Event-ID; one that gave up is replaced by a new one, which has none.
Drop ==
  /\ sock.state # "none" /\ drops < MaxDrops
  /\ drops' = drops + 1
  /\ sock' = Closed
  /\ cursor' \in {cursor, 0}
  /\ UNCHANGED <<bus, file, pending, opened, view, asks, answers, missed, told,
                 emitted, crashes>>

\* The server restarts and hydrates the bus from the snapshot.
Crash ==
  /\ crashes < MaxCrashes
  /\ crashes' = crashes + 1
  /\ bus' = file /\ pending' = NoFile
  /\ sock' = Closed
  /\ cursor' \in {cursor, 0}
  /\ asks' = [first |-> 0, retry |-> asks.first] /\ missed' = (missed \/ asks.retry > 0)
  /\ answers' = {}
  /\ UNCHANGED <<file, opened, view, told, emitted, drops>>

-----------------------------------------------------------------------------
Browser ==
  \/ Open \/ ReceiveOpen \/ ReceiveEvent \/ ReceiveReset \/ Hangup
  \/ ServeLog \/ MergeLog

Next == Emit \/ Evict \/ Browser \/ FailLog \/ Drop

Spec == Init /\ [][Next]_vars

\* With the snapshot and restarts.
RestartNext == Next \/ BeginPersist \/ EndPersist \/ Crash

RestartSpec == Init /\ [][RestartNext]_vars

\* The browser reconnects, the socket delivers and the log answers, as long as
\* nothing cuts them off.
FairSpec == Spec /\ WF_vars(Browser)

-----------------------------------------------------------------------------
(* Properties                                                              *)

Numbered == {i \in 1..Len(sock.wire) : sock.wire[i].kind # "open"}

\* What the socket holds lies beyond the browser's cursor and in order: a step is
\* never sent again over a resumed stream, and replayed and live frames never overlap.
StreamIsOrdered ==
  /\ \A i \in Numbered : sock.wire[i].seq > cursor
  /\ \A i, j \in Numbered : i < j => sock.wire[i].seq < sock.wire[j].seq

\* A step the browser's cursor has passed is missing from its view only if a reset
\* announced the gap.
NoSilentGap ==
  \A k \in 1..cursor : k > told => \E e \in view : e.seq = k

Quiet ==
  /\ sock.state = "open" /\ sock.wire = <<>>
  /\ asks = [first |-> 0, retry |-> 0] /\ answers = {}

\* Once the stream and the re-syncs are quiet, the view holds every event the bus
\* does, whatever was dropped, evicted and reset before.
ViewIsComplete ==
  Quiet /\ ~missed => ToSet(bus.buffer) \subseteq view

\* The view catches up with the bus for good, however often the connection is lost
\* and the backlog overflows.
Converges == <>[](missed \/ ToSet(bus.buffer) \subseteq view)

=============================================================================
