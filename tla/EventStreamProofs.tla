-------------------------- MODULE EventStreamProofs --------------------------
(***************************************************************************)
(* Theorems about every instance of EventStream: any capacity of the       *)
(* buffer and of the socket, any number of events, evictions and lost      *)
(* connections.  A server that never restarts is assumed (Spec): after a   *)
(* restart the numbering may lie behind the browser's cursor, and what is  *)
(* proved here is false.                                                   *)
(*                                                                         *)
(* The invariant says what the numbers are for.  Buffer and socket are     *)
(* runs of consecutive numbers, one that ends at the session's head and    *)
(* one that begins after the browser's cursor; only a reset skips.         *)
(***************************************************************************)
EXTENDS EventStream, FiniteSetTheorems, TLAPS

-----------------------------------------------------------------------------
(* The inductive invariant                                                 *)

\* As long as the server runs, the n-th event of a session has the number n.
Event(n) == [seq |-> n, id |-> n]
Events == {Event(n) : n \in Nat}

\* Consecutive events that end at head.
Run(b, head) ==
  /\ b \in Seq(Events) /\ Len(b) <= head
  /\ \A i \in 1..Len(b) : b[i] = Event((head - Len(b)) + i)

\* The buffer holds the last events, in order.
Buffered ==
  /\ bus \in [seq : Nat, buffer : Seq(Events)]
  /\ emitted = bus.seq
  /\ Run(bus.buffer, bus.seq)

Frames ==
  {[kind |-> "open"]}
    \cup {Frame(e) : e \in Events}
    \cup {[kind |-> "reset", seq |-> n] : n \in Nat}

\* How far the browser gets with the first n frames of the socket.
Reached(n) ==
  IF n = 0 THEN cursor
  ELSE IF sock.wire[n].kind = "open" THEN cursor ELSE sock.wire[n].seq

\* The socket continues where the browser is: an event frame by one, a reset by more;
\* and a stream that is open has written all there is.
Wired ==
  /\ sock \in [state : {"none", "open", "ending"}, wire : Seq(Frames), sent : Nat]
  /\ sock.state = "none" => sock.wire = <<>>
  /\ \A i \in 2..Len(sock.wire) : sock.wire[i].kind # "open"
  /\ \A i \in Numbered : sock.wire[i].seq <= sock.sent
  /\ \A i \in Numbered :
       IF sock.wire[i].kind = "event" THEN sock.wire[i].seq = Reached(i - 1) + 1
                                      ELSE sock.wire[i].seq > Reached(i - 1)
  /\ sock.state # "none" => sock.sent = Reached(Len(sock.wire))
  /\ sock.sent <= bus.seq
  /\ sock.state = "open" => sock.sent = bus.seq

\* The browser is never ahead of the bus, and its view holds events of the session only.
Followed ==
  /\ cursor \in Nat /\ cursor <= bus.seq
  /\ told \in Nat
  /\ view \subseteq Events
  /\ \A log \in answers : log \subseteq Events
  /\ asks \in [first : Nat, retry : Nat]

\* An event of the buffer the browser is past is in its view, or a re-sync that will
\* bring it is under way.
Covered ==
  ~missed /\ asks.first = 0 /\ asks.retry = 0 =>
    \A i \in 1..Len(bus.buffer) :
      bus.buffer[i].seq <= cursor =>
        bus.buffer[i] \in view \/ \E log \in answers : bus.buffer[i] \in log

StreamInv ==
  Buffered /\ Wired /\ Followed /\ StreamIsOrdered /\ NoSilentGap /\ Covered

-----------------------------------------------------------------------------
(* Events, frames and the buffer                                           *)

\* An event is its number.
LEMMA EventIs ==
  ASSUME NEW e \in Events
  PROVE  e.seq \in Nat /\ e = Event(e.seq)
  BY DEF Events, Event

\* What a frame may be.
LEMMA FrameIs ==
  ASSUME NEW f \in Frames
  PROVE  /\ f.kind \in {"open", "event", "reset"}
         /\ f.kind # "open" => f.seq \in Nat
         /\ f.kind = "event" => f.id = f.seq
  BY DEF Frames, Frame, Events, Event

LEMMA FramesAre ==
  /\ [kind |-> "open"] \in Frames
  /\ \A n \in Nat : Frame(Event(n)) \in Frames /\ [kind |-> "reset", seq |-> n] \in Frames
  BY DEF Frames, Events

LEMMA FrameFields ==
  ASSUME NEW n \in Nat
  PROVE  Frame(Event(n)).kind = "event" /\ Frame(Event(n)).seq = n
  BY DEF Frame, Event

LEMMA EventSeq ==
  ASSUME NEW n
  PROVE  Event(n).seq = n /\ Event(n).id = n
  BY DEF Event

LEMMA RunSeq ==
  ASSUME NEW b, NEW head \in Nat, Run(b, head), NEW i \in 1..Len(b)
  PROVE  b[i].seq = (head - Len(b)) + i
<1>1. b[i] = Event((head - Len(b)) + i)
  BY DEF Run
<1>2. QED
  BY <1>1, EventSeq

\* The end of a sequence.
LEMMA SuffixOf ==
  ASSUME NEW S, NEW b \in Seq(S), NEW k \in 0..Len(b)
  PROVE  /\ SubSeq(b, k + 1, Len(b)) \in Seq(S)
         /\ Len(SubSeq(b, k + 1, Len(b))) = Len(b) - k
         /\ \A i \in 1..(Len(b) - k) : SubSeq(b, k + 1, Len(b))[i] = b[k + i]
  OBVIOUS

\* The events of a run up to a number are the first of it.
LEMMA UpTo ==
  ASSUME NEW b, NEW head \in Nat, Run(b, head),
         NEW after \in Nat, after <= head, head - Len(b) <= after
  PROVE  Cardinality({i \in 1..Len(b) : b[i].seq <= after}) = after - (head - Len(b))
<1>1. Len(b) \in Nat /\ Len(b) <= head
  BY DEF Run
<1>2. \A i \in 1..Len(b) : b[i].seq = (head - Len(b)) + i
  BY RunSeq
<1>3. PICK k \in 0..Len(b) : k = after - (head - Len(b))
  BY <1>1
<1>4. {i \in 1..Len(b) : b[i].seq <= after} = 1..k
  BY <1>1, <1>2, <1>3
<1>5. Cardinality(1..k) = k
  BY FS_Interval, <1>3
<1>6. QED
  BY <1>3, <1>4, <1>5

LEMMA BufferIsRun ==
  ASSUME Buffered
  PROVE  bus.seq \in Nat /\ Run(bus.buffer, bus.seq)
  BY DEF Buffered, Run

\* A replay that has no gap is every event from the cursor to the head.
LEMMA BeyondIs ==
  ASSUME Buffered, NEW after \in Nat, after <= bus.seq, ~ReplaySince(after).dropped
  PROVE  /\ Beyond(after) \in Seq(Events)
         /\ Len(Beyond(after)) = bus.seq - after
         /\ \A i \in 1..(bus.seq - after) : Beyond(after)[i] = Event(after + i)
<1>1. bus.seq \in Nat /\ Run(bus.buffer, bus.seq) /\ bus.buffer \in Seq(Events)
      /\ Len(bus.buffer) \in Nat /\ Len(bus.buffer) <= bus.seq
  BY BufferIsRun DEF Run
<1>2. bus.seq - Len(bus.buffer) <= after
  <2>1. CASE bus.buffer = <<>>
    <3>1. ~(bus.seq > after)
      BY <2>1 DEF ReplaySince
    <3>2. QED
      BY <3>1, <2>1, <1>1
  <2>2. CASE bus.buffer # <<>>
    <3>1. ~(after + 1 < Head(bus.buffer).seq)
      BY <2>2 DEF ReplaySince
    <3>2. 1 \in 1..Len(bus.buffer) /\ Head(bus.buffer) = bus.buffer[1]
      BY <2>2, <1>1
    <3>3. Head(bus.buffer).seq = (bus.seq - Len(bus.buffer)) + 1
      BY <3>2, <1>1, RunSeq
    <3>4. QED
      BY <3>1, <3>3, <1>1
  <2>3. QED
    BY <2>1, <2>2
<1>3. PICK k \in 0..Len(bus.buffer) : k = after - (bus.seq - Len(bus.buffer))
  BY <1>1, <1>2
<1>4. Beyond(after) = SubSeq(bus.buffer, k + 1, Len(bus.buffer))
  <2>1. Cardinality({i \in 1..Len(bus.buffer) : bus.buffer[i].seq <= after}) = k
    BY <1>1, <1>2, <1>3, UpTo
  <2>2. QED
    BY <2>1 DEF Beyond
<1>5. /\ Beyond(after) \in Seq(Events) /\ Len(Beyond(after)) = Len(bus.buffer) - k
      /\ \A i \in 1..(Len(bus.buffer) - k) : Beyond(after)[i] = bus.buffer[k + i]
  BY <1>1, <1>4, SuffixOf
<1>6. Len(bus.buffer) - k = bus.seq - after
  BY <1>1, <1>3
<1>7. ASSUME NEW i \in 1..(bus.seq - after)
      PROVE  Beyond(after)[i] = Event(after + i)
  <2>1. k + i \in 1..Len(bus.buffer)
    BY <1>1, <1>3, <1>6
  <2>2. bus.buffer[k + i] = Event((bus.seq - Len(bus.buffer)) + (k + i))
    BY <2>1, <1>1 DEF Run
  <2>3. (bus.seq - Len(bus.buffer)) + (k + i) = after + i
    BY <1>1, <1>3
  <2>4. QED
    BY <1>5, <1>6, <2>2, <2>3
<1>8. QED
  BY <1>5, <1>6, <1>7

-----------------------------------------------------------------------------
(* The socket, step by step                                                *)

\* The socket of a stream that nobody has open.
LEMMA WiredClosed ==
  ASSUME bus'.seq \in Nat, sock' = Closed
  PROVE  Wired' /\ StreamIsOrdered'
  BY DEF Closed, Wired, StreamIsOrdered, Numbered, Reached

\* The socket of a step that leaves it, the browser and the session's head alone.
LEMMA WiredKept ==
  ASSUME Wired, StreamIsOrdered, sock' = sock, cursor' = cursor, bus'.seq = bus.seq
  PROVE  Wired' /\ StreamIsOrdered'
  BY DEF Wired, StreamIsOrdered, Numbered, Reached

\* The socket of a stream that opens and can replay what the browser misses.
LEMMA WiredReplay ==
  ASSUME Buffered, Followed, cursor' = cursor, bus' = bus,
         ~ReplaySince(cursor).dropped, sock' = Replay(cursor, Beyond(cursor))
  PROVE  Wired' /\ StreamIsOrdered'
<1> DEFINE events == Beyond(cursor)
           n == IF Len(events) < Backlog THEN Len(events) ELSE Backlog
           frames == [i \in 1..n |-> Frame(events[i])]
<1>1. bus.seq \in Nat /\ cursor \in Nat /\ cursor <= bus.seq /\ Backlog \in Nat \ {0}
  BY BufferIsRun, CapPositive DEF Followed
<1>2. /\ events \in Seq(Events) /\ Len(events) = bus.seq - cursor
      /\ \A i \in 1..(bus.seq - cursor) : events[i] = Event(cursor + i)
  BY <1>1, BeyondIs
<1>3. n \in Nat /\ n <= bus.seq - cursor
  BY <1>1, <1>2
<1>4. \A i \in 1..n : frames[i] = Frame(Event(cursor + i)) /\ cursor + i \in Nat
  BY <1>1, <1>2, <1>3
<1>5. frames \in Seq(Frames) /\ Len(frames) = n
  <2>1. \A i \in 1..n : frames[i] \in Frames
    BY <1>4, FramesAre
  <2>2. QED
    BY <2>1, <1>3
<1>6. sock' = [state |-> IF Len(events) < Backlog THEN "open" ELSE "ending",
               wire  |-> <<[kind |-> "open"]>> \o frames,
               sent  |-> IF n = 0 THEN cursor ELSE events[n].seq]
  BY DEF Replay
<1>7. /\ sock'.state \in {"open", "ending"}
      /\ sock'.state = "open" => n = bus.seq - cursor
  BY <1>1, <1>2, <1>6
<1>8. sock'.sent = cursor + n
  BY <1>1, <1>2, <1>3, <1>6, EventSeq
<1> HIDE DEF n, events, frames
<1>9. /\ sock'.wire \in Seq(Frames) /\ Len(sock'.wire) = n + 1
      /\ sock'.wire[1] = [kind |-> "open"]
      /\ \A i \in 2..(n + 1) : sock'.wire[i] = frames[i - 1]
  <2>1. <<[kind |-> "open"]>> \in Seq(Frames) /\ Len(<<[kind |-> "open"]>>) = 1
    BY FramesAre
  <2>2. sock'.wire = <<[kind |-> "open"]>> \o frames
    BY <1>6
  <2>3. QED
    BY <2>1, <2>2, <1>3, <1>5
<1>10. \A i \in 2..(n + 1) : sock'.wire[i].kind = "event" /\ sock'.wire[i].seq = cursor + (i - 1)
  <2>1. ASSUME NEW i \in 2..(n + 1)
        PROVE  sock'.wire[i] = Frame(Event(cursor + (i - 1))) /\ cursor + (i - 1) \in Nat
    <3>1. i - 1 \in 1..n
      BY <1>3
    <3>2. QED
      BY <3>1, <1>4, <1>9
  <2>2. QED
    BY <2>1, FrameFields
<1>11. Numbered' = 2..(n + 1)
  BY <1>9, <1>10, <1>3 DEF Numbered
<1>12. \A i \in 0..(n + 1) : Reached(i)' = IF i <= 1 THEN cursor ELSE cursor + (i - 1)
  BY <1>9, <1>10, <1>3 DEF Reached
<1>13. sock' \in [state : {"none", "open", "ending"}, wire : Seq(Frames), sent : Nat]
  BY <1>1, <1>3, <1>6, <1>7, <1>8, <1>9
<1>14. Wired'
  <2>1. /\ sock'.state # "none" /\ sock'.sent <= bus'.seq
        /\ sock'.state = "open" => sock'.sent = bus'.seq
    BY <1>1, <1>3, <1>7, <1>8
  <2>2. \A i \in Numbered' : sock'.wire[i].kind = "event" /\ sock'.wire[i].seq <= sock'.sent
                             /\ sock'.wire[i].seq = Reached(i - 1)' + 1
    <3> SUFFICES ASSUME NEW i \in 2..(n + 1)
                 PROVE  /\ sock'.wire[i].kind = "event" /\ sock'.wire[i].seq <= sock'.sent
                        /\ sock'.wire[i].seq = Reached(i - 1)' + 1
      BY <1>11
    <3>1. Reached(i - 1)' = IF i - 1 <= 1 THEN cursor ELSE cursor + (i - 2)
      <4>1. i - 1 \in 0..(n + 1) /\ (i - 1) - 1 = i - 2
        BY <1>3
      <4>2. QED
        BY <4>1, <1>12
    <3>2. QED
      BY <3>1, <1>1, <1>3, <1>8, <1>10
  <2>3. sock'.sent = Reached(Len(sock.wire))'
    <3>1. n + 1 \in 0..(n + 1) /\ (n + 1 <= 1 => n = 0) /\ (n + 1) - 1 = n
      BY <1>3
    <3>2. QED
      BY <3>1, <1>1, <1>8, <1>9, <1>12
  <2>4. \A i \in 2..Len(sock'.wire) : sock'.wire[i].kind # "open"
    BY <1>9, <1>10
  <2>5. QED
    BY <2>1, <2>2, <2>3, <2>4, <1>13 DEF Wired
<1>15. StreamIsOrdered'
  BY <1>1, <1>3, <1>10, <1>11 DEF StreamIsOrdered
<1>16. QED
  BY <1>14, <1>15

\* The socket of a stream that opens with a reset.
LEMMA WiredReset ==
  ASSUME Buffered, Followed, cursor' = cursor, bus' = bus,
         ReplaySince(cursor).dropped, sock' = Reset
  PROVE  Wired' /\ StreamIsOrdered'
<1>1. bus.seq \in Nat /\ cursor \in Nat /\ cursor <= bus.seq
  BY BufferIsRun DEF Followed
<1>2. cursor < bus.seq
  <2>1. CASE bus.buffer = <<>>
    BY <2>1, <1>1 DEF ReplaySince
  <2>2. CASE bus.buffer # <<>>
    <3>1. cursor + 1 < Head(bus.buffer).seq
      BY <2>2 DEF ReplaySince
    <3>2. /\ 1 \in 1..Len(bus.buffer) /\ Head(bus.buffer) = bus.buffer[1]
          /\ Len(bus.buffer) \in Nat /\ Len(bus.buffer) <= bus.seq
      BY <2>2, BufferIsRun DEF Run
    <3>3. Head(bus.buffer).seq = (bus.seq - Len(bus.buffer)) + 1
      BY <3>2, BufferIsRun, RunSeq
    <3>4. QED
      BY <3>1, <3>2, <3>3, <1>1
  <2>3. QED
    BY <2>1, <2>2
<1>3. /\ sock'.state \in {"open", "ending"} /\ sock'.sent = bus.seq
      /\ sock'.wire = <<[kind |-> "open"], [kind |-> "reset", seq |-> bus.seq]>>
  BY DEF Reset
<1>4. /\ sock'.wire \in Seq(Frames) /\ Len(sock'.wire) = 2
      /\ sock'.wire[1].kind = "open"
      /\ sock'.wire[2].kind = "reset" /\ sock'.wire[2].seq = bus.seq
  BY <1>1, <1>3, FramesAre
<1>5. Numbered' = {2}
  BY <1>4 DEF Numbered
<1>6. Reached(1)' = cursor /\ Reached(2)' = bus.seq
  BY <1>4 DEF Reached
<1>7. sock' \in [state : {"none", "open", "ending"}, wire : Seq(Frames), sent : Nat]
  BY <1>1, <1>3, <1>4 DEF Reset
<1>8. \A i \in 2..Len(sock'.wire) : i = 2
  BY <1>4
<1>9. Wired'
  BY <1>1, <1>2, <1>3, <1>4, <1>5, <1>6, <1>7, <1>8 DEF Wired
<1>10. StreamIsOrdered'
  BY <1>1, <1>2, <1>4, <1>5 DEF StreamIsOrdered
<1>11. QED
  BY <1>9, <1>10

\* The frames of a socket are what Frames says.
LEMMA WireFrames ==
  ASSUME Wired, NEW i \in 1..Len(sock.wire)
  PROVE  /\ sock.wire[i] \in Frames
         /\ i \in Numbered => sock.wire[i].seq \in Nat
<1>1. sock.wire \in Seq(Frames)
  BY DEF Wired
<1>2. sock.wire[i] \in Frames
  BY <1>1
<1>3. QED
  BY <1>2, FrameIs DEF Numbered

\* A numbered frame lies within what the handler has sent.
LEMMA NumberedIs ==
  ASSUME Wired, NEW i \in Numbered
  PROVE  i \in 1..Len(sock.wire) /\ sock.wire[i].seq \in Nat /\ sock.wire[i].seq <= sock.sent
<1>1. i \in 1..Len(sock.wire)
  BY DEF Numbered
<1>2. sock.wire[i].seq \in Nat
  BY <1>1, WireFrames
<1>3. sock.wire[i].seq <= sock.sent
  BY DEF Wired
<1>4. QED
  BY <1>1, <1>2, <1>3

\* What a socket is made of.
LEMMA SockIs ==
  ASSUME NEW st \in {"none", "open", "ending"}, NEW w \in Seq(Frames), NEW k \in Nat
  PROVE  [state |-> st, wire |-> w, sent |-> k]
           \in [state : {"none", "open", "ending"}, wire : Seq(Frames), sent : Nat]
  OBVIOUS

\* The socket of a step that writes the next event to it, or is past writing.
LEMMA WiredWrite ==
  ASSUME Wired, StreamIsOrdered, cursor \in Nat, cursor' = cursor, bus.seq \in Nat,
         bus'.seq = bus.seq + 1, sock' = Write(sock, Event(bus.seq + 1))
  PROVE  Wired' /\ StreamIsOrdered'
<1>a. PICK n \in Nat : n = Len(sock.wire)
  BY DEF Wired
<1>b. PICK f : f = Frame(Event(bus.seq + 1))
  OBVIOUS
<1>1. /\ sock.wire \in Seq(Frames) /\ n = Len(sock.wire) /\ sock.sent \in Nat
      /\ sock \in [state : {"none", "open", "ending"}, wire : Seq(Frames), sent : Nat]
  BY <1>a DEF Wired
<1>2. Event(bus.seq + 1).seq = bus.seq + 1
  BY EventSeq
<1>3. CASE sock.state # "open"
  <2>1. sock' = sock
    BY <1>3 DEF Write
  <2>2. sock.sent <= bus.seq + 1
    BY <1>1 DEF Wired
  <2>3. QED
    BY <2>1, <2>2, <1>3 DEF Wired, StreamIsOrdered, Numbered, Reached
<1>4. CASE sock.state = "open"
  <2>1. sock.sent = bus.seq /\ sock.sent = Reached(n)
    BY <1>4, <1>1 DEF Wired
  <2>2. sock' = [Push(sock, f) EXCEPT !.sent = bus.seq + 1]
    BY <1>b, <1>1, <1>2, <1>4, <2>1 DEF Write
  <2>3. /\ sock'.wire = Append(sock.wire, f) /\ sock'.sent = bus.seq + 1
        /\ sock'.state \in {"open", "ending"}
        /\ sock' \in [state : {"none", "open", "ending"}, wire : Seq(Frames), sent : Nat]
    <3>1. f \in Frames
      <4>1. bus.seq + 1 \in Nat
        OBVIOUS
      <4>2. QED
        BY <4>1, <1>b, FramesAre
    <3>2. Append(sock.wire, f) \in Seq(Frames)
      BY <3>1, <1>1
    <3>3. sock' = [state |-> IF Len(sock.wire) = Backlog THEN "ending" ELSE "open",
                   wire  |-> Append(sock.wire, f), sent |-> bus.seq + 1]
      BY <2>2, <1>1, <1>4 DEF Push
    <3>4. PICK st \in {"open", "ending"}, w \in Seq(Frames), k \in Nat :
            /\ sock' = [state |-> st, wire |-> w, sent |-> k]
            /\ w = Append(sock.wire, f) /\ k = bus.seq + 1
      <4>1. bus.seq + 1 \in Nat
        OBVIOUS
      <4>2. CASE Len(sock.wire) = Backlog
        BY <3>2, <3>3, <4>1, <4>2
      <4>3. CASE Len(sock.wire) # Backlog
        BY <3>2, <3>3, <4>1, <4>3
      <4>4. QED
        BY <4>2, <4>3
    <3>5. sock'.wire = Append(sock.wire, f) /\ sock'.sent = bus.seq + 1
      BY <3>4
    <3>6. sock'.state \in {"open", "ending"}
      BY <3>4
    <3>7. sock' \in [state : {"none", "open", "ending"}, wire : Seq(Frames), sent : Nat]
      <4>1. st \in {"none", "open", "ending"}
        OBVIOUS
      <4>2. [state |-> st, wire |-> w, sent |-> k]
              \in [state : {"none", "open", "ending"}, wire : Seq(Frames), sent : Nat]
        BY <4>1, SockIs
      <4>3. QED
        BY <3>4, <4>2, Zenon
    <3>8. QED
      BY <3>5, <3>6, <3>7
  <2>4. /\ Len(sock'.wire) = n + 1 /\ sock'.wire[n + 1] = f
        /\ \A i \in 1..n : sock'.wire[i] = sock.wire[i]
    BY <2>3, <1>1
  <2>5. f.kind = "event" /\ f.seq = bus.seq + 1
    <3>1. bus.seq + 1 \in Nat
      OBVIOUS
    <3>2. QED
      BY <3>1, <1>b, FrameFields
  <2>6. Numbered' = Numbered \cup {n + 1} /\ Numbered \subseteq 1..n
    BY <2>4, <2>5, <1>1 DEF Numbered
  <2>7. \A i \in 0..n : Reached(i)' = Reached(i)
    BY <2>4, <1>1 DEF Reached
  <2>8. Reached(n + 1)' = bus.seq + 1
    BY <2>4, <2>5, <1>1 DEF Reached
  <2>9. \A i \in Numbered : sock.wire[i].seq \in Nat /\ sock.wire[i].seq <= sock.sent
    BY NumberedIs
  <2>10. Wired'
    <3>1. \A i \in Numbered' : sock'.wire[i].seq <= sock'.sent
      <4>1. \A i \in Numbered : sock'.wire[i].seq <= sock'.sent
        <5> SUFFICES ASSUME NEW i \in Numbered PROVE sock'.wire[i].seq <= sock'.sent
          OBVIOUS
        <5>1. sock'.wire[i] = sock.wire[i]
          BY <2>4, <2>6
        <5>2. QED
          BY <5>1, <2>1, <2>3, <2>9
      <4>2. sock'.wire[n + 1].seq <= sock'.sent
        BY <2>3, <2>4, <2>5
      <4>3. QED
        BY <4>1, <4>2, <2>6
    <3>2. \A i \in Numbered' :
            IF sock'.wire[i].kind = "event" THEN sock'.wire[i].seq = Reached(i - 1)' + 1
                                            ELSE sock'.wire[i].seq > Reached(i - 1)'
      <4>1. CASE n + 1 \in Numbered'
        <5>1. (n + 1) - 1 = n
          BY <1>1
        <5>2. Reached((n + 1) - 1)' = bus.seq
          BY <5>1, <1>1, <2>1, <2>7
        <5>3. QED
          <6>1. \A i \in Numbered :
                  IF sock'.wire[i].kind = "event"
                  THEN sock'.wire[i].seq = Reached(i - 1)' + 1
                  ELSE sock'.wire[i].seq > Reached(i - 1)'
            <7> SUFFICES ASSUME NEW i \in Numbered
                         PROVE  IF sock'.wire[i].kind = "event"
                                THEN sock'.wire[i].seq = Reached(i - 1)' + 1
                                ELSE sock'.wire[i].seq > Reached(i - 1)'
              OBVIOUS
            <7>1. i \in 1..n /\ i - 1 \in 0..n
              BY <1>1, <2>6
            <7>2. Reached(i - 1)' = Reached(i - 1) /\ sock'.wire[i] = sock.wire[i]
              BY <7>1, <2>4, <2>7
            <7>3. QED
              BY <7>2 DEF Wired
          <6>2. QED
            BY <6>1, <5>2, <2>4, <2>5, <2>6
      <4>2. QED
        BY <4>1, <2>6
    <3>3. \A i \in 2..Len(sock'.wire) : sock'.wire[i].kind # "open"
      <4>1. \A i \in 2..n : sock.wire[i].kind # "open"
        BY <1>1 DEF Wired
      <4>2. QED
        BY <4>1, <2>4, <2>5, <1>1
    <3>4. sock'.sent = Reached(Len(sock.wire))'
      BY <2>3, <2>4, <2>8
    <3>5. QED
      BY <1>1, <2>3, <3>1, <3>2, <3>3, <3>4 DEF Wired
  <2>11. StreamIsOrdered'
    <3>1. cursor <= bus.seq
      <4>1. CASE n \in Numbered
        BY <4>1, <2>1, <2>9, <1>1 DEF StreamIsOrdered, Reached, Numbered
      <4>2. CASE n \notin Numbered
        BY <4>2, <2>1, <1>1 DEF Reached, Numbered
      <4>3. QED
        BY <4>1, <4>2
    <3>2. \A i \in Numbered : sock.wire[i].seq > cursor
      BY DEF StreamIsOrdered
    <3>3. \A i, j \in Numbered : i < j => sock.wire[i].seq < sock.wire[j].seq
      BY DEF StreamIsOrdered
    <3>4. \A i \in Numbered' : sock'.wire[i].seq > cursor'
      <4>1. \A i \in Numbered : sock'.wire[i] = sock.wire[i]
        BY <2>4, <2>6
      <4>2. sock'.wire[n + 1].seq > cursor
        BY <3>1, <2>4, <2>5
      <4>3. QED
        BY <4>1, <4>2, <3>2, <2>6
    <3>5. ASSUME NEW i \in Numbered', NEW j \in Numbered', i < j
          PROVE  sock'.wire[i].seq < sock'.wire[j].seq
      <4>1. i \in Numbered /\ i \in 1..n /\ sock'.wire[i] = sock.wire[i]
        BY <3>5, <1>1, <2>4, <2>6
      <4>2. CASE j \in Numbered
        BY <3>3, <3>5, <4>1, <4>2, <2>4, <2>6
      <4>3. CASE j = n + 1
        BY <4>1, <4>3, <1>1, <2>1, <2>4, <2>5, <2>9
      <4>4. QED
        BY <4>2, <4>3, <2>6
    <3>6. QED
      BY <3>4, <3>5 DEF StreamIsOrdered
  <2>12. QED
    BY <2>10, <2>11
<1>5. QED
  BY <1>3, <1>4

\* The socket after the browser has received its first frame, and the cursor with it.
LEMMA WiredReceived ==
  ASSUME Wired, StreamIsOrdered, cursor \in Nat, cursor <= bus.seq, bus.seq \in Nat,
         sock.wire # <<>>, Received, cursor' = Reached(1), bus' = bus
  PROVE  /\ Wired' /\ StreamIsOrdered'
         /\ cursor' \in Nat /\ cursor' <= bus.seq
<1>a. PICK n \in Nat : n = Len(sock.wire)
  BY DEF Wired
<1>1. /\ sock.wire \in Seq(Frames) /\ n = Len(sock.wire) /\ n >= 1 /\ sock.sent \in Nat
      /\ sock.sent <= bus.seq /\ sock.state # "none"
      /\ sock \in [state : {"none", "open", "ending"}, wire : Seq(Frames), sent : Nat]
  BY <1>a DEF Wired
<1>2. /\ sock'.wire = Tail(sock.wire) /\ sock'.sent = sock.sent /\ sock'.state = sock.state
      /\ sock' \in [state : {"none", "open", "ending"}, wire : Seq(Frames), sent : Nat]
  <2>1. Tail(sock.wire) \in Seq(Frames)
    BY <1>1
  <2>2. sock' = [sock EXCEPT !.wire = Tail(sock.wire)]
    BY DEF Received
  <2>3. QED
    BY <2>1, <2>2, <1>1
<1>3. /\ Len(sock'.wire) = n - 1
      /\ \A i \in 1..(n - 1) : sock'.wire[i] = sock.wire[i + 1]
  BY <1>1, <1>2
<1>4. \A i \in Numbered' : i \in 1..(n - 1) /\ i + 1 \in Numbered
  BY <1>1, <1>3 DEF Numbered
<1>5. \A i \in Numbered : i \in 1..n /\ sock.wire[i].seq \in Nat /\ sock.wire[i].seq <= sock.sent
  BY <1>1, NumberedIs
<1>6. cursor' \in Nat /\ cursor' <= bus.seq
  <2>1. CASE 1 \in Numbered
    BY <2>1, <1>1, <1>5 DEF Reached, Numbered
  <2>2. CASE 1 \notin Numbered
    BY <2>2, <1>1 DEF Reached, Numbered
  <2>3. QED
    BY <2>1, <2>2
<1>7. \A i \in 0..(n - 1) : Reached(i)' = Reached(i + 1)
  <2> SUFFICES ASSUME NEW i \in 0..(n - 1) PROVE Reached(i)' = Reached(i + 1)
    OBVIOUS
  <2>1. CASE i = 0
    BY <2>1 DEF Reached
  <2>2. CASE i # 0
    <3>1. i \in 1..(n - 1) /\ i + 1 \in 2..n /\ i + 1 # 0
      BY <2>2, <1>1
    <3>2. sock'.wire[i] = sock.wire[i + 1] /\ sock.wire[i + 1].kind # "open"
      BY <3>1, <1>1, <1>3 DEF Wired
    <3>3. QED
      BY <3>1, <3>2, <2>2 DEF Reached
  <2>3. QED
    BY <2>1, <2>2
<1>8. Wired'
  <2>1. \A i \in Numbered' : sock'.wire[i].seq <= sock'.sent
    BY <1>2, <1>3, <1>4, <1>5
  <2>2. \A i \in Numbered' :
          IF sock'.wire[i].kind = "event" THEN sock'.wire[i].seq = Reached(i - 1)' + 1
                                          ELSE sock'.wire[i].seq > Reached(i - 1)'
    <3> SUFFICES ASSUME NEW i \in Numbered'
                 PROVE  IF sock'.wire[i].kind = "event"
                        THEN sock'.wire[i].seq = Reached(i - 1)' + 1
                        ELSE sock'.wire[i].seq > Reached(i - 1)'
      OBVIOUS
    <3>1. i \in 1..(n - 1) /\ i - 1 \in 0..(n - 1) /\ (i - 1) + 1 = i /\ (i + 1) - 1 = i
      BY <1>1, <1>4
    <3>2. Reached(i - 1)' = Reached(i)
      BY <3>1, <1>7
    <3>3. IF sock.wire[i + 1].kind = "event"
          THEN sock.wire[i + 1].seq = Reached((i + 1) - 1) + 1
          ELSE sock.wire[i + 1].seq > Reached((i + 1) - 1)
      BY <1>4 DEF Wired
    <3>4. QED
      BY <3>1, <3>2, <3>3, <1>3
  <2>3. \A i \in 2..Len(sock'.wire) : sock'.wire[i].kind # "open"
    <3>1. \A i \in 2..n : sock.wire[i].kind # "open"
      BY <1>1 DEF Wired
    <3>2. \A i \in 2..(n - 1) : i \in 1..(n - 1) /\ i + 1 \in 2..n
      BY <1>1
    <3>3. QED
      BY <3>1, <3>2, <1>3
  <2>4. sock'.sent = Reached(Len(sock.wire))'
    <3>1. n - 1 \in 0..(n - 1) /\ (n - 1) + 1 = n
      BY <1>1
    <3>2. sock.sent = Reached(n)
      BY <1>1 DEF Wired
    <3>3. QED
      BY <3>1, <3>2, <1>2, <1>3, <1>7
  <2>5. sock.state = "open" => sock.sent = bus.seq
    BY DEF Wired
  <2>6. QED
    BY <1>1, <1>2, <2>1, <2>2, <2>3, <2>4, <2>5 DEF Wired
<1>9. StreamIsOrdered'
  <2>1. \A i, j \in Numbered : i < j => sock.wire[i].seq < sock.wire[j].seq
    BY DEF StreamIsOrdered
  <2>2. \A i \in Numbered' : sock'.wire[i].seq > cursor'
    <3> SUFFICES ASSUME NEW i \in Numbered' PROVE sock'.wire[i].seq > cursor'
      OBVIOUS
    <3>1. /\ i \in 1..(n - 1) /\ i + 1 \in Numbered /\ 1 < i + 1
          /\ sock'.wire[i] = sock.wire[i + 1]
      BY <1>3, <1>4
    <3>2. CASE 1 \in Numbered
      BY <3>1, <3>2, <2>1 DEF Reached, Numbered
    <3>3. CASE 1 \notin Numbered
      BY <3>1, <3>3, <1>1 DEF StreamIsOrdered, Reached, Numbered
    <3>4. QED
      BY <3>2, <3>3
  <2>3. ASSUME NEW i \in Numbered', NEW j \in Numbered', i < j
        PROVE  sock'.wire[i].seq < sock'.wire[j].seq
    <3>1. /\ i \in 1..(n - 1) /\ i + 1 \in Numbered /\ sock'.wire[i] = sock.wire[i + 1]
          /\ j \in 1..(n - 1) /\ j + 1 \in Numbered /\ sock'.wire[j] = sock.wire[j + 1]
      BY <1>3, <1>4
    <3>2. i + 1 < j + 1
      BY <2>3, <3>1
    <3>3. QED
      BY <3>1, <3>2, <2>1
  <2>4. QED
    BY <2>2, <2>3 DEF StreamIsOrdered
<1>10. QED
  BY <1>6, <1>8, <1>9

-----------------------------------------------------------------------------
(* The view, step by step                                                  *)

\* A merge into the view keeps every event the view had, as an event is its number.
LEMMA MergeKeeps ==
  ASSUME Followed, NEW log, log \subseteq Events
  PROVE  view \subseteq Merged(log) /\ log \subseteq Merged(log) /\ Merged(log) \subseteq Events
<1>1. ASSUME NEW e \in view PROVE e \in Merged(log)
  <2>1. CASE \A f \in log : f.seq # e.seq
    BY <1>1, <2>1 DEF Merged
  <2>2. CASE ~\A f \in log : f.seq # e.seq
    <3>1. PICK f \in log : f.seq = e.seq
      BY <2>2
    <3>2. f = Event(f.seq) /\ e = Event(e.seq)
      BY <1>1, EventIs DEF Followed
    <3>3. QED
      BY <3>1, <3>2 DEF Merged
  <2>3. QED
    BY <2>1, <2>2
<1>2. QED
  BY <1>1 DEF Merged, Followed

\* The events of the buffer are events of the session.
LEMMA BufferEvents ==
  ASSUME Buffered
  PROVE  /\ ToSet(bus.buffer) \subseteq Events
         /\ \A i \in 1..Len(bus.buffer) : bus.buffer[i] \in ToSet(bus.buffer)
  BY DEF Buffered, Run, ToSet

\* What the browser knows, and what covers it, after a step that changes neither the
\* buffer nor what the browser has, and moves the cursor back if at all.
LEMMA BrowserKept ==
  ASSUME Buffered, Followed, NoSilentGap, Covered, bus' = bus,
         cursor' \in Nat, cursor' <= cursor,
         UNCHANGED <<view, asks, answers, missed, told>>
  PROVE  Followed' /\ NoSilentGap' /\ Covered'
<1>1. bus.seq \in Nat /\ cursor \in Nat
  BY BufferIsRun DEF Followed
<1>2. Followed'
  BY <1>1 DEF Followed
<1>3. NoSilentGap'
  <2>1. \A k \in 1..cursor' : k \in 1..cursor
    BY <1>1
  <2>2. QED
    BY <2>1 DEF NoSilentGap
<1>4. Covered'
  <2>1. \A i \in 1..Len(bus.buffer) : bus.buffer[i].seq \in Nat
    BY EventIs DEF Buffered, Run
  <2>2. \A i \in 1..Len(bus.buffer) :
          bus.buffer[i].seq <= cursor' => bus.buffer[i].seq <= cursor
    BY <1>1, <2>1
  <2>3. QED
    BY <2>2 DEF Covered
<1>5. QED
  BY <1>2, <1>3, <1>4

-----------------------------------------------------------------------------
(* The actions                                                             *)

LEMMA StreamInit == Init => StreamInv
<1> SUFFICES ASSUME Init PROVE StreamInv
  OBVIOUS
<1>1. /\ bus = [seq |-> 0, buffer |-> <<>>] /\ emitted = 0 /\ sock = Closed
      /\ cursor = 0 /\ told = 0 /\ view = {} /\ answers = {}
      /\ asks = [first |-> 0, retry |-> 0]
  BY DEF Init, Empty
<1>2. Buffered
  <2>1. <<>> \in Seq(Events) /\ Len(<<>>) = 0
    OBVIOUS
  <2>2. QED
    BY <1>1, <2>1 DEF Buffered, Run
<1>3. Wired /\ StreamIsOrdered
  BY <1>1 DEF Closed, Wired, StreamIsOrdered, Numbered, Reached
<1>4. Followed /\ NoSilentGap /\ Covered
  BY <1>1 DEF Followed, NoSilentGap, Covered
<1>5. QED
  BY <1>2, <1>3, <1>4 DEF StreamInv

\* Where an event that stays in the buffer was before the newest one came.
LEMMA PlaceBefore ==
  ASSUME NEW h \in Nat, NEW m \in Nat, NEW n \in Nat, NEW c \in Nat, NEW i \in 1..n,
         m <= h, n <= m + 1, c <= h, ((h + 1) - n) + i <= c
  PROVE  /\ (m - n) + (1 + i) \in 1..m
         /\ (h - m) + ((m - n) + (1 + i)) = ((h + 1) - n) + i
  OBVIOUS

LEMMA EmitKeeps == StreamInv /\ Emit => StreamInv'
<1> SUFFICES ASSUME StreamInv, Emit PROVE StreamInv'
  OBVIOUS
<1> USE DEF StreamInv
<1> DEFINE e == Event(bus.seq + 1)
           longer == Append(bus.buffer, e)
<1>1. /\ emitted = bus.seq /\ bus.seq \in Nat /\ Run(bus.buffer, bus.seq)
      /\ cursor \in Nat /\ cursor <= bus.seq
  BY BufferIsRun DEF Buffered, Followed
<1>2. /\ bus' = [seq |-> bus.seq + 1,
                 buffer |-> IF Len(longer) > Cap THEN Tail(longer) ELSE longer]
      /\ sock' = Write(sock, e) /\ emitted' = emitted + 1
      /\ UNCHANGED <<cursor, view, asks, answers, missed, told>>
  BY <1>1 DEF Emit, client, Event
<1>3. e \in Events
  BY <1>1 DEF Events
<1>4. /\ longer \in Seq(Events) /\ Len(longer) = Len(bus.buffer) + 1
      /\ \A i \in 1..Len(longer) : longer[i] = Event(((bus.seq + 1) - Len(longer)) + i)
  <2>1. bus.buffer \in Seq(Events) /\ Len(bus.buffer) \in Nat /\ Len(bus.buffer) <= bus.seq
    BY <1>1 DEF Run
  <2>2. longer \in Seq(Events) /\ Len(longer) = Len(bus.buffer) + 1
    BY <2>1, <1>3
  <2>3. ASSUME NEW i \in 1..Len(longer)
        PROVE  longer[i] = Event(((bus.seq + 1) - Len(longer)) + i)
    <3>1. CASE i = Len(bus.buffer) + 1
      <4>1. ((bus.seq + 1) - Len(longer)) + i = bus.seq + 1
        BY <3>1, <2>1, <2>2, <1>1
      <4>2. longer[i] = e
        BY <3>1, <2>1, <1>3
      <4>3. QED
        BY <4>1, <4>2
    <3>2. CASE i # Len(bus.buffer) + 1
      <4>1. i \in 1..Len(bus.buffer)
        BY <3>2, <2>1, <2>2
      <4>2. longer[i] = bus.buffer[i]
        BY <4>1, <2>1, <1>3
      <4>3. bus.buffer[i] = Event((bus.seq - Len(bus.buffer)) + i)
        BY <4>1, <1>1 DEF Run
      <4>4. (bus.seq - Len(bus.buffer)) + i = ((bus.seq + 1) - Len(longer)) + i
        BY <4>1, <2>1, <2>2, <1>1
      <4>5. QED
        BY <4>2, <4>3, <4>4
    <3>3. QED
      BY <3>1, <3>2
  <2>4. QED
    BY <2>2, <2>3
<1> HIDE DEF longer
<1>5. Run(bus'.buffer, bus'.seq) /\ bus' \in [seq : Nat, buffer : Seq(Events)]
  <2>1. Len(longer) \in Nat /\ Len(longer) >= 1 /\ Len(longer) <= bus.seq + 1
    BY <1>1, <1>4 DEF Run
  <2>2. CASE ~(Len(longer) > Cap)
    <3>1. bus'.buffer = longer /\ bus'.seq = bus.seq + 1
      BY <2>2, <1>2
    <3>2. Run(longer, bus.seq + 1)
      BY <2>1, <1>4 DEF Run
    <3>3. QED
      BY <3>1, <3>2, <2>2, <1>1, <1>2, <1>4
  <2>3. CASE Len(longer) > Cap
    <3>1. bus'.buffer = Tail(longer) /\ bus'.seq = bus.seq + 1
      BY <2>3, <1>2
    <3>2. /\ Tail(longer) \in Seq(Events) /\ Len(Tail(longer)) = Len(longer) - 1
          /\ \A i \in 1..(Len(longer) - 1) : Tail(longer)[i] = longer[i + 1]
      BY <2>1, <1>4
    <3>3. ASSUME NEW i \in 1..(Len(longer) - 1)
          PROVE  Tail(longer)[i] = Event(((bus.seq + 1) - (Len(longer) - 1)) + i)
      <4>1. i + 1 \in 1..Len(longer)
        BY <2>1
      <4>2. ((bus.seq + 1) - Len(longer)) + (i + 1) = ((bus.seq + 1) - (Len(longer) - 1)) + i
        BY <2>1, <1>1
      <4>3. QED
        BY <4>1, <4>2, <3>2, <1>4
    <3>4. Run(Tail(longer), bus.seq + 1)
      BY <3>2, <3>3, <2>1, <1>1 DEF Run
    <3>5. QED
      BY <3>1, <3>2, <3>4, <2>3, <1>1, <1>2
  <2>4. QED
    BY <2>2, <2>3
<1>6. Buffered'
  BY <1>1, <1>2, <1>5 DEF Buffered
<1>7. Wired' /\ StreamIsOrdered'
  BY <1>1, <1>2, WiredWrite
<1>8. Followed' /\ NoSilentGap'
  BY <1>1, <1>2 DEF Followed, NoSilentGap
<1>9. Covered'
  <2>1. ASSUME NEW i \in 1..Len(bus'.buffer), bus'.buffer[i].seq <= cursor
        PROVE  \E k \in 1..Len(bus.buffer) : bus'.buffer[i] = bus.buffer[k]
    <3>1. PICK m \in Nat, n \in Nat :
            m = Len(bus.buffer) /\ n = Len(bus'.buffer) /\ m <= bus.seq /\ n <= bus.seq + 1
      BY <1>1, <1>2, <1>5 DEF Run
    <3>2. n <= m + 1
      <4>1. Len(longer) = m + 1
        BY <3>1, <1>4
      <4>2. bus'.buffer = longer \/ (bus'.buffer = Tail(longer) /\ Len(longer) > Cap)
        BY <1>2
      <4>3. Len(Tail(longer)) = m \/ Len(longer) = 0
        BY <4>1, <1>4
      <4>4. QED
        BY <3>1, <4>1, <4>2, <4>3
    <3>3. bus'.buffer[i] = Event(((bus.seq + 1) - n) + i)
      BY <1>2, <1>5, <3>1 DEF Run
    <3>4. ((bus.seq + 1) - n) + i <= cursor
      BY <3>3, <2>1, EventSeq
    <3>5. i \in 1..n
      BY <3>1
    <3>6. /\ (m - n) + (1 + i) \in 1..m
          /\ (bus.seq - m) + ((m - n) + (1 + i)) = ((bus.seq + 1) - n) + i
      <4>1. PICK h \in Nat, c \in Nat : h = bus.seq /\ c = cursor
        BY <1>1
      <4>2. m <= h /\ n <= m + 1 /\ c <= h /\ ((h + 1) - n) + i <= c
        BY <3>1, <3>2, <3>4, <4>1, <1>1
      <4>3. /\ (m - n) + (1 + i) \in 1..m
            /\ (h - m) + ((m - n) + (1 + i)) = ((h + 1) - n) + i
        BY <3>5, <4>2, PlaceBefore
      <4>4. QED
        BY <4>1, <4>3
    <3>7. bus.buffer[(m - n) + (1 + i)] = Event((bus.seq - m) + ((m - n) + (1 + i)))
      BY <3>1, <3>6, <1>1 DEF Run
    <3>8. QED
      BY <3>1, <3>3, <3>6, <3>7
  <2>2. QED
    BY <2>1, <1>2 DEF Covered
<1>10. QED
  BY <1>6, <1>7, <1>8, <1>9

LEMMA EvictKeeps == StreamInv /\ Evict => StreamInv'
<1> SUFFICES ASSUME StreamInv, Evict PROVE StreamInv'
  OBVIOUS
<1> USE DEF StreamInv
<1>1. /\ bus' = [bus EXCEPT !.buffer = <<>>] /\ bus.seq \in Nat
      /\ bus \in [seq : Nat, buffer : Seq(Events)]
      /\ UNCHANGED <<sock, cursor, view, asks, answers, missed, told, emitted>>
  BY DEF Evict, client, counters, Buffered
<1>2. bus'.seq = bus.seq /\ bus'.buffer = <<>> /\ bus' \in [seq : Nat, buffer : Seq(Events)]
  <2>1. <<>> \in Seq(Events)
    OBVIOUS
  <2>2. bus' = [seq |-> bus.seq, buffer |-> <<>>]
    BY <1>1
  <2>3. QED
    BY <2>1, <2>2, <1>1
<1>3. Buffered'
  <2>1. <<>> \in Seq(Events) /\ Len(<<>>) = 0
    OBVIOUS
  <2>2. QED
    BY <1>1, <1>2, <2>1 DEF Buffered, Run
<1>4. Wired' /\ StreamIsOrdered'
  BY <1>1, <1>2, WiredKept
<1>5. Followed' /\ NoSilentGap' /\ Covered'
  BY <1>1, <1>2 DEF Followed, NoSilentGap, Covered
<1>6. QED
  BY <1>3, <1>4, <1>5

LEMMA OpenKeeps == StreamInv /\ Open => StreamInv'
<1> SUFFICES ASSUME StreamInv, Open PROVE StreamInv'
  OBVIOUS
<1> USE DEF StreamInv
<1>1. UNCHANGED <<bus, cursor, view, asks, answers, missed, told, emitted>>
  BY DEF Open, client, counters
<1>2. sock' = IF ReplaySince(cursor).dropped THEN Reset ELSE Replay(cursor, Beyond(cursor))
  BY DEF Open, ReplaySince
<1>3. Wired' /\ StreamIsOrdered'
  BY <1>1, <1>2, WiredReset, WiredReplay
<1>4. Followed' /\ NoSilentGap' /\ Covered'
  BY <1>1, BrowserKept DEF Followed
<1>5. Buffered'
  BY <1>1 DEF Buffered
<1>6. QED
  BY <1>3, <1>4, <1>5

\* A connection that is closed or lost.
LEMMA CloseKeeps == StreamInv /\ (Hangup \/ Drop) => StreamInv'
<1> SUFFICES ASSUME StreamInv, Hangup \/ Drop PROVE StreamInv'
  OBVIOUS
<1> USE DEF StreamInv
<1>1. /\ UNCHANGED <<bus, view, asks, answers, missed, told, emitted>>
      /\ sock' = Closed /\ cursor' \in {cursor, 0}
  BY DEF Hangup, Drop, client, counters
<1>2. bus'.seq \in Nat /\ cursor' \in Nat /\ cursor' <= cursor
  BY <1>1 DEF Buffered, Followed
<1>3. Wired' /\ StreamIsOrdered'
  BY <1>1, <1>2, WiredClosed
<1>4. Followed' /\ NoSilentGap' /\ Covered'
  BY <1>1, <1>2, BrowserKept
<1>5. Buffered'
  BY <1>1 DEF Buffered
<1>6. QED
  BY <1>3, <1>4, <1>5

LEMMA ReceiveOpenKeeps == StreamInv /\ ReceiveOpen => StreamInv'
<1> SUFFICES ASSUME StreamInv, ReceiveOpen PROVE StreamInv'
  OBVIOUS
<1> USE DEF StreamInv
<1>1. /\ sock.wire # <<>> /\ Head(sock.wire).kind = "open" /\ Received
      /\ UNCHANGED <<bus, cursor, view, answers, missed, told, emitted>>
      /\ asks' = asks \/ Resync
  BY DEF ReceiveOpen, counters
<1>2. bus.seq \in Nat /\ cursor \in Nat /\ cursor <= bus.seq
  BY BufferIsRun DEF Followed
<1>3. cursor' = Reached(1)
  <2>1. Head(sock.wire) = sock.wire[1]
    BY <1>1 DEF Wired
  <2>2. QED
    BY <2>1, <1>1 DEF Reached
<1>4. Wired' /\ StreamIsOrdered'
  BY <1>1, <1>2, <1>3, WiredReceived
<1>5. /\ asks' \in [first : Nat, retry : Nat]
      /\ asks'.first = 0 /\ asks'.retry = 0 => asks = asks'
  <2>1. asks \in [first : Nat, retry : Nat]
    BY DEF Followed
  <2>2. CASE Resync
    <3>1. asks' = [first |-> asks.first + 1, retry |-> asks.retry]
      BY <2>1, <2>2 DEF Resync
    <3>2. QED
      BY <2>1, <3>1
  <2>3. QED
    BY <2>1, <2>2, <1>1
<1>6. Followed' /\ NoSilentGap'
  BY <1>1, <1>5 DEF Followed, NoSilentGap
<1>7. Covered'
  BY <1>1, <1>5 DEF Covered
<1>8. Buffered'
  BY <1>1 DEF Buffered
<1>9. QED
  BY <1>4, <1>6, <1>7, <1>8

\* The event the browser receives is the next one after its cursor.
LEMMA ReceivedIsNext ==
  ASSUME StreamInv, sock.wire # <<>>, Head(sock.wire).kind = "event"
  PROVE  /\ Reached(1) = cursor + 1
         /\ [seq |-> Head(sock.wire).seq, id |-> Head(sock.wire).id] = Event(cursor + 1)
<1>1. sock.wire \in Seq(Frames) /\ Head(sock.wire) = sock.wire[1] /\ 1 \in 1..Len(sock.wire)
  BY DEF StreamInv, Wired
<1>2. 1 \in Numbered
  BY <1>1 DEF Numbered
<1>3. sock.wire[1].seq = Reached(1 - 1) + 1
  BY <1>1, <1>2 DEF StreamInv, Wired
<1>4. Reached(1 - 1) = cursor
  BY DEF Reached
<1>5. sock.wire[1].id = sock.wire[1].seq
  BY <1>1, FrameIs
<1>6. QED
  BY <1>1, <1>3, <1>4, <1>5 DEF Reached, Event

LEMMA ReceiveEventKeeps == StreamInv /\ ReceiveEvent => StreamInv'
<1> SUFFICES ASSUME StreamInv, ReceiveEvent PROVE StreamInv'
  OBVIOUS
<1> USE DEF StreamInv
<1>1. /\ sock.wire # <<>> /\ Head(sock.wire).kind = "event" /\ Received
      /\ UNCHANGED <<bus, asks, answers, missed, told, emitted>>
      /\ cursor' = Head(sock.wire).seq
      /\ view' = Merged({[seq |-> Head(sock.wire).seq, id |-> Head(sock.wire).id]})
  BY DEF ReceiveEvent, counters
<1>2. bus.seq \in Nat /\ cursor \in Nat /\ cursor <= bus.seq
  BY BufferIsRun DEF Followed
<1>3. cursor' = cursor + 1 /\ cursor' = Reached(1) /\ view' = Merged({Event(cursor + 1)})
  <2>1. /\ Reached(1) = cursor + 1
        /\ [seq |-> Head(sock.wire).seq, id |-> Head(sock.wire).id] = Event(cursor + 1)
    BY <1>1, ReceivedIsNext
  <2>2. Head(sock.wire).seq = cursor + 1
    BY <2>1 DEF Event
  <2>3. QED
    BY <1>1, <2>1, <2>2
<1>4. Wired' /\ StreamIsOrdered' /\ cursor' \in Nat /\ cursor' <= bus.seq
  BY <1>1, <1>2, <1>3, WiredReceived
<1>5. view \subseteq view' /\ Event(cursor + 1) \in view' /\ view' \subseteq Events
  <2>1. Event(cursor + 1) \in Events
    BY <1>2 DEF Events
  <2>2. QED
    BY <2>1, <1>3, MergeKeeps
<1>6. Followed'
  BY <1>1, <1>4, <1>5 DEF Followed
<1>7. NoSilentGap'
  <2>1. ASSUME NEW k \in 1..cursor', k > told PROVE \E e \in view' : e.seq = k
    <3>1. CASE k = cursor + 1
      BY <3>1, <1>5, EventSeq
    <3>2. CASE k # cursor + 1
      <4>1. k \in 1..cursor
        BY <3>2, <1>2, <1>3
      <4>2. QED
        BY <4>1, <2>1, <1>5 DEF NoSilentGap
    <3>3. QED
      BY <3>1, <3>2
  <2>2. QED
    BY <2>1, <1>1 DEF NoSilentGap
<1>8. Covered'
  <2>1. ASSUME NEW i \in 1..Len(bus.buffer), bus.buffer[i].seq <= cursor + 1
        PROVE  bus.buffer[i].seq <= cursor \/ bus.buffer[i] \in view'
    <3>1. bus.buffer[i] = Event(bus.buffer[i].seq) /\ bus.buffer[i].seq \in Nat
      BY EventIs DEF Buffered
    <3>2. QED
      BY <2>1, <3>1, <1>2, <1>5
  <2>2. QED
    BY <2>1, <1>1, <1>3, <1>5 DEF Covered
<1>9. Buffered'
  BY <1>1 DEF Buffered
<1>10. QED
  BY <1>4, <1>6, <1>7, <1>8, <1>9

LEMMA ReceiveResetKeeps == StreamInv /\ ReceiveReset => StreamInv'
<1> SUFFICES ASSUME StreamInv, ReceiveReset PROVE StreamInv'
  OBVIOUS
<1> USE DEF StreamInv
<1>1. /\ sock.wire # <<>> /\ Head(sock.wire).kind = "reset" /\ Received /\ Resync
      /\ UNCHANGED <<bus, answers, missed, emitted>>
      /\ cursor' = Head(sock.wire).seq /\ told' = Head(sock.wire).seq /\ view' = {}
  BY DEF ReceiveReset, counters
<1>2. bus.seq \in Nat /\ cursor \in Nat /\ cursor <= bus.seq
  BY BufferIsRun DEF Followed
<1>3. cursor' = Reached(1)
  <2>1. Head(sock.wire) = sock.wire[1]
    BY <1>1 DEF Wired
  <2>2. QED
    BY <2>1, <1>1 DEF Reached
<1>4. Wired' /\ StreamIsOrdered' /\ cursor' \in Nat /\ cursor' <= bus.seq
  BY <1>1, <1>2, <1>3, WiredReceived
<1>5. asks' \in [first : Nat, retry : Nat] /\ asks'.first # 0
  <2>1. asks \in [first : Nat, retry : Nat]
    BY DEF Followed
  <2>2. asks' = [first |-> asks.first + 1, retry |-> asks.retry]
    BY <2>1, <1>1 DEF Resync
  <2>3. QED
    BY <2>1, <2>2
<1>6. Followed'
  BY <1>1, <1>4, <1>5 DEF Followed
<1>7. NoSilentGap'
  BY <1>1, <1>4 DEF NoSilentGap
<1>8. Covered'
  BY <1>5 DEF Covered
<1>9. Buffered'
  BY <1>1 DEF Buffered
<1>10. QED
  BY <1>4, <1>6, <1>7, <1>8, <1>9

LEMMA ServeLogKeeps == StreamInv /\ ServeLog => StreamInv'
<1> SUFFICES ASSUME StreamInv, ServeLog PROVE StreamInv'
  OBVIOUS
<1> USE DEF StreamInv
<1>1. PICK n \in {"first", "retry"} : asks[n] > 0 /\ asks' = [asks EXCEPT ![n] = @ - 1]
  BY DEF ServeLog
<1>2. /\ UNCHANGED <<bus, sock, cursor, view, missed, told, emitted>>
      /\ answers' = answers \cup {ToSet(bus.buffer)}
  BY DEF ServeLog, counters
<1>3. asks' \in [first : Nat, retry : Nat]
  <2>1. asks \in [first : Nat, retry : Nat]
    BY DEF Followed
  <2>2. CASE n = "first"
    <3>1. asks.first > 0 /\ asks' = [first |-> asks.first - 1, retry |-> asks.retry]
      BY <2>1, <2>2, <1>1
    <3>2. QED
      BY <2>1, <3>1
  <2>3. CASE n = "retry"
    <3>1. asks.retry > 0 /\ asks' = [first |-> asks.first, retry |-> asks.retry - 1]
      BY <2>1, <2>3, <1>1
    <3>2. QED
      BY <2>1, <3>1
  <2>4. QED
    BY <2>2, <2>3
<1>4. Followed' /\ NoSilentGap' /\ Covered'
  BY <1>2, <1>3, BufferEvents DEF Followed, NoSilentGap, Covered
<1>5. Wired' /\ StreamIsOrdered'
  BY <1>2, WiredKept
<1>6. Buffered'
  BY <1>2 DEF Buffered
<1>7. QED
  BY <1>4, <1>5, <1>6

LEMMA FailLogKeeps == StreamInv /\ FailLog => StreamInv'
<1> SUFFICES ASSUME StreamInv, FailLog PROVE StreamInv'
  OBVIOUS
<1> USE DEF StreamInv
<1>1. UNCHANGED <<bus, sock, cursor, view, answers, told, emitted>>
  BY DEF FailLog, counters
<1>2. asks' \in [first : Nat, retry : Nat] /\ (asks'.retry # 0 \/ missed')
  <2>1. asks \in [first : Nat, retry : Nat]
    BY DEF Followed
  <2>2. \/ asks.first > 0 /\ asks' = [first |-> asks.first - 1, retry |-> asks.retry + 1]
        \/ /\ asks.retry > 0 /\ missed'
           /\ asks' = [first |-> asks.first, retry |-> asks.retry - 1]
    BY <2>1 DEF FailLog
  <2>3. QED
    BY <2>1, <2>2
<1>3. Followed' /\ NoSilentGap'
  BY <1>1, <1>2 DEF Followed, NoSilentGap
<1>4. Covered'
  BY <1>2 DEF Covered
<1>5. Wired' /\ StreamIsOrdered'
  BY <1>1, WiredKept
<1>6. Buffered'
  BY <1>1 DEF Buffered
<1>7. QED
  BY <1>3, <1>4, <1>5, <1>6

LEMMA MergeLogKeeps == StreamInv /\ MergeLog => StreamInv'
<1> SUFFICES ASSUME StreamInv, MergeLog PROVE StreamInv'
  OBVIOUS
<1> USE DEF StreamInv
<1>1. PICK log \in answers : view' = Merged(log) /\ answers' = answers \ {log}
  BY DEF MergeLog
<1>2. UNCHANGED <<bus, sock, cursor, asks, missed, told, emitted>>
  BY DEF MergeLog, counters
<1>3. view \subseteq view' /\ log \subseteq view' /\ view' \subseteq Events
  <2>1. log \subseteq Events
    BY DEF Followed
  <2>2. QED
    BY <2>1, <1>1, MergeKeeps
<1>4. Followed' /\ NoSilentGap'
  BY <1>1, <1>2, <1>3 DEF Followed, NoSilentGap
<1>5. Covered'
  BY <1>1, <1>2, <1>3 DEF Covered
<1>6. Wired' /\ StreamIsOrdered'
  BY <1>2, WiredKept
<1>7. Buffered'
  BY <1>2 DEF Buffered
<1>8. QED
  BY <1>4, <1>5, <1>6, <1>7

LEMMA StreamInvariant == Spec => []StreamInv
<1>1. StreamInv /\ [Next]_vars => StreamInv'
  <2> SUFFICES ASSUME StreamInv, [Next]_vars PROVE StreamInv'
    OBVIOUS
  <2>1. CASE UNCHANGED vars
    <3>1. UNCHANGED <<bus, sock, cursor, view, asks, answers, missed, told, emitted>>
      BY <2>1 DEF vars, client, counters
    <3>2. QED
      BY <3>1, WiredKept, BrowserKept DEF StreamInv, Buffered, Followed
  <2>2. QED
    BY <2>1, EmitKeeps, EvictKeeps, OpenKeeps, CloseKeeps, ReceiveOpenKeeps,
       ReceiveEventKeeps, ReceiveResetKeeps, ServeLogKeeps, FailLogKeeps, MergeLogKeeps
       DEF Next, Browser
<1>2. QED
  BY <1>1, StreamInit, PTL DEF Spec

-----------------------------------------------------------------------------
(* The theorems                                                            *)

\* A frame the browser receives lies beyond its cursor, and the frames come in order,
\* whatever was replayed, sent live, cut off by the backlog and resumed.
THEOREM FramesComeInOrder == Spec => []StreamIsOrdered
<1>1. StreamInv => StreamIsOrdered
  BY DEF StreamInv
<1>2. QED
  BY <1>1, StreamInvariant, PTL

\* A browser whose cursor has passed a step shows it, unless a reset said otherwise.
THEOREM GapsAreAnnounced == Spec => []NoSilentGap
<1>1. StreamInv => NoSilentGap
  BY DEF StreamInv
<1>2. QED
  BY <1>1, StreamInvariant, PTL

\* A quiet stream has shown everything the bus still holds.
THEOREM QuietIsComplete == Spec => []ViewIsComplete
<1>1. StreamInv => ViewIsComplete
  <2> SUFFICES ASSUME StreamInv, Quiet, ~missed
               PROVE  ToSet(bus.buffer) \subseteq view
    BY DEF ViewIsComplete
  <2>1. cursor = bus.seq
    BY DEF StreamInv, Wired, Reached, Quiet
  <2>2. ASSUME NEW i \in 1..Len(bus.buffer)
        PROVE  bus.buffer[i] \in view
    <3>1. /\ Len(bus.buffer) \in Nat /\ Len(bus.buffer) <= bus.seq /\ bus.seq \in Nat
          /\ bus.buffer[i].seq = (bus.seq - Len(bus.buffer)) + i
      <4>1. Buffered
        BY DEF StreamInv
      <4>2. bus.seq \in Nat /\ Run(bus.buffer, bus.seq)
        BY <4>1, BufferIsRun
      <4>3. Len(bus.buffer) \in Nat /\ Len(bus.buffer) <= bus.seq
        BY <4>2 DEF Run
      <4>4. QED
        BY <4>2, <4>3, RunSeq
    <3>2. bus.buffer[i].seq <= cursor
      BY <2>1, <3>1
    <3>3. asks.first = 0 /\ asks.retry = 0 /\ answers = {}
      BY DEF Quiet
    <3>4. QED
      BY <3>2, <3>3 DEF StreamInv, Covered
  <2>3. \A e \in ToSet(bus.buffer) : \E i \in 1..Len(bus.buffer) : e = bus.buffer[i]
    BY DEF ToSet, StreamInv, Buffered
  <2>4. QED
    BY <2>2, <2>3
<1>2. QED
  BY <1>1, StreamInvariant, PTL

=============================================================================
