------------------------ MODULE ExternalWritesProofs ------------------------
(***************************************************************************)
(* That no proposal is sent twice, and none without a human's confirmation *)
(* of its very content; that the capped list on the row never loses a      *)
(* record in flight, and a record only moves forward; and that the         *)
(* in-flight set of the server is exactly the confirmations under way: for *)
(* any number of requests, contents, proposals, retries and restarts, and  *)
(* any cap.                                                                *)
(***************************************************************************)
EXTENDS ExternalWrites, WellFoundedInduction, SequenceTheorems, TLAPS

Types ==
  /\ status \in [Ids -> Recorded \cup {"none", "evicted"}]
  /\ content \in [Ids -> Contents \cup {None}]
  /\ row \in Seq(Ids)
  /\ fresh \subseteq Requests /\ req \in [Requests -> Handlers]
  /\ sent \in [Ids -> Nat] /\ made \in 0..MaxProposals

Owning == {"call", "calling", "settle"}
Confirmed == {"claim"} \cup Owning

\* What the record of a proposal says of the times it was sent: nothing goes out
\* before the claim, and only what was confirmed does.
RecordsAgree ==
  \A i \in Ids : /\ sent[i] <= 1
                 /\ status[i] \in {"none", "proposed"} => sent[i] = 0
                 /\ i > made => status[i] = "none"
                 /\ sent[i] > 0 => i \in approved

\* What a handler may rely on while others work: an owner's record stays executing, an
\* appender's is not in the row, and a digest that matched was seen by a human.
HandlerAgrees(r) ==
  LET q == req[r] IN
  /\ q.pc # "idle" => q.id \in Ids /\ q.id <= made
  /\ q.pc \in Owning => status[q.id] = "executing"
  /\ q.pc = "call" => sent[q.id] = 0
  /\ q.pc = "append" => status[q.id] = "none"
  /\ q.pc = "settle" => q.outcome \in Terminal
  /\ q.pc \in {"arrived", "held"} /\ q.digest = content[q.id] => q.id \in approved
  /\ q.pc \in Confirmed => q.id \in approved

\* Who has read the row as it is knows the status it goes by, and that the record fits in.
FreshAgrees(r) ==
  r \in fresh =>
    /\ req[r].put /\ req[r].pc \in Patching \cup {"append"}
    /\ req[r].pc \in Patching => status[req[r].id] = From(req[r].pc)
    /\ req[r].pc = "append" => ~(Full /\ Evictable = {})

\* A claimed proposal has one owner, a new one has one appender.
OwnersDiffer ==
  \A r, q \in Requests :
    \/ r = q
    \/ req[r].id # req[q].id
    \/ ~(req[r].pc \in Owning /\ req[q].pc \in Owning)
       /\ ~(req[r].pc = "append" /\ req[q].pc = "append")

HandlersAgree == \A r \in Requests : HandlerAgrees(r) /\ FreshAgrees(r)

IInv == Types /\ RecordsAgree /\ HandlersAgree /\ OwnersDiffer

-----------------------------------------------------------------------------

LEMMA InitHolds == Init => IInv
BY WritesBounds
   DEF Init, IInv, Types, RecordsAgree, HandlersAgree, HandlerAgrees, FreshAgrees,
       OwnersDiffer, Idle, Ids, Handlers, Labels, Recorded, Terminal, Owning, Confirmed,
       Patching

\* The oldest of the records that may go is one of them.
LEMMA OldestIsEvictable ==
  ASSUME Types, Evictable # {}
  PROVE  Oldest \in Evictable /\ row[Oldest] \in Ids /\ status[row[Oldest]] \in Terminal
<1>1. Evictable \subseteq Nat
  BY DEF Types, Evictable
<1>2. \E n \in Evictable : \A k \in Evictable : ~(<<k, n>> \in OpToRel(<, Nat))
  BY <1>1, NatLessThanWellFounded, WFMin
<1>3. \E n \in Evictable : \A k \in Evictable : n <= k
  <2>1. PICK n \in Evictable : \A k \in Evictable : ~(<<k, n>> \in OpToRel(<, Nat))
    BY <1>2
  <2>2. ASSUME NEW k \in Evictable PROVE n <= k
    <3>1. k \in Nat /\ n \in Nat
      BY <1>1
    <3>2. ~(k < n)
      BY <2>1, <3>1 DEF OpToRel
    <3> QED
      BY <3>1, <3>2
  <2> QED
    BY <2>2
<1>4. Oldest \in Evictable
  BY <1>3 DEF Oldest
<1> QED
  BY <1>4 DEF Types, Evictable

\* A step of one handler that leaves the records alone, and takes no ownership, keeps the
\* invariant if it keeps what that handler relies on.
LEMMA LocalStep ==
  ASSUME IInv, NEW r \in Requests, NEW q \in Handlers,
         req' = [req EXCEPT ![r] = q],
         UNCHANGED <<status, content, row, sent, made>>,
         approved \subseteq approved',
         fresh' \subseteq Requests, fresh' \ {r} \subseteq fresh,
         q.pc \in Owning => req[r].pc \in Owning /\ q.id = req[r].id,
         q.pc = "append" => req[r].pc = "append" /\ q.id = req[r].id,
         HandlerAgrees(r)', FreshAgrees(r)'
  PROVE  IInv'
<1>1. Types'
  BY DEF IInv, Types
<1>2. RecordsAgree'
  BY DEF IInv, RecordsAgree
<1>3. HandlersAgree'
  <2> SUFFICES ASSUME NEW t \in Requests PROVE HandlerAgrees(t)' /\ FreshAgrees(t)'
    BY DEF HandlersAgree
  <2>1. CASE t = r
    BY <2>1
  <2>2. CASE t # r
    <3>1. req'[t] = req[t] /\ (t \in fresh' => t \in fresh)
      BY <2>2 DEF IInv, Types
    <3>2. HandlerAgrees(t) /\ FreshAgrees(t)
      BY DEF IInv, HandlersAgree
    <3>3. HandlerAgrees(t)'
      BY <3>1, <3>2 DEF HandlerAgrees
    <3>4. FreshAgrees(t)'
      BY <3>1, <3>2 DEF FreshAgrees, Full, Evictable
    <3> QED
      BY <3>3, <3>4
  <2> QED
    BY <2>1, <2>2
<1>4. OwnersDiffer'
  <2> SUFFICES ASSUME NEW t \in Requests, NEW u \in Requests, t # u,
                      req'[t].id = req'[u].id
               PROVE  /\ ~(req'[t].pc \in Owning /\ req'[u].pc \in Owning)
                      /\ ~(req'[t].pc = "append" /\ req'[u].pc = "append")
    BY DEF OwnersDiffer
  <2>1. req'[r] = q /\ \A v \in Requests \ {r} : req'[v] = req[v]
    BY DEF IInv, Types
  <2>2. \A v \in Requests :
          /\ req'[v].pc \in Owning => req[v].pc \in Owning /\ req'[v].id = req[v].id
          /\ req'[v].pc = "append" => req[v].pc = "append" /\ req'[v].id = req[v].id
    BY <2>1
  <2> QED
    BY <2>2 DEF IInv, OwnersDiffer
<1> QED
  BY <1>1, <1>2, <1>3, <1>4 DEF IInv

-----------------------------------------------------------------------------
(* Steps of one handler that leave the records alone                       *)

USE WritesBounds, ContentsAssumption
    DEF Ids, Recorded, Terminal, Handlers, Labels, Patching, Idle

LEMMA IdleAgrees ==
  ASSUME IInv, NEW r \in Requests, req' = [req EXCEPT ![r] = Idle],
         UNCHANGED <<status, content, row, sent, made>>, approved' = approved,
         fresh' \subseteq fresh, r \notin fresh'
  PROVE  IInv'
<1>1. Idle \in Handlers
  OBVIOUS
<1>2. req'[r] = Idle
  BY DEF IInv, Types
<1>3. HandlerAgrees(r)' /\ FreshAgrees(r)'
  BY <1>2 DEF HandlerAgrees, FreshAgrees, Owning, Confirmed
<1> QED
  BY <1>1, <1>3, LocalStep DEF IInv, Types, Owning

LEMMA HoldKeeps ==
  ASSUME IInv, NEW r \in Requests, Hold(r),
         req[r].pc \in Patching \cup {"append"},
         req[r].pc \in Patching => status[req[r].id] = From(req[r].pc),
         req[r].pc = "append" => ~(Full /\ Evictable = {}),
         UNCHANGED <<durable, history, counters>>
  PROVE  IInv'
<1> DEFINE q == [req[r] EXCEPT !.put = TRUE]
<1>1. q \in Handlers /\ req' = [req EXCEPT ![r] = q] /\ req'[r] = q
  BY DEF Hold, IInv, Types
<1>2. q.pc = req[r].pc /\ q.id = req[r].id /\ q.digest = req[r].digest
      /\ q.outcome = req[r].outcome /\ q.put
  BY DEF IInv, Types
<1>3. HandlerAgrees(r)'
  BY <1>1, <1>2 DEF IInv, HandlersAgree, HandlerAgrees, durable, history, counters
<1>4. FreshAgrees(r)'
  BY <1>1, <1>2 DEF FreshAgrees, Full, Evictable, durable
<1> HIDE DEF q
<1> QED
  <2>1. UNCHANGED <<status, content, row, sent, made, approved>>
    BY DEF durable, history, counters
  <2>2. fresh' \subseteq Requests /\ fresh' \ {r} \subseteq fresh
    BY DEF Hold, IInv, Types
  <2> QED
    BY <1>1, <1>2, <1>3, <1>4, <2>1, <2>2, LocalStep

LEMMA AppendReadKeeps ==
  ASSUME IInv, NEW r \in Requests, AppendRead(r)
  PROVE  IInv'
<1>1. CASE Duplicate(req[r].id) \/ (Full /\ Evictable = {})
  <2>1. r \notin fresh
    BY DEF AppendRead, IInv, HandlersAgree, FreshAgrees
  <2> QED
    BY <1>1, <2>1, IdleAgrees DEF AppendRead, Reply, durable, history, counters
<1>2. CASE ~(Duplicate(req[r].id) \/ (Full /\ Evictable = {}))
  BY <1>2, HoldKeeps DEF AppendRead
<1> QED
  BY <1>1, <1>2

LEMMA PatchReadKeeps ==
  ASSUME IInv, NEW r \in Requests, PatchRead(r)
  PROVE  IInv'
<1>1. CASE status[req[r].id] # From(req[r].pc)
  <2>1. r \notin fresh
    BY DEF PatchRead, IInv, HandlersAgree, FreshAgrees
  <2> QED
    BY <1>1, <2>1, IdleAgrees DEF PatchRead, Reply, durable, history, counters
<1>2. CASE status[req[r].id] = From(req[r].pc)
  BY <1>2, HoldKeeps DEF PatchRead
<1> QED
  BY <1>1, <1>2

LEMMA ConflictKeeps ==
  ASSUME IInv, NEW r \in Requests, Conflict(r)
  PROVE  IInv'
<1>1. CASE req[r].attempt < MaxRetry
  <2> DEFINE q == [req[r] EXCEPT !.put = FALSE, !.attempt = @ + 1]
  <2>0. req[r] \in Handlers /\ req[r].attempt + 1 \in Nat
    BY DEF IInv, Types
  <2>1. q \in Handlers /\ req' = [req EXCEPT ![r] = q] /\ req'[r] = q
    <3>1. q \in Handlers
      BY <2>0
    <3>2. req' = [req EXCEPT ![r] = q]
      BY <1>1 DEF Conflict
    <3> HIDE DEF q
    <3> QED
      BY <3>1, <3>2 DEF IInv, Types
  <2>2. q.pc = req[r].pc /\ q.id = req[r].id /\ q.digest = req[r].digest
        /\ q.outcome = req[r].outcome
    BY DEF IInv, Types
  <2>3. UNCHANGED <<status, content, row, sent, made, approved, fresh>> /\ r \notin fresh
    BY DEF Conflict, durable, history, counters
  <2>4. HandlerAgrees(r)'
    BY <2>1, <2>2, <2>3 DEF IInv, HandlersAgree, HandlerAgrees
  <2>5. FreshAgrees(r)'
    BY <2>3 DEF FreshAgrees
  <2> HIDE DEF q
  <2> QED
    BY <2>1, <2>2, <2>3, <2>4, <2>5, LocalStep DEF IInv, Types
<1>2. CASE ~(req[r].attempt < MaxRetry)
  BY <1>2, IdleAgrees DEF Conflict, Reply, durable, history, counters
<1> QED
  BY <1>1, <1>2

LEMMA RefuseKeeps ==
  ASSUME IInv, NEW r \in Requests, Refuse(r)
  PROVE  IInv'
<1>1. r \notin fresh
  BY DEF Refuse, IInv, HandlersAgree, FreshAgrees
<1> QED
  BY <1>1, IdleAgrees DEF Refuse, Reply, durable, history, counters

LEMMA StoreFailsKeeps ==
  ASSUME IInv, NEW r \in Requests, StoreFails(r)
  PROVE  IInv'
BY IdleAgrees DEF StoreFails, Reply, durable, history, counters

\* A handler that moves on within its own locals.
LEMMA MoveKeeps ==
  ASSUME IInv, NEW r \in Requests, NEW q \in Handlers, r \notin fresh,
         req' = [req EXCEPT ![r] = q],
         UNCHANGED <<status, content, row, sent, made, fresh>>,
         approved \subseteq approved',
         q.pc \in Owning => req[r].pc \in Owning /\ q.id = req[r].id,
         q.pc # "append", HandlerAgrees(r)'
  PROVE  IInv'
<1>1. FreshAgrees(r)'
  BY DEF FreshAgrees
<1> QED
  BY <1>1, LocalStep DEF IInv, Types

LEMMA ReceiveKeeps ==
  ASSUME IInv, NEW r \in Requests, Receive(r)
  PROVE  IInv'
<1>1. PICK i \in Ids, d \in Contents :
        /\ status[i] = "proposed"
        /\ req' = [req EXCEPT ![r] = [Idle EXCEPT !.pc = "arrived", !.id = i, !.digest = d]]
        /\ approved' = IF d = content[i] THEN approved \cup {i} ELSE approved
  BY DEF Receive
<1> DEFINE q == [Idle EXCEPT !.pc = "arrived", !.id = i, !.digest = d]
<1>2. q \in Handlers /\ q.pc = "arrived" /\ q.id = i /\ q.digest = d
  <2>1. i \in 0..MaxProposals
    OBVIOUS
  <2> QED
    BY <2>1
<1>3. i <= made
  <2>1. i \in Nat /\ made \in Nat /\ ~(i > made)
    BY <1>1 DEF IInv, Types, RecordsAgree
  <2> QED
    BY <2>1
<1>4. req'[r] = q /\ r \notin fresh
  BY <1>1 DEF Receive, IInv, Types, HandlersAgree, FreshAgrees
<1>5. UNCHANGED <<status, content, row, sent, made, fresh>>
  BY DEF Receive, durable, counters
<1>6. HandlerAgrees(r)'
  <2> HIDE DEF q
  <2> QED
    BY <1>1, <1>2, <1>3, <1>4, <1>5 DEF HandlerAgrees, Owning, Confirmed
<1> HIDE DEF q
<1> QED
  BY <1>1, <1>2, <1>4, <1>5, <1>6, MoveKeeps DEF Owning, q

LEMMA EnterKeeps ==
  ASSUME IInv, NEW r \in Requests, Enter(r)
  PROVE  IInv'
<1>1. r \notin fresh /\ UNCHANGED <<status, content, row, sent, made, fresh, approved>>
  BY DEF Enter, IInv, HandlersAgree, FreshAgrees, durable, history, counters
<1>2. CASE req[r].id \in confirming
  BY <1>1, <1>2, IdleAgrees DEF Enter
<1>3. CASE req[r].id \notin confirming
  <2> DEFINE q == [req[r] EXCEPT !.pc = "held"]
  <2>1. q \in Handlers /\ req' = [req EXCEPT ![r] = q] /\ req'[r] = q
    BY <1>3 DEF Enter, IInv, Types
  <2>2. q.pc = "held" /\ q.id = req[r].id /\ q.digest = req[r].digest
    BY DEF IInv, Types
  <2>3. HandlerAgrees(r)'
    BY <1>1, <2>1, <2>2
       DEF Enter, IInv, HandlersAgree, HandlerAgrees, Owning, Confirmed
  <2> HIDE DEF q
  <2> QED
    BY <1>1, <2>1, <2>2, <2>3, MoveKeeps DEF Owning
<1> QED
  BY <1>2, <1>3

LEMMA MintKeeps ==
  ASSUME IInv, NEW r \in Requests, Mint(r)
  PROVE  IInv'
<1>1. r \notin fresh /\ UNCHANGED <<status, content, row, sent, made, fresh, approved>>
  BY DEF Mint, IInv, HandlersAgree, FreshAgrees, durable, history, counters
<1> DEFINE next == IF /\ req[r].digest = content[req[r].id]
                      /\ content[req[r].id] \notin Colliding
                   THEN "claim" ELSE "reject"
<1> DEFINE q == [req[r] EXCEPT !.pc = next]
<1>2. q \in Handlers /\ req' = [req EXCEPT ![r] = q] /\ req'[r] = q
  BY DEF Mint, IInv, Types
<1>3. q.pc = next /\ q.id = req[r].id
  BY DEF IInv, Types
<1>4. next = "claim" => req[r].id \in approved
  BY DEF Mint, IInv, HandlersAgree, HandlerAgrees
<1>5. next \in {"claim", "reject"}
  OBVIOUS
<1>6. req[r].id \in Ids /\ req[r].id <= made
  BY DEF Mint, IInv, HandlersAgree, HandlerAgrees
<1> HIDE DEF q, next
<1>7. HandlerAgrees(r)'
  BY <1>1, <1>2, <1>3, <1>4, <1>5, <1>6 DEF HandlerAgrees, Owning, Confirmed
<1> QED
  BY <1>1, <1>2, <1>3, <1>5, <1>7, MoveKeeps DEF Owning

LEMMA AnswerKeeps ==
  ASSUME IInv, NEW r \in Requests, Answer(r)
  PROVE  IInv'
<1>1. r \notin fresh /\ UNCHANGED <<status, content, row, sent, made, fresh, approved>>
  BY DEF Answer, IInv, HandlersAgree, FreshAgrees, durable, history, counters
<1>2. PICK o \in Terminal :
        req' = [req EXCEPT ![r].pc = "settle", ![r].outcome = o]
  BY DEF Answer
<1> DEFINE q == [req[r] EXCEPT !.pc = "settle", !.outcome = o]
<1>3. q \in Handlers /\ req' = [req EXCEPT ![r] = q] /\ req'[r] = q
  BY <1>2 DEF IInv, Types
<1>4. q.pc = "settle" /\ q.id = req[r].id /\ q.outcome = o
  BY DEF IInv, Types
<1>5. HandlerAgrees(r)'
  BY <1>1, <1>2, <1>3, <1>4
     DEF Answer, IInv, HandlersAgree, HandlerAgrees, Owning, Confirmed
<1> HIDE DEF q
<1> QED
  BY <1>1, <1>3, <1>4, <1>5, MoveKeeps DEF Owning, Answer

-----------------------------------------------------------------------------
(* Steps that write the records                                            *)

\* Whoever may write a record is the only one that appends or owns it.
LEMMA WriterIsAlone ==
  ASSUME IInv, NEW r \in fresh, NEW t \in Requests, t # r, req[t].id = req[r].id
  PROVE  req[t].pc \notin Owning \cup {"append"}
<1>1. r \in Requests
  BY DEF IInv, Types
<1>2. HandlerAgrees(r) /\ FreshAgrees(r) /\ HandlerAgrees(t)
  BY <1>1 DEF IInv, HandlersAgree
<1>3. \/ ~(req[r].pc \in Owning /\ req[t].pc \in Owning)
         /\ ~(req[r].pc = "append" /\ req[t].pc = "append")
  BY <1>1 DEF IInv, OwnersDiffer
<1>4. CASE req[r].pc = "append"
  BY <1>2, <1>3, <1>4 DEF HandlerAgrees, Owning
<1>5. CASE req[r].pc = "settle"
  BY <1>2, <1>3, <1>5 DEF HandlerAgrees, Owning
<1>6. CASE req[r].pc \in {"reject", "claim"}
  <2>1. status[req[r].id] = "proposed"
    BY <1>2, <1>6 DEF FreshAgrees, From
  <2> QED
    BY <1>2, <2>1 DEF HandlerAgrees, Owning
<1> QED
  BY <1>2, <1>4, <1>5, <1>6 DEF FreshAgrees

\* A write of the row moves one record on, drops at most settled ones, and turns every
\* other handler's view of the row stale.
LEMMA WriteKeeps ==
  ASSUME IInv, NEW r \in fresh, NEW q \in Handlers,
         req' = [req EXCEPT ![r] = q], fresh' = {},
         UNCHANGED <<content, sent, made, approved>>, row' \in Seq(Ids),
         status' \in [Ids -> Recorded \cup {"none", "evicted"}],
         status'[req[r].id] # "none",
         status'[req[r].id] = "proposed" => sent[req[r].id] = 0,
         \A j \in Ids \ {req[r].id} :
           status'[j] = status[j] \/ (status[j] \in Terminal /\ status'[j] = "evicted"),
         q.pc # "append", q.pc \in Owning => q.id = req[r].id,
         HandlerAgrees(r)'
  PROVE  IInv'
<1>1. r \in Requests
  BY DEF IInv, Types
<1>2. /\ req[r].id \in Ids /\ req[r].id <= made
      /\ HandlerAgrees(r) /\ FreshAgrees(r)
  BY <1>1 DEF IInv, HandlersAgree, HandlerAgrees, FreshAgrees
<1>3. Types'
  BY <1>1 DEF IInv, Types
<1>4. RecordsAgree'
  <2> SUFFICES ASSUME NEW i \in Ids
               PROVE  /\ status'[i] \in {"none", "proposed"} => sent[i] = 0
                      /\ i > made => status'[i] = "none"
    BY DEF IInv, RecordsAgree
  <2>1. CASE i = req[r].id
    <3>1. ~(i > made)
      BY <1>2, <2>1 DEF IInv, Types
    <3> QED
      BY <2>1, <3>1
  <2>2. CASE i # req[r].id
    BY <2>2 DEF IInv, RecordsAgree
  <2> QED
    BY <2>1, <2>2
<1>5. \A t \in Requests \ {r} : req'[t] = req[t]
  BY DEF IInv, Types
<1>6. HandlersAgree'
  <2> SUFFICES ASSUME NEW t \in Requests PROVE HandlerAgrees(t)'
    BY DEF HandlersAgree, FreshAgrees
  <2>1. CASE t = r
    BY <2>1
  <2>2. CASE t # r
    <3>1. HandlerAgrees(t) /\ req'[t] = req[t]
      BY <1>5, <2>2 DEF IInv, HandlersAgree
    <3>2. req[t].pc \in Owning \cup {"append"} => req[t].id # req[r].id
      BY <2>2, WriterIsAlone
    <3>3. req[t].pc \in Owning \cup {"append"} =>
            /\ req[t].id \in Ids
            /\ req[t].pc \in Owning => status[req[t].id] = "executing"
            /\ req[t].pc = "append" => status[req[t].id] = "none"
      BY <3>1 DEF HandlerAgrees, Owning
    <3>4. req[t].pc \in Owning \cup {"append"} => status'[req[t].id] = status[req[t].id]
      BY <3>2, <3>3
    <3> QED
      BY <3>1, <3>3, <3>4 DEF HandlerAgrees, Owning, Confirmed
  <2> QED
    BY <2>1, <2>2
<1>7. OwnersDiffer'
  <2> SUFFICES ASSUME NEW t \in Requests, NEW u \in Requests, t # u,
                      req'[t].id = req'[u].id
               PROVE  /\ ~(req'[t].pc \in Owning /\ req'[u].pc \in Owning)
                      /\ ~(req'[t].pc = "append" /\ req'[u].pc = "append")
    BY DEF OwnersDiffer
  <2>1. req'[r] = q
    BY <1>1 DEF IInv, Types
  <2>2. \A v \in Requests \ {r} :
          req'[v].id = req[r].id => req'[v].pc \notin Owning
    BY <1>5, WriterIsAlone
  <2>3. CASE t = r
    BY <2>1, <2>2, <2>3
  <2>4. CASE u = r
    BY <2>1, <2>2, <2>4
  <2>5. CASE t # r /\ u # r
    BY <1>5, <2>5 DEF IInv, OwnersDiffer
  <2> QED
    BY <2>3, <2>4, <2>5
<1> QED
  BY <1>3, <1>4, <1>6, <1>7 DEF IInv

\* The append records its proposal, and drops a settled one at most.
LEMMA MakeRoomKeeps ==
  ASSUME IInv, NEW r \in fresh, req[r].pc = "append", MakeRoom(req[r].id),
         req' = [req EXCEPT ![r] = Idle], fresh' = {},
         UNCHANGED <<content, history, counters>>
  PROVE  IInv'
<1> DEFINE i == req[r].id
<1>1. r \in Requests /\ i \in Ids /\ status[i] = "none"
  BY DEF IInv, Types, HandlersAgree, HandlerAgrees
<1>2. sent[i] = 0
  BY <1>1 DEF IInv, RecordsAgree
<1>3. UNCHANGED <<content, sent, made, approved>>
  BY DEF history, counters
<1>4. HandlerAgrees(r)' /\ Idle \in Handlers
  <2>1. req'[r] = Idle
    BY <1>1 DEF IInv, Types
  <2> QED
    BY <2>1 DEF HandlerAgrees, Owning, Confirmed
<1>5. Idle.pc = "idle"
  OBVIOUS
<1>6. CASE Full
  <2>1. Evictable # {}
    BY <1>1, <1>6 DEF IInv, HandlersAgree, FreshAgrees
  <2>2. Oldest \in Evictable /\ row[Oldest] \in Ids /\ status[row[Oldest]] \in Terminal
    BY <2>1, OldestIsEvictable DEF IInv
  <2>3. Oldest \in 1..Len(row) /\ row \in Seq(Ids) /\ Len(row) \in Nat
    BY <2>2 DEF Evictable, IInv, Types
  <2>4. SubSeq(row, 1, Oldest - 1) \in Seq(Ids)
    BY <2>3
  <2>5. SubSeq(row, Oldest + 1, Len(row)) \in Seq(Ids)
    BY <2>3
  <2>6. row' \in Seq(Ids)
    <3> DEFINE rest == SubSeq(row, 1, Oldest - 1) \o SubSeq(row, Oldest + 1, Len(row))
    <3>1. rest \in Seq(Ids)
      BY <2>4, <2>5
    <3>2. row' = Append(rest, i)
      BY <1>6 DEF MakeRoom
    <3> HIDE DEF rest, i
    <3> QED
      BY <1>1, <3>1, <3>2
  <2>7. status' = [status EXCEPT ![i] = "proposed", ![row[Oldest]] = "evicted"]
    BY <1>6 DEF MakeRoom
  <2>8. /\ status' \in [Ids -> Recorded \cup {"none", "evicted"}]
        /\ status'[i] = "proposed"
        /\ \A j \in Ids \ {i} :
             status'[j] = status[j] \/ (status[j] \in Terminal /\ status'[j] = "evicted")
    BY <1>1, <2>2, <2>7 DEF IInv, Types
  <2> QED
    BY <1>1, <1>2, <1>3, <1>4, <1>5, <2>6, <2>8, WriteKeeps DEF Owning
<1>7. CASE ~Full
  <2>1. status' = [status EXCEPT ![i] = "proposed"] /\ row' = Append(row, i)
    BY <1>7 DEF MakeRoom
  <2>2. /\ status' \in [Ids -> Recorded \cup {"none", "evicted"}]
        /\ status'[i] = "proposed" /\ row' \in Seq(Ids)
        /\ \A j \in Ids \ {i} : status'[j] = status[j]
    BY <1>1, <2>1 DEF IInv, Types
  <2> QED
    BY <1>1, <1>2, <1>3, <1>4, <1>5, <2>2, WriteKeeps DEF Owning
<1> QED
  BY <1>6, <1>7

LEMMA AppendWriteKeeps ==
  ASSUME IInv, NEW r \in Requests, AppendWrite(r)
  PROVE  IInv'
BY MakeRoomKeeps DEF AppendWrite, Reply

\* A patch moves its record from the status it read to the next one.
LEMMA PatchKeeps ==
  ASSUME IInv, NEW r \in fresh, req[r].pc \in Patching,
         status' = [status EXCEPT ![req[r].id] = To(req[r])],
         fresh' = {}, UNCHANGED <<content, row, history, counters>>,
         \/ req' = [req EXCEPT ![r] = Idle]
         \/ /\ req[r].pc = "claim"
            /\ req' = [req EXCEPT ![r].pc = "call", ![r].put = FALSE, ![r].attempt = 0]
  PROVE  IInv'
<1> DEFINE i == req[r].id
<1>1. r \in Requests /\ i \in Ids /\ i <= made /\ req[r] \in Handlers
  BY DEF IInv, Types, HandlersAgree, HandlerAgrees
<1>2. UNCHANGED <<content, sent, made, approved>> /\ row' \in Seq(Ids)
  BY DEF history, counters, IInv, Types
<1>3. To(req[r]) \in {"executing", "failed", "executed"}
  BY <1>1 DEF To, IInv, HandlersAgree, HandlerAgrees
<1>4. /\ status' \in [Ids -> Recorded \cup {"none", "evicted"}]
      /\ status'[i] = To(req[r])
      /\ \A j \in Ids \ {i} : status'[j] = status[j]
  BY <1>1, <1>3 DEF IInv, Types
<1>5. CASE req' = [req EXCEPT ![r] = Idle]
  <2>1. req'[r] = Idle /\ Idle \in Handlers /\ Idle.pc = "idle"
    BY <1>1, <1>5 DEF IInv, Types
  <2>2. HandlerAgrees(r)'
    BY <2>1 DEF HandlerAgrees, Owning, Confirmed
  <2> QED
    BY <1>2, <1>3, <1>4, <1>5, <2>1, <2>2, WriteKeeps DEF Owning
<1>6. CASE /\ req[r].pc = "claim"
           /\ req' = [req EXCEPT ![r].pc = "call", ![r].put = FALSE, ![r].attempt = 0]
  <2> DEFINE q == [req[r] EXCEPT !.pc = "call", !.put = FALSE, !.attempt = 0]
  <2>1. q \in Handlers /\ req' = [req EXCEPT ![r] = q] /\ req'[r] = q
    BY <1>1, <1>6 DEF IInv, Types
  <2>2. q.pc = "call" /\ q.id = i
    BY <1>1
  <2>3. status[i] = "proposed" /\ i \in approved
    <3>1. HandlerAgrees(r) /\ FreshAgrees(r)
      BY <1>1 DEF IInv, HandlersAgree
    <3>2. From("claim") = "proposed"
      BY DEF From
    <3> QED
      BY <1>6, <3>1, <3>2 DEF HandlerAgrees, FreshAgrees, Confirmed
  <2>4. sent[i] = 0
    BY <1>1, <2>3 DEF IInv, RecordsAgree
  <2>5. status'[i] = "executing"
    BY <1>4, <1>6 DEF To
  <2> HIDE DEF q
  <2>6. HandlerAgrees(r)'
    BY <1>1, <1>2, <2>1, <2>2, <2>3, <2>4, <2>5 DEF HandlerAgrees, Owning, Confirmed
  <2> QED
    BY <1>2, <1>4, <2>1, <2>2, <2>5, <2>6, WriteKeeps DEF Owning
<1> QED
  BY <1>5, <1>6

LEMMA PatchWriteKeeps ==
  ASSUME IInv, NEW r \in Requests, PatchWrite(r)
  PROVE  IInv'
BY PatchKeeps DEF PatchWrite, Reply

LEMMA CommitIsNotHeardKeeps ==
  ASSUME IInv, NEW r \in Requests, CommitIsNotHeard(r)
  PROVE  IInv'
<1>1. r \in fresh /\ fresh' = {} /\ req' = [req EXCEPT ![r] = Idle]
  BY DEF CommitIsNotHeard, Reply
<1>2. CASE req[r].pc = "append"
  BY <1>1, <1>2, MakeRoomKeeps DEF CommitIsNotHeard
<1>3. CASE req[r].pc # "append"
  <2>1. req[r].pc \in Patching
    BY <1>1, <1>3 DEF IInv, HandlersAgree, FreshAgrees
  <2> QED
    BY <1>1, <1>3, <2>1, PatchKeeps DEF CommitIsNotHeard
<1> QED
  BY <1>2, <1>3

\* A new record: its id is no other's.
LEMMA ProposeKeeps ==
  ASSUME IInv, NEW r \in Requests, Propose(r)
  PROVE  IInv'
<1> DEFINE i == made + 1
           q == [Idle EXCEPT !.pc = "append", !.id = i]
<1>1. PICK c \in Contents : content' = [content EXCEPT ![i] = c]
  BY DEF Propose
<1>2. /\ req' = [req EXCEPT ![r] = q] /\ made' = i /\ req[r].pc = "idle"
      /\ UNCHANGED <<status, row, fresh, sent, approved>>
  BY DEF Propose, history
<1>3. made \in Nat /\ i \in Ids /\ i \in 0..MaxProposals
  BY DEF Propose, IInv, Types
<1>4. q \in Handlers /\ q.pc = "append" /\ q.id = i
  BY <1>3
<1> HIDE DEF q
<1>5. req'[r] = q /\ \A t \in Requests \ {r} : req'[t] = req[t]
  BY <1>2 DEF IInv, Types
<1>6. \A t \in Requests : req[t].pc # "idle" => req[t].id \in Ids /\ req[t].id < i
  <2> SUFFICES ASSUME NEW t \in Requests, req[t].pc # "idle"
               PROVE  req[t].id \in Ids /\ req[t].id < i
    OBVIOUS
  <2>1. req[t].id \in Ids /\ req[t].id <= made
    BY DEF IInv, HandlersAgree, HandlerAgrees
  <2> QED
    BY <1>3, <2>1
<1>7. status[i] = "none"
  <2>1. i > made
    BY <1>3
  <2> QED
    BY <1>3, <2>1 DEF IInv, RecordsAgree
<1>8. Types'
  BY <1>1, <1>2, <1>3, <1>4 DEF IInv, Types
<1>9. RecordsAgree'
  <2> SUFFICES ASSUME NEW j \in Ids, j > i PROVE status[j] = "none"
    BY <1>2 DEF IInv, RecordsAgree
  <2>1. j > made
    BY <1>3
  <2> QED
    BY <2>1 DEF IInv, RecordsAgree
<1>10. HandlersAgree'
  <2> SUFFICES ASSUME NEW t \in Requests PROVE HandlerAgrees(t)' /\ FreshAgrees(t)'
    BY DEF HandlersAgree
  <2>1. CASE t = r
    <3>1. r \notin fresh
      BY <1>2 DEF IInv, HandlersAgree, FreshAgrees
    <3> QED
      BY <1>2, <1>3, <1>4, <1>5, <1>7, <2>1, <3>1
         DEF HandlerAgrees, FreshAgrees, Owning, Confirmed
  <2>2. CASE t # r
    <3>1. req'[t] = req[t] /\ HandlerAgrees(t) /\ FreshAgrees(t)
      BY <1>5, <2>2 DEF IInv, HandlersAgree
    <3>2. req[t].pc # "idle" =>
            /\ req[t].id \in Ids /\ req[t].id < i
            /\ content'[req[t].id] = content[req[t].id]
      BY <1>1, <1>3, <1>6 DEF IInv, Types
    <3>3. HandlerAgrees(t)'
      <4>1. req[t].pc # "idle" => req[t].id <= i
        BY <1>3, <3>2
      <4> QED
        BY <1>2, <3>1, <3>2, <4>1 DEF HandlerAgrees, Owning, Confirmed
    <3>4. FreshAgrees(t)'
      BY <1>2, <3>1 DEF FreshAgrees, Full, Evictable
    <3> QED
      BY <3>3, <3>4
  <2> QED
    BY <2>1, <2>2
<1>11. OwnersDiffer'
  <2> SUFFICES ASSUME NEW t \in Requests, NEW u \in Requests, t # u,
                      req'[t].id = req'[u].id
               PROVE  /\ ~(req'[t].pc \in Owning /\ req'[u].pc \in Owning)
                      /\ ~(req'[t].pc = "append" /\ req'[u].pc = "append")
    BY DEF OwnersDiffer
  <2>1. \A v \in Requests \ {r} : req'[v].id = i => req'[v].pc = "idle"
    BY <1>3, <1>5, <1>6
  <2>2. CASE t = r
    BY <1>4, <1>5, <2>1, <2>2 DEF Owning
  <2>3. CASE u = r
    BY <1>4, <1>5, <2>1, <2>3 DEF Owning
  <2>4. CASE t # r /\ u # r
    BY <1>5, <2>4 DEF IInv, OwnersDiffer
  <2> QED
    BY <2>2, <2>3, <2>4
<1> QED
  BY <1>8, <1>9, <1>10, <1>11 DEF IInv

\* The call itself: its owner is the only one, and has not called before.
LEMMA CallKeeps ==
  ASSUME IInv, NEW r \in Requests, Call(r)
  PROVE  IInv'
<1> DEFINE i == req[r].id
           q == [req[r] EXCEPT !.pc = "calling"]
<1>1. HandlerAgrees(r) /\ FreshAgrees(r) /\ req[r].pc = "call" /\ req[r] \in Handlers
  BY DEF Call, IInv, Types, HandlersAgree
<1>2. /\ i \in Ids /\ i <= made /\ status[i] = "executing" /\ sent[i] = 0 /\ i \in approved
      /\ r \notin fresh
  BY <1>1 DEF HandlerAgrees, FreshAgrees, Owning, Confirmed
<1>3. /\ req' = [req EXCEPT ![r] = q] /\ sent' = [sent EXCEPT ![i] = 1]
      /\ UNCHANGED <<status, content, row, fresh, made, approved>>
  BY <1>2 DEF Call, durable, counters
<1>4. q \in Handlers /\ q.pc = "calling" /\ q.id = i
  BY <1>1
<1> HIDE DEF q
<1>5. req'[r] = q /\ \A t \in Requests \ {r} : req'[t] = req[t]
  BY <1>3 DEF IInv, Types
<1>6. Types'
  BY <1>3, <1>4 DEF IInv, Types
<1>7. RecordsAgree'
  <2> SUFFICES ASSUME NEW j \in Ids
               PROVE  /\ sent'[j] <= 1
                      /\ status[j] \in {"none", "proposed"} => sent'[j] = 0
                      /\ sent'[j] > 0 => j \in approved
    BY <1>3 DEF IInv, RecordsAgree
  <2>1. CASE j = i
    <3>1. sent'[j] = 1
      BY <1>2, <1>3, <2>1 DEF IInv, Types
    <3> QED
      BY <1>2, <2>1, <3>1
  <2>2. CASE j # i
    <3>1. sent'[j] = sent[j]
      BY <1>3, <2>2 DEF IInv, Types
    <3> QED
      BY <3>1 DEF IInv, RecordsAgree
  <2> QED
    BY <2>1, <2>2
<1>8. HandlersAgree'
  <2> SUFFICES ASSUME NEW t \in Requests PROVE HandlerAgrees(t)' /\ FreshAgrees(t)'
    BY DEF HandlersAgree
  <2>1. CASE t = r
    BY <1>2, <1>3, <1>4, <1>5, <2>1 DEF HandlerAgrees, FreshAgrees, Owning, Confirmed
  <2>2. CASE t # r
    <3>1. req'[t] = req[t] /\ HandlerAgrees(t) /\ FreshAgrees(t)
      BY <1>5, <2>2 DEF IInv, HandlersAgree
    <3>2. req[t].pc = "call" => req[t].id # i
      BY <1>1, <2>2 DEF IInv, OwnersDiffer, Owning
    <3>3. req[t].pc = "call" => req[t].id \in Ids /\ sent'[req[t].id] = 0
      BY <1>3, <3>1, <3>2 DEF IInv, Types, HandlerAgrees
    <3>4. HandlerAgrees(t)'
      BY <1>3, <3>1, <3>3 DEF HandlerAgrees
    <3>5. FreshAgrees(t)'
      BY <1>3, <3>1 DEF FreshAgrees, Full, Evictable
    <3> QED
      BY <3>4, <3>5
  <2> QED
    BY <2>1, <2>2
<1>9. OwnersDiffer'
  <2> SUFFICES ASSUME NEW t \in Requests, NEW u \in Requests, t # u,
                      req'[t].id = req'[u].id
               PROVE  /\ ~(req'[t].pc \in Owning /\ req'[u].pc \in Owning)
                      /\ ~(req'[t].pc = "append" /\ req'[u].pc = "append")
    BY DEF OwnersDiffer
  <2>1. \A v \in Requests :
          /\ req'[v].id = req[v].id
          /\ req'[v].pc \in Owning => req[v].pc \in Owning
          /\ req'[v].pc = "append" => req[v].pc = "append"
    BY <1>1, <1>4, <1>5 DEF Owning
  <2> QED
    BY <2>1 DEF IInv, OwnersDiffer
<1> QED
  BY <1>6, <1>7, <1>8, <1>9 DEF IInv

-----------------------------------------------------------------------------
(* The rest of the server, and the theorems                                *)

\* Another writer of the row makes every view stale and changes no record.
LEMMA BumpKeeps ==
  ASSUME IInv, Bump PROVE IInv'
<1>1. fresh' = {} /\ UNCHANGED <<status, content, row, req, sent, approved, made>>
  BY DEF Bump, durable, history
<1>2. Types' /\ RecordsAgree' /\ OwnersDiffer'
  BY <1>1 DEF IInv, Types, RecordsAgree, OwnersDiffer
<1>3. HandlersAgree'
  BY <1>1 DEF IInv, HandlersAgree, HandlerAgrees, FreshAgrees
<1> QED
  BY <1>2, <1>3 DEF IInv

\* A restart leaves the records, and no handler.
LEMMA CrashKeeps ==
  ASSUME IInv, Crash PROVE IInv'
<1>1. /\ fresh' = {} /\ req' = [t \in Requests |-> Idle]
      /\ UNCHANGED <<status, content, row, sent, approved, made>>
  BY DEF Crash, durable, history
<1>2. Idle \in Handlers /\ Idle.pc = "idle"
  OBVIOUS
<1>3. \A t \in Requests : req'[t] = Idle
  BY <1>1
<1>4. Types' /\ RecordsAgree'
  BY <1>1, <1>2 DEF IInv, Types, RecordsAgree
<1>5. HandlersAgree'
  BY <1>1, <1>2, <1>3 DEF HandlersAgree, HandlerAgrees, FreshAgrees, Owning, Confirmed
<1>6. OwnersDiffer'
  BY <1>2, <1>3 DEF OwnersDiffer, Owning
<1> QED
  BY <1>4, <1>5, <1>6 DEF IInv

LEMMA StutterKeeps ==
  ASSUME IInv, UNCHANGED vars PROVE IInv'
<1>1. UNCHANGED <<status, content, row, fresh, req, sent, approved, made>>
  BY DEF vars, durable, history, counters
<1> QED
  BY <1>1 DEF IInv, Types, RecordsAgree, HandlersAgree, HandlerAgrees, FreshAgrees,
              OwnersDiffer, Full, Evictable

LEMMA NextHolds == IInv /\ [Next]_vars => IInv'
<1> SUFFICES ASSUME IInv, [Next]_vars PROVE IInv'
  OBVIOUS
<1>1. ASSUME NEW r \in Requests,
             Propose(r) \/ AppendRead(r) \/ AppendWrite(r) \/ Conflict(r)
             \/ StoreFails(r) \/ CommitIsNotHeard(r)
      PROVE  IInv'
  BY <1>1, ProposeKeeps, AppendReadKeeps, AppendWriteKeeps, ConflictKeeps, StoreFailsKeeps,
     CommitIsNotHeardKeeps
<1>2. ASSUME NEW r \in Requests,
             Receive(r) \/ Enter(r) \/ Refuse(r) \/ Mint(r) \/ PatchRead(r)
             \/ PatchWrite(r) \/ Call(r) \/ Answer(r)
      PROVE  IInv'
  BY <1>2, ReceiveKeeps, EnterKeeps, RefuseKeeps, MintKeeps, PatchReadKeeps,
     PatchWriteKeeps, CallKeeps, AnswerKeeps
<1>3. CASE Bump
  BY <1>3, BumpKeeps
<1>4. CASE Crash
  BY <1>4, CrashKeeps
<1>5. CASE UNCHANGED vars
  BY <1>5, StutterKeeps
<1> QED
  BY <1>1, <1>2, <1>3, <1>4, <1>5 DEF Next

LEMMA IInvHolds == Spec => []IInv
BY InitHolds, NextHolds, PTL DEF Spec

\* No proposal leaves the server twice, whatever races, conflicts, lost replies and
\* restarts its confirmations meet (claim, call and settle of POST
\* /external-writes/:id/confirm), and one that can still be confirmed has not left.
THEOREM SentAtMostOnce == Spec => []AtMostOnce
<1>1. IInv => AtMostOnce
  BY DEF IInv, RecordsAgree, AtMostOnce
<1> QED
  BY <1>1, IInvHolds, PTL

\* What leaves the server was confirmed with the digest of its own content.
THEOREM OnlyConfirmedIsSent == Spec => []SentWasConfirmed
<1>1. IInv => SentWasConfirmed
  BY DEF IInv, RecordsAgree, SentWasConfirmed
<1> QED
  BY <1>1, IInvHolds, PTL

-----------------------------------------------------------------------------
(* The row and the in-flight set                                           *)

\* The row lists exactly the records that are kept, each once, within the cap.
RowHolds ==
  /\ Len(row) <= Cap
  /\ \A i \in Ids : status[i] \in Recorded => \E n \in 1..Len(row) : row[n] = i
  /\ \A n \in 1..Len(row) : status[row[n]] \in Recorded
  /\ \A m, n \in 1..Len(row) : row[m] = row[n] => m = n

\* The in-flight set is that of the handlers past its check, and no proposal has two;
\* what they confirm is on record, so no appender shares it.
FlightHolds ==
  /\ confirming = {req[r].id : r \in {q \in Requests : req[q].pc \in Holding}}
  /\ \A r, q \in Requests :
       req[r].pc \in Holding /\ req[q].pc \in Holding /\ req[r].id = req[q].id => r = q
  /\ \A r \in Requests :
       /\ req[r].pc \in Holding \cup {"arrived"} => status[req[r].id] # "none"
       /\ req[r].put => req[r].pc \in Patching \cup {"append"}

CountsHold == approved \subseteq Ids /\ bumps \in Nat /\ crashes \in Nat

\* What a step may do to the records: InFlightIsKept, of one step.
Forward ==
  \A i \in Ids :
    /\ status[i] = "proposed" => status'[i] \in {"proposed", "executing", "failed"}
    /\ status[i] = "executing" => status'[i] \in {"executing"} \cup Terminal
    /\ status[i] \in Terminal => status'[i] \in {status[i], "evicted"}
    /\ status'[i] \in Recorded => \E n \in 1..Len(row') : row'[n] = i

-----------------------------------------------------------------------------
(* The row                                                                 *)

USE WritesBounds, ContentsAssumption
    DEF Ids, Recorded, Terminal, Handlers, Labels, Patching, Idle

\* What becomes of a sequence that loses its k-th element and gains one at its end.
DropFor(s, k, e) == Append(SubSeq(s, 1, k - 1) \o SubSeq(s, k + 1, Len(s)), e)

LEMMA DropOne ==
  ASSUME NEW S, NEW s \in Seq(S), NEW k \in 1..Len(s), NEW e \in S
  PROVE  /\ DropFor(s, k, e) \in Seq(S) /\ Len(DropFor(s, k, e)) = Len(s)
         /\ \A n \in 1..(k-1) : DropFor(s, k, e)[n] = s[n]
         /\ \A n \in k..(Len(s)-1) : DropFor(s, k, e)[n] = s[n + 1]
         /\ DropFor(s, k, e)[Len(s)] = e
<1> DEFINE a == SubSeq(s, 1, k - 1)
           b == SubSeq(s, k + 1, Len(s))
           t == DropFor(s, k, e)
<1>1. Len(s) \in Nat /\ k \in Nat /\ 1 <= k /\ k <= Len(s)
  OBVIOUS
<1>2. /\ a \in Seq(S) /\ Len(a) = k - 1
      /\ \A n \in 1..(k-1) : a[n] = s[n]
  <2>1. \A n \in 1..(k-1) : s[n] \in S
    BY <1>1
  <2>2. /\ a \in Seq(S) /\ Len(a) = IF 1 <= k - 1 THEN k - 1 - 1 + 1 ELSE 0
        /\ \A n \in 1..(k-1-1+1) : a[n] = s[1 + n - 1]
    BY <1>1, <2>1, SubSeqProperties
  <2> QED
    BY <1>1, <2>2
<1>3. /\ b \in Seq(S) /\ Len(b) = Len(s) - k
      /\ \A n \in 1..(Len(s)-k) : b[n] = s[k + n]
  <2>1. \A n \in (k+1)..Len(s) : s[n] \in S
    BY <1>1
  <2>2. /\ b \in Seq(S)
        /\ Len(b) = IF k + 1 <= Len(s) THEN Len(s) - (k + 1) + 1 ELSE 0
        /\ \A n \in 1..(Len(s)-(k+1)+1) : b[n] = s[k + 1 + n - 1]
    BY <1>1, <2>1, SubSeqProperties
  <2> QED
    BY <1>1, <2>2
<1> DEFINE c == a \o b
<1> HIDE DEF a, b
<1>4. /\ c \in Seq(S) /\ Len(c) = Len(s) - 1
      /\ \A n \in 1..(Len(s)-1) : c[n] = IF n <= k - 1 THEN a[n] ELSE b[n - (k - 1)]
  <2>1. /\ c \in Seq(S) /\ Len(c) = Len(a) + Len(b)
        /\ \A n \in 1..(Len(a)+Len(b)) : c[n] = IF n <= Len(a) THEN a[n] ELSE b[n - Len(a)]
    BY <1>2, <1>3, ConcatProperties
  <2>2. Len(a) + Len(b) = Len(s) - 1
    BY <1>1, <1>2, <1>3
  <2> HIDE DEF c
  <2> QED
    BY <1>2, <2>1, <2>2
<1>5. t = Append(c, e)
  BY DEF a, b, DropFor
<1> HIDE DEF c, t
<1>6. /\ t \in Seq(S) /\ Len(t) = Len(s) /\ t[Len(s)] = e
      /\ \A n \in 1..(Len(s)-1) : t[n] = c[n]
  <2>1. /\ t \in Seq(S) /\ Len(t) = Len(c) + 1 /\ t[Len(c) + 1] = e
        /\ \A n \in 1..Len(c) : t[n] = c[n]
    <3>1. c \in Seq(S) /\ e \in S
      BY <1>4
    <3>2. /\ Append(c, e) \in Seq(S) /\ Len(Append(c, e)) = Len(c) + 1
          /\ Append(c, e)[Len(c) + 1] = e
          /\ \A n \in 1..Len(c) : Append(c, e)[n] = c[n]
      BY ONLY <3>1, AppendProperties
    <3> QED
      BY ONLY <1>5, <3>2
  <2>2. Len(c) + 1 = Len(s)
    BY <1>1, <1>4
  <2> QED
    BY <1>4, <2>1, <2>2
<1>7. ASSUME NEW n \in k..(Len(s)-1) PROVE t[n] = s[n + 1]
  <2>1. n \in 1..(Len(s)-1) /\ ~(n <= k - 1) /\ n - (k - 1) \in 1..(Len(s)-k)
        /\ k + (n - (k - 1)) = n + 1
    BY <1>1
  <2> QED
    BY <1>3, <1>4, <1>6, <2>1
<1>8. ASSUME NEW n \in 1..(k-1) PROVE t[n] = s[n]
  <2>1. n \in 1..(Len(s)-1) /\ n <= k - 1
    BY <1>1
  <2> QED
    BY <1>2, <1>4, <1>6, <2>1
<1> QED
  BY <1>6, <1>7, <1>8 DEF t

\* The append adds its record; what it drops, if anything, is settled.
LEMMA RoomIsMade ==
  ASSUME IInv, RowHolds, NEW r \in fresh, req[r].pc = "append", MakeRoom(req[r].id)
  PROVE  RowHolds' /\ Forward /\ \A j \in Ids : status[j] # "none" => status'[j] # "none"
<1> DEFINE i == req[r].id
<1>1. r \in Requests /\ i \in Ids /\ status[i] = "none"
  BY DEF IInv, Types, HandlersAgree, HandlerAgrees
<1>2. \A n \in 1..Len(row) : row[n] \in Ids /\ row[n] # i
  <2> SUFFICES ASSUME NEW n \in 1..Len(row) PROVE row[n] \in Ids /\ row[n] # i
    OBVIOUS
  <2>1. row[n] \in Ids
    BY DEF IInv, Types
  <2>2. status[row[n]] \in Recorded
    BY DEF RowHolds
  <2> HIDE DEF i
  <2> QED
    BY <1>1, <2>1, <2>2
<1>3. row \in Seq(Ids) /\ Len(row) \in Nat /\ status \in [Ids -> Recorded \cup {"none", "evicted"}]
  BY DEF IInv, Types
<1>4. CASE ~Full
  <2>1. status' = [status EXCEPT ![i] = "proposed"] /\ row' = Append(row, i)
    BY <1>4 DEF MakeRoom
  <2>2. /\ Len(row') = Len(row) + 1 /\ row'[Len(row) + 1] = i
        /\ \A n \in 1..Len(row) : row'[n] = row[n]
    BY <1>1, <1>3, <2>1
  <2>3. status'[i] = "proposed" /\ \A j \in Ids \ {i} : status'[j] = status[j]
    BY <1>1, <1>3, <2>1
  <2> HIDE DEF i
  <2>4. \A n \in 1..Len(row') : n \in 1..Len(row) \/ n = Len(row) + 1
    BY <1>3, <2>2
  <2>5. Len(row') <= Cap
    BY <1>3, <1>4, <2>2 DEF Full
  <2>6. \A j \in Ids : status'[j] \in Recorded => \E n \in 1..Len(row') : row'[n] = j
    <3> SUFFICES ASSUME NEW j \in Ids, status'[j] \in Recorded
                 PROVE  \E n \in 1..Len(row') : row'[n] = j
      OBVIOUS
    <3>1. CASE j = i
      BY <1>3, <2>2, <3>1
    <3>2. CASE j # i
      <4>1. PICK n \in 1..Len(row) : row[n] = j
        BY <2>3, <3>2 DEF RowHolds
      <4> QED
        BY <1>3, <2>2, <4>1
    <3> QED
      BY <3>1, <3>2
  <2>7. \A n \in 1..Len(row') : status'[row'[n]] \in Recorded
    BY <1>1, <1>2, <2>2, <2>3, <2>4 DEF RowHolds
  <2>8. \A m, n \in 1..Len(row') : row'[m] = row'[n] => m = n
    BY <1>2, <2>2, <2>4 DEF RowHolds
  <2>9. RowHolds'
    BY <2>5, <2>6, <2>7, <2>8 DEF RowHolds
  <2>10. Forward
    BY <1>1, <2>3, <2>6 DEF Forward
  <2> QED
    BY <1>1, <2>3, <2>9, <2>10
<1>5. CASE Full
  <2> DEFINE k == Oldest
  <2>1. Evictable # {}
    BY <1>1, <1>5 DEF IInv, HandlersAgree, FreshAgrees
  <2>2. k \in 1..Len(row) /\ row[k] \in Ids /\ status[row[k]] \in Terminal
    BY <2>1, OldestIsEvictable DEF IInv, Evictable
  <2>3. /\ row' = Append(SubSeq(row, 1, k - 1) \o SubSeq(row, k + 1, Len(row)), i)
        /\ status' = [status EXCEPT ![i] = "proposed", ![row[k]] = "evicted"]
    BY <1>5 DEF MakeRoom
  <2> HIDE DEF i, k
  <2>4. /\ Len(row') = Len(row) /\ row'[Len(row)] = i
        /\ \A n \in 1..(k-1) : row'[n] = row[n]
        /\ \A n \in k..(Len(row)-1) : row'[n] = row[n + 1]
    <3>1. row \in Seq(Ids) /\ k \in 1..Len(row) /\ i \in Ids
      BY <1>1, <1>3, <2>2
    <3>2. row' = DropFor(row, k, i)
      BY <2>3 DEF DropFor
    <3> QED
      <4> HIDE DEF Ids
      <4>1. Len(DropFor(row, k, i)) = Len(row)
        BY ONLY <3>1, DropOne
      <4>2. DropFor(row, k, i)[Len(row)] = i
        BY ONLY <3>1, DropOne
      <4>3. \A n \in 1..(k-1) : DropFor(row, k, i)[n] = row[n]
        BY ONLY <3>1, DropOne
      <4>4. \A n \in k..(Len(row)-1) : DropFor(row, k, i)[n] = row[n + 1]
        BY ONLY <3>1, DropOne
      <4> QED
        BY ONLY <3>2, <4>1, <4>2, <4>3, <4>4
  <2>5. /\ status'[i] = "proposed" /\ status'[row[k]] = "evicted"
        /\ \A j \in Ids \ {i, row[k]} : status'[j] = status[j]
    BY <1>1, <1>2, <1>3, <2>2, <2>3
  <2>6. Len(row') <= Cap
    BY <2>4 DEF RowHolds
  <2>7. \A n \in 1..Len(row') : n \in 1..(k-1) \/ n \in k..(Len(row)-1) \/ n = Len(row)
    BY <1>3, <2>2, <2>4
  <2>8. \A j \in Ids : status'[j] \in Recorded => \E n \in 1..Len(row') : row'[n] = j
    <3> SUFFICES ASSUME NEW j \in Ids, status'[j] \in Recorded
                 PROVE  \E n \in 1..Len(row') : row'[n] = j
      OBVIOUS
    <3>1. CASE j = i
      BY <1>3, <2>2, <2>4, <3>1
    <3>2. CASE j # i
      <4>1. j # row[k] /\ status[j] \in Recorded
        BY <2>5, <3>2
      <4>2. PICK n \in 1..Len(row) : row[n] = j
        BY <4>1 DEF RowHolds
      <4>3. CASE n < k
        <5>1. n \in 1..(k - 1) /\ n \in 1..Len(row')
          BY <1>3, <2>2, <2>4, <4>3
        <5>2. row'[n] = row[n]
          BY <2>4, <5>1
        <5> QED
          BY <4>2, <5>1, <5>2
      <4>4. CASE n > k
        <5>1. n - 1 \in k..(Len(row)-1) /\ n - 1 \in 1..Len(row') /\ n - 1 + 1 = n
          BY <1>3, <2>2, <2>4, <4>4
        <5>2. row'[n - 1] = row[n - 1 + 1]
          BY <2>4, <5>1
        <5> QED
          BY <4>2, <5>1, <5>2
      <4> QED
        BY <1>3, <2>2, <4>1, <4>2, <4>3, <4>4
    <3> QED
      BY <3>1, <3>2
  <2>9. \A n \in 1..Len(row') :
          \/ n = Len(row) /\ row'[n] = i
          \/ \E m \in 1..Len(row) : /\ m # k /\ row'[n] = row[m]
                                    /\ (n < k /\ m = n) \/ (n >= k /\ m = n + 1)
    <3> SUFFICES ASSUME NEW n \in 1..Len(row'), n # Len(row)
                 PROVE  \E m \in 1..Len(row) : /\ m # k /\ row'[n] = row[m]
                                               /\ (n < k /\ m = n) \/ (n >= k /\ m = n + 1)
      BY <2>4
    <3>1. CASE n < k
      <4>1. n \in 1..(k - 1) /\ n \in 1..Len(row) /\ n # k
        BY <1>3, <2>2, <2>4, <3>1
      <4>2. row'[n] = row[n]
        BY <2>4, <4>1
      <4> QED
        BY <3>1, <4>1, <4>2
    <3>2. CASE n >= k
      <4>1. n \in k..(Len(row)-1) /\ n + 1 \in 1..Len(row) /\ n + 1 # k
        BY <1>3, <2>2, <2>4, <3>2
      <4> QED
        BY <2>4, <3>2, <4>1
    <3> QED
      BY <1>3, <2>2, <2>4, <3>1, <3>2
  <2>10. \A n \in 1..Len(row') : status'[row'[n]] \in Recorded
    <3> SUFFICES ASSUME NEW m \in 1..Len(row), m # k
                 PROVE  status'[row[m]] \in Recorded
      BY <2>5, <2>9
    <3>1. row[m] # row[k] /\ row[m] \in Ids /\ row[m] # i
      BY <1>2, <2>2 DEF RowHolds
    <3> QED
      BY <2>5, <3>1 DEF RowHolds
  <2>11. \A m, n \in 1..Len(row') : row'[m] = row'[n] => m = n
    <3> SUFFICES ASSUME NEW m \in 1..Len(row'), NEW n \in 1..Len(row'), row'[m] = row'[n]
                 PROVE  m = n
      OBVIOUS
    <3>0. row'[m] = row'[n]
      OBVIOUS
    <3>1. CASE m = Len(row)
      BY <1>2, <2>4, <2>9, <3>1
    <3>2. CASE n = Len(row)
      BY <1>2, <2>4, <2>9, <3>2
    <3>3. CASE m # Len(row) /\ n # Len(row)
      <4>1. PICK u \in 1..Len(row) : /\ u # k /\ row'[m] = row[u]
                                     /\ (m < k /\ u = m) \/ (m >= k /\ u = m + 1)
        BY <2>9, <3>3
      <4>2. PICK v \in 1..Len(row) : /\ v # k /\ row'[n] = row[v]
                                     /\ (n < k /\ v = n) \/ (n >= k /\ v = n + 1)
        BY <2>9, <3>3
      <4>3. u = v
        <5>1. row[u] = row[v]
          BY <3>0, <4>1, <4>2
        <5> QED
          BY <5>1 DEF RowHolds
      <4> QED
        BY <1>3, <2>2, <2>4, <4>1, <4>2, <4>3
    <3> QED
      BY <3>1, <3>2, <3>3
  <2>12. RowHolds'
    BY <2>6, <2>8, <2>10, <2>11 DEF RowHolds
  <2>13. Forward
    <3> SUFFICES ASSUME NEW j \in Ids
                 PROVE  /\ status[j] = "proposed" => status'[j] = "proposed"
                        /\ status[j] = "executing" => status'[j] = "executing"
                        /\ status[j] \in Terminal => status'[j] \in {status[j], "evicted"}
      BY <2>8 DEF Forward
    <3> QED
      BY <1>1, <2>2, <2>5
  <2> QED
    BY <1>1, <2>5, <2>12, <2>13
<1> QED
  BY <1>4, <1>5

\* A patch moves its record on, where it stands in the row.
LEMMA PatchIsForward ==
  ASSUME IInv, RowHolds, NEW r \in fresh, req[r].pc \in Patching,
         status' = [status EXCEPT ![req[r].id] = To(req[r])], row' = row
  PROVE  RowHolds' /\ Forward /\ \A j \in Ids : status[j] # "none" => status'[j] # "none"
<1> DEFINE i == req[r].id
<1>1. r \in Requests /\ i \in Ids
  BY DEF IInv, Types, HandlersAgree, HandlerAgrees
<1>2. status[i] = From(req[r].pc)
  BY <1>1 DEF IInv, HandlersAgree, FreshAgrees
<1>3. \/ status[i] = "proposed" /\ To(req[r]) \in {"executing", "failed"}
      \/ status[i] = "executing" /\ To(req[r]) \in Terminal
  <2>1. req[r].pc = "settle" => req[r].outcome \in Terminal
    BY <1>1 DEF IInv, HandlersAgree, HandlerAgrees
  <2> QED
    BY <1>2, <2>1 DEF From, To
<1>4. /\ status'[i] = To(req[r])
      /\ \A j \in Ids \ {i} : status'[j] = status[j]
  BY <1>1 DEF IInv, Types
<1>5. \A n \in 1..Len(row) : row[n] \in Ids
  BY DEF IInv, Types
<1> HIDE DEF i
<1>6. \A j \in Ids : (status'[j] \in Recorded <=> status[j] \in Recorded)
  BY <1>1, <1>3, <1>4
<1>7. RowHolds'
  BY <1>5, <1>6 DEF RowHolds
<1>8. Forward
  <2> SUFFICES ASSUME NEW j \in Ids
               PROVE  /\ status[j] = "proposed" => status'[j] \in {"proposed", "executing", "failed"}
                      /\ status[j] = "executing" => status'[j] \in {"executing"} \cup Terminal
                      /\ status[j] \in Terminal => status'[j] = status[j]
    BY <1>7 DEF Forward, RowHolds
  <2> QED
    BY <1>1, <1>3, <1>4
<1> QED
  BY <1>1, <1>3, <1>4, <1>7, <1>8

LEMMA StandsStill ==
  ASSUME RowHolds, UNCHANGED <<status, row>>
  PROVE  RowHolds' /\ Forward /\ \A j \in Ids : status[j] # "none" => status'[j] # "none"
BY DEF RowHolds, Forward

\* Every step keeps the row, and moves records forward only.
LEMMA RecordsMoveForward ==
  ASSUME IInv, RowHolds, [Next]_vars
  PROVE  RowHolds' /\ Forward /\ \A j \in Ids : status[j] # "none" => status'[j] # "none"
<1>1. ASSUME NEW r \in Requests, AppendWrite(r)
      PROVE  RowHolds' /\ Forward /\ \A j \in Ids : status[j] # "none" => status'[j] # "none"
  BY <1>1, RoomIsMade DEF AppendWrite
<1>2. ASSUME NEW r \in Requests, PatchWrite(r)
      PROVE  RowHolds' /\ Forward /\ \A j \in Ids : status[j] # "none" => status'[j] # "none"
  BY <1>2, PatchIsForward DEF PatchWrite
<1>3. ASSUME NEW r \in Requests, CommitIsNotHeard(r)
      PROVE  RowHolds' /\ Forward /\ \A j \in Ids : status[j] # "none" => status'[j] # "none"
  <2>1. r \in fresh
    BY <1>3 DEF CommitIsNotHeard
  <2>2. CASE req[r].pc = "append"
    BY <1>3, <2>1, <2>2, RoomIsMade DEF CommitIsNotHeard
  <2>3. CASE req[r].pc # "append"
    <3>1. req[r].pc \in Patching
      BY <2>1, <2>3 DEF IInv, HandlersAgree, FreshAgrees
    <3> QED
      BY <1>3, <2>1, <2>3, <3>1, PatchIsForward DEF CommitIsNotHeard
  <2> QED
    BY <2>2, <2>3
<1>4. CASE UNCHANGED <<status, row>>
  BY <1>4, StandsStill
<1>5. ASSUME NEW r \in Requests,
             \/ Propose(r) \/ AppendRead(r) \/ Receive(r) \/ Enter(r) \/ Refuse(r)
             \/ Mint(r) \/ PatchRead(r) \/ Call(r) \/ Answer(r) \/ Conflict(r)
             \/ StoreFails(r)
      PROVE  UNCHANGED <<status, row>>
  BY <1>5 DEF Propose, AppendRead, Receive, Enter, Refuse, Mint, PatchRead, Call, Answer,
              Conflict, StoreFails, durable
<1>6. Bump \/ Crash \/ UNCHANGED vars => UNCHANGED <<status, row>>
  BY DEF Bump, Crash, vars, durable
<1> QED
  BY <1>1, <1>2, <1>3, <1>4, <1>5, <1>6 DEF Next

-----------------------------------------------------------------------------
(* The in-flight set                                                       *)

\* A handler moves on and is held, or not, as it was.
LEMMA HeldAsBefore ==
  ASSUME IInv, FlightHolds, NEW r \in Requests, NEW q,
         req' = [req EXCEPT ![r] = q], confirming' = confirming,
         \A j \in Ids : status[j] # "none" => status'[j] # "none",
         q.pc \in Holding <=> req[r].pc \in Holding,
         q.pc \in Holding => q.id = req[r].id,
         q.pc \in Holding \cup {"arrived"} => q.id \in Ids /\ status[q.id] # "none",
         q.put => q.pc \in Patching \cup {"append"}
  PROVE  FlightHolds'
<1>1. req'[r] = q /\ \A t \in Requests \ {r} : req'[t] = req[t]
  BY DEF IInv, Types
<1>2. \A t \in Requests :
        /\ req'[t].pc \in Holding <=> req[t].pc \in Holding
        /\ req'[t].pc \in Holding => req'[t].id = req[t].id
  BY <1>1
<1>3. {q1 \in Requests : req'[q1].pc \in Holding} = {q1 \in Requests : req[q1].pc \in Holding}
  BY <1>2
<1>4. {req'[t].id : t \in {q1 \in Requests : req'[q1].pc \in Holding}}
        = {req[t].id : t \in {q1 \in Requests : req[q1].pc \in Holding}}
  BY <1>2, <1>3
<1>5. confirming' = {req'[t].id : t \in {q1 \in Requests : req'[q1].pc \in Holding}}
  BY <1>4 DEF FlightHolds
<1>6. \A t, u \in Requests :
        req'[t].pc \in Holding /\ req'[u].pc \in Holding /\ req'[t].id = req'[u].id => t = u
  BY <1>2 DEF FlightHolds
<1>7. ASSUME NEW t \in Requests
      PROVE  /\ req'[t].pc \in Holding \cup {"arrived"} => status'[req'[t].id] # "none"
             /\ req'[t].put => req'[t].pc \in Patching \cup {"append"}
  <2>1. CASE t = r
    BY <1>1, <2>1
  <2>2. CASE t # r
    <3>1. req'[t] = req[t]
      BY <1>1, <2>2
    <3>2. req[t].pc # "idle" => req[t].id \in Ids
      BY DEF IInv, HandlersAgree, HandlerAgrees
    <3> QED
      BY <3>1, <3>2 DEF FlightHolds, Holding
  <2> QED
    BY <2>1, <2>2
<1> QED
  BY <1>5, <1>6, <1>7 DEF FlightHolds

\* A handler that replies takes its own proposal, and no other's, out of the set.
LEMMA ReplyLeaves ==
  ASSUME IInv, FlightHolds, NEW r \in Requests, Reply(r),
         req[r].pc \in Holding \cup {"append"},
         \A j \in Ids : status[j] # "none" => status'[j] # "none"
  PROVE  FlightHolds'
<1>1. /\ req'[r] = Idle /\ confirming' = confirming \ {req[r].id}
      /\ \A t \in Requests \ {r} : req'[t] = req[t]
  BY DEF Reply, IInv, Types
<1>2. Idle.pc = "idle" /\ ~Idle.put
  OBVIOUS
<1>3. \A t \in Requests \ {r} : req[t].pc \in Holding => req[t].id # req[r].id
  <2> SUFFICES ASSUME NEW t \in Requests \ {r}, req[t].pc \in Holding, req[t].id = req[r].id
               PROVE  FALSE
    OBVIOUS
  <2>1. CASE req[r].pc \in Holding
    BY <2>1 DEF FlightHolds
  <2>2. CASE req[r].pc = "append"
    <3>1. status[req[r].id] = "none"
      BY <2>2 DEF IInv, HandlersAgree, HandlerAgrees
    <3> QED
      BY <3>1 DEF FlightHolds
  <2> QED
    BY <2>1, <2>2
<1> HIDE DEF Idle
<1>4. {q \in Requests : req'[q].pc \in Holding} = {q \in Requests : req[q].pc \in Holding} \ {r}
  BY <1>1, <1>2 DEF Holding
<1>5. confirming' = {req'[t].id : t \in {q \in Requests : req'[q].pc \in Holding}}
  <2> DEFINE H == {q \in Requests : req[q].pc \in Holding}
  <2>1. {req'[t].id : t \in H \ {r}} = {req[t].id : t \in H} \ {req[r].id}
    BY <1>1, <1>3
  <2> QED
    BY <1>1, <1>4, <2>1 DEF FlightHolds
<1>6. \A t, u \in Requests :
        req'[t].pc \in Holding /\ req'[u].pc \in Holding /\ req'[t].id = req'[u].id => t = u
  BY <1>1, <1>2 DEF FlightHolds, Holding
<1>7. ASSUME NEW t \in Requests
      PROVE  /\ req'[t].pc \in Holding \cup {"arrived"} => status'[req'[t].id] # "none"
             /\ req'[t].put => req'[t].pc \in Patching \cup {"append"}
  <2>1. CASE t = r
    BY <1>1, <1>2, <2>1 DEF Holding
  <2>2. CASE t # r
    <3>1. req'[t] = req[t]
      BY <1>1, <2>2
    <3>2. req[t].pc # "idle" => req[t].id \in Ids
      BY DEF IInv, HandlersAgree, HandlerAgrees
    <3> QED
      BY <3>1, <3>2 DEF FlightHolds, Holding
  <2> QED
    BY <2>1, <2>2
<1> QED
  BY <1>5, <1>6, <1>7 DEF FlightHolds

\* Only a proposal that no handler holds enters the set.
LEMMA EnterFlight ==
  ASSUME IInv, FlightHolds, NEW r \in Requests, Enter(r)
  PROVE  FlightHolds'
<1>1. UNCHANGED <<status>> /\ req[r].pc = "arrived" /\ req[r] \in Handlers
  BY DEF Enter, durable, IInv, Types
<1>2. req[r].id \in Ids /\ status[req[r].id] # "none" /\ ~req[r].put
  BY <1>1 DEF IInv, HandlersAgree, HandlerAgrees, FlightHolds
<1>3. CASE req[r].id \in confirming
  <2>1. req' = [req EXCEPT ![r] = Idle] /\ UNCHANGED confirming
    BY <1>3 DEF Enter
  <2>2. Idle.pc = "idle" /\ ~Idle.put
    OBVIOUS
  <2> QED
    BY <1>1, <2>1, <2>2, HeldAsBefore DEF Holding
<1>4. CASE req[r].id \notin confirming
  <2>1. /\ confirming' = confirming \cup {req[r].id}
        /\ req' = [req EXCEPT ![r].pc = "held"]
    BY <1>4 DEF Enter
  <2>2. /\ req'[r].pc = "held" /\ req'[r].id = req[r].id /\ ~req'[r].put
        /\ \A t \in Requests \ {r} : req'[t] = req[t]
    BY <1>1, <1>2, <2>1 DEF IInv, Types
  <2>3. \A t \in Requests : req[t].pc \in Holding => req[t].id # req[r].id
    BY <1>4 DEF FlightHolds
  <2>4. {q \in Requests : req'[q].pc \in Holding}
          = {q \in Requests : req[q].pc \in Holding} \cup {r}
    BY <1>1, <2>2 DEF Holding
  <2>5. confirming' = {req'[t].id : t \in {q \in Requests : req'[q].pc \in Holding}}
    <3> DEFINE H == {q \in Requests : req[q].pc \in Holding}
    <3>1. {req'[t].id : t \in H \cup {r}} = {req[t].id : t \in H} \cup {req[r].id}
      BY <2>2
    <3> QED
      BY <2>1, <2>4, <3>1 DEF FlightHolds
  <2>6. \A t, u \in Requests :
          req'[t].pc \in Holding /\ req'[u].pc \in Holding /\ req'[t].id = req'[u].id => t = u
    BY <2>2, <2>3 DEF FlightHolds
  <2>7. \A t \in Requests :
          /\ req'[t].pc \in Holding \cup {"arrived"} => status'[req'[t].id] # "none"
          /\ req'[t].put => req'[t].pc \in Patching \cup {"append"}
    BY <1>1, <1>2, <2>2 DEF FlightHolds
  <2> QED
    BY <2>5, <2>6, <2>7 DEF FlightHolds
<1> QED
  BY <1>3, <1>4

\* A restart forgets the handlers and the set together.
LEMMA CrashFlight ==
  ASSUME Crash PROVE FlightHolds'
<1>1. (\A t \in Requests : req'[t] = Idle) /\ confirming' = {}
  BY DEF Crash
<1>2. Idle.pc = "idle" /\ ~Idle.put
  OBVIOUS
<1> HIDE DEF Idle
<1>3. {q \in Requests : req'[q].pc \in Holding} = {}
  BY <1>1, <1>2 DEF Holding
<1>4. {req'[t].id : t \in {q \in Requests : req'[q].pc \in Holding}} = {}
  BY <1>3
<1> QED
  BY <1>1, <1>2, <1>3, <1>4 DEF FlightHolds, Holding

\* The steps that read, move on, or call.
LEMMA MovesKeepFlight ==
  ASSUME IInv, FlightHolds, NEW r \in Requests,
         Propose(r) \/ Receive(r) \/ Mint(r) \/ Call(r) \/ Answer(r)
  PROVE  FlightHolds'
<1>0. status' = status /\ confirming' = confirming /\ req[r] \in Handlers
  BY DEF Propose, Receive, Mint, Call, Answer, durable, IInv, Types
<1>1. req[r].pc # "idle" => req[r].id \in Ids
  BY DEF IInv, HandlersAgree, HandlerAgrees
<1>2. /\ req[r].pc \in Holding \cup {"arrived"} => status[req[r].id] # "none"
      /\ req[r].put => req[r].pc \in Patching \cup {"append"}
  BY DEF FlightHolds
<1>3. CASE Propose(r)
  <2> DEFINE q == [Idle EXCEPT !.pc = "append", !.id = made + 1]
  <2>1. req' = [req EXCEPT ![r] = q] /\ req[r].pc = "idle" /\ q.pc = "append"
    BY <1>3 DEF Propose
  <2> HIDE DEF q
  <2> QED
    BY <1>0, <2>1, HeldAsBefore DEF Holding
<1>4. CASE Receive(r)
  <2>1. PICK i \in Ids, d \in Contents :
          /\ status[i] = "proposed"
          /\ req' = [req EXCEPT ![r] = [Idle EXCEPT !.pc = "arrived", !.id = i, !.digest = d]]
    BY <1>4 DEF Receive
  <2> DEFINE q == [Idle EXCEPT !.pc = "arrived", !.id = i, !.digest = d]
  <2>2. req' = [req EXCEPT ![r] = q] /\ q.pc = "arrived" /\ q.id = i /\ ~q.put
    BY <2>1
  <2>3. req[r].pc = "idle"
    BY <1>4 DEF Receive
  <2> HIDE DEF q
  <2> QED
    BY <1>0, <2>1, <2>2, <2>3, HeldAsBefore DEF Holding
<1>5. CASE Mint(r)
  <2> DEFINE next == IF /\ req[r].digest = content[req[r].id]
                        /\ content[req[r].id] \notin Colliding
                     THEN "claim" ELSE "reject"
  <2> DEFINE q == [req[r] EXCEPT !.pc = next]
  <2>1. req[r].pc = "held" /\ req' = [req EXCEPT ![r] = q]
    BY <1>5 DEF Mint
  <2>2. q.pc \in {"claim", "reject"} /\ q.id = req[r].id /\ q.put = req[r].put
    BY <1>0
  <2> HIDE DEF q
  <2> QED
    BY <1>0, <1>1, <1>2, <2>1, <2>2, HeldAsBefore DEF Holding
<1>6. CASE Call(r)
  <2> DEFINE q == [req[r] EXCEPT !.pc = "calling"]
  <2>1. req[r].pc = "call" /\ req' = [req EXCEPT ![r] = q]
    BY <1>6 DEF Call
  <2>2. q.pc = "calling" /\ q.id = req[r].id /\ q.put = req[r].put
    BY <1>0
  <2> HIDE DEF q
  <2> QED
    BY <1>0, <1>1, <1>2, <2>1, <2>2, HeldAsBefore DEF Holding
<1>7. CASE Answer(r)
  <2>1. PICK o \in Terminal : req' = [req EXCEPT ![r].pc = "settle", ![r].outcome = o]
    BY <1>7 DEF Answer
  <2> DEFINE q == [req[r] EXCEPT !.pc = "settle", !.outcome = o]
  <2>2. req[r].pc = "calling" /\ req' = [req EXCEPT ![r] = q]
    BY <1>7, <2>1 DEF Answer, IInv, Types
  <2>3. q.pc = "settle" /\ q.id = req[r].id /\ q.put = req[r].put
    BY <1>0
  <2> HIDE DEF q
  <2> QED
    BY <1>0, <1>1, <1>2, <2>2, <2>3, HeldAsBefore DEF Holding
<1> QED
  BY <1>3, <1>4, <1>5, <1>6, <1>7

\* The steps of the two writers of the row, a conflict and a failure among them.
LEMMA WritersKeepFlight ==
  ASSUME IInv, RowHolds, FlightHolds, NEW r \in Requests, [Next]_vars,
         \/ AppendRead(r) \/ AppendWrite(r) \/ PatchRead(r) \/ PatchWrite(r)
         \/ Conflict(r) \/ StoreFails(r) \/ CommitIsNotHeard(r) \/ Refuse(r)
  PROVE  FlightHolds'
<1>0. (\A j \in Ids : status[j] # "none" => status'[j] # "none") /\ req[r] \in Handlers
  BY RecordsMoveForward DEF IInv, Types
<1>1. req[r].pc # "idle" => req[r].id \in Ids
  BY DEF IInv, HandlersAgree, HandlerAgrees
<1>2. /\ req[r].pc \in Holding \cup {"arrived"} => status[req[r].id] # "none"
      /\ req[r].put => req[r].pc \in Patching \cup {"append"}
      /\ r \in fresh => req[r].pc \in Patching \cup {"append"}
  BY DEF FlightHolds, IInv, HandlersAgree, FreshAgrees
<1>3. req[r].pc \in Patching \cup {"append", "held"} => req[r].pc \in Holding \cup {"append"}
  BY DEF Holding
<1>4. CASE Reply(r)
  <2>1. req[r].pc \in Patching \cup {"append", "held"}
    BY <1>2 DEF AppendRead, AppendWrite, PatchRead, PatchWrite, Conflict, StoreFails,
                CommitIsNotHeard, Refuse
  <2> QED
    BY <1>0, <1>3, <1>4, <2>1, ReplyLeaves
<1>5. ASSUME Hold(r), UNCHANGED confirming, req[r].pc \in Patching \cup {"append"}
      PROVE  FlightHolds'
  <2> DEFINE q == [req[r] EXCEPT !.put = TRUE]
  <2>1. req' = [req EXCEPT ![r] = q]
    BY <1>5 DEF Hold
  <2>2. q.pc = req[r].pc /\ q.id = req[r].id
    BY <1>0
  <2> HIDE DEF q
  <2> QED
    BY <1>0, <1>1, <1>2, <1>5, <2>1, <2>2, HeldAsBefore DEF Holding
<1>6. ASSUME Conflict(r), ~Reply(r) PROVE FlightHolds'
  <2> DEFINE q == [req[r] EXCEPT !.put = FALSE, !.attempt = @ + 1]
  <2>1. req' = [req EXCEPT ![r] = q] /\ UNCHANGED confirming
    BY <1>0, <1>6 DEF Conflict, IInv, Types
  <2>2. q.pc = req[r].pc /\ q.id = req[r].id /\ ~q.put
    BY <1>0
  <2> HIDE DEF q
  <2> QED
    BY <1>0, <1>1, <1>2, <1>6, <2>1, <2>2, HeldAsBefore DEF Holding
<1>7. ASSUME PatchWrite(r), ~Reply(r) PROVE FlightHolds'
  <2> DEFINE q == [req[r] EXCEPT !.pc = "call", !.put = FALSE, !.attempt = 0]
  <2>1. req[r].pc = "claim" /\ req' = [req EXCEPT ![r] = q] /\ UNCHANGED confirming
    BY <1>0, <1>7 DEF PatchWrite, IInv, Types
  <2>2. q.pc = "call" /\ q.id = req[r].id /\ ~q.put
    BY <1>0
  <2> HIDE DEF q
  <2> QED
    BY <1>0, <1>1, <1>2, <2>1, <2>2, HeldAsBefore DEF Holding
<1> QED
  BY <1>4, <1>5, <1>6, <1>7 DEF AppendRead, AppendWrite, PatchRead, PatchWrite, Conflict,
     StoreFails, CommitIsNotHeard, Refuse

LEMMA FlightStands ==
  ASSUME FlightHolds, UNCHANGED <<status, req, confirming>>
  PROVE  FlightHolds'
BY DEF FlightHolds

LEMMA FlightIsKept ==
  ASSUME IInv, RowHolds, FlightHolds, [Next]_vars
  PROVE  FlightHolds'
<1>1. ASSUME NEW r \in Requests,
             Propose(r) \/ Receive(r) \/ Mint(r) \/ Call(r) \/ Answer(r) \/ Enter(r)
      PROVE  FlightHolds'
  BY <1>1, MovesKeepFlight, EnterFlight
<1>2. ASSUME NEW r \in Requests,
             \/ AppendRead(r) \/ AppendWrite(r) \/ PatchRead(r) \/ PatchWrite(r)
             \/ Conflict(r) \/ StoreFails(r) \/ CommitIsNotHeard(r) \/ Refuse(r)
      PROVE  FlightHolds'
  BY <1>2, WritersKeepFlight
<1>3. Bump \/ UNCHANGED vars => UNCHANGED <<status, req, confirming>>
  BY DEF Bump, vars, durable
<1> QED
  BY <1>1, <1>2, <1>3, CrashFlight, FlightStands DEF Next

-----------------------------------------------------------------------------
(* The theorems                                                            *)

LEMMA CountsKept ==
  ASSUME IInv, CountsHold, [Next]_vars
  PROVE  CountsHold'
<1>1. bumps' \in Nat /\ crashes' \in Nat
  <2>1. ASSUME NEW r \in Requests,
               \/ Propose(r) \/ AppendRead(r) \/ AppendWrite(r) \/ Receive(r) \/ Enter(r)
               \/ Refuse(r) \/ Mint(r) \/ PatchRead(r) \/ PatchWrite(r) \/ Call(r)
               \/ Answer(r) \/ Conflict(r) \/ StoreFails(r) \/ CommitIsNotHeard(r)
        PROVE  UNCHANGED <<bumps, crashes>>
    BY <2>1 DEF Propose, AppendRead, AppendWrite, Receive, Enter, Refuse, Mint, PatchRead,
                PatchWrite, Call, Answer, Conflict, StoreFails, CommitIsNotHeard, counters
  <2>2. CASE Bump
    BY <2>2 DEF Bump, CountsHold
  <2>3. CASE Crash
    BY <2>3 DEF Crash, CountsHold
  <2>4. CASE UNCHANGED vars
    BY <2>4 DEF vars, counters, CountsHold
  <2> QED
    BY <2>1, <2>2, <2>3, <2>4 DEF Next, CountsHold
<1>2. approved' \subseteq Ids
  BY DEF CountsHold, Next, Propose, AppendRead, AppendWrite, Receive, Enter, Refuse, Mint,
         PatchRead, PatchWrite, Call, Answer, Conflict, StoreFails, CommitIsNotHeard, Bump,
         Crash, vars, history
<1> QED
  BY <1>1, <1>2 DEF CountsHold

RowInv == RowHolds /\ FlightHolds /\ CountsHold

LEMMA RowInvHolds == Spec => []RowInv
<1>1. Init => RowInv
  <2> SUFFICES ASSUME Init PROVE RowInv
    OBVIOUS
  <2>1. row = <<>> /\ Len(row) = 0 /\ status = [i \in Ids |-> "none"]
    BY DEF Init
  <2>2. RowHolds
    BY <2>1 DEF RowHolds
  <2>3. (\A t \in Requests : req[t] = Idle) /\ Idle.pc = "idle" /\ ~Idle.put /\ confirming = {}
    BY DEF Init
  <2> HIDE DEF Idle
  <2>4. {q \in Requests : req[q].pc \in Holding} = {}
    BY <2>3 DEF Holding
  <2>5. {req[t].id : t \in {q \in Requests : req[q].pc \in Holding}} = {}
    BY <2>4
  <2>6. FlightHolds
    BY <2>3, <2>4, <2>5 DEF FlightHolds, Holding
  <2>7. CountsHold
    BY DEF Init, CountsHold
  <2> QED
    BY <2>2, <2>6, <2>7 DEF RowInv
<1>2. IInv /\ RowInv /\ [Next]_vars => RowInv'
  BY RecordsMoveForward, FlightIsKept, CountsKept DEF RowInv
<1> QED
  BY <1>1, <1>2, IInvHolds, PTL DEF Spec

\* The row's types and cap hold, and the in-flight set of the confirm route
\* (confirmingWrites of sessions.routes.ts) is the confirmations under way, one each.
THEOREM WritesTyped == Spec => []TypeOK
<1>1. IInv /\ RowInv => TypeOK
  <2> SUFFICES ASSUME IInv, RowInv PROVE TypeOK
    OBVIOUS
  <2>1. confirming \subseteq 0..MaxProposals
    <3>1. \A r \in Requests : req[r].id \in 0..MaxProposals
      BY DEF IInv, Types
    <3> QED
      BY <3>1 DEF RowInv, FlightHolds
  <2> QED
    BY <2>1 DEF IInv, Types, RowInv, RowHolds, FlightHolds, CountsHold, TypeOK
<1> QED
  BY <1>1, IInvHolds, RowInvHolds, PTL

\* A record in flight is never dropped by the cap nor set back by a late write, whatever
\* appends and patches race (appendExternalWrite.ts, patchExternalWrite).
THEOREM NoneInFlightIsLost == Spec => InFlightIsKept
<1>1. IInv /\ RowInv /\ [Next]_vars => [Forward]_vars
  BY RecordsMoveForward DEF RowInv
<1> QED
  BY <1>1, IInvHolds, RowInvHolds, PTL DEF Spec, InFlightIsKept, Forward

=============================================================================
