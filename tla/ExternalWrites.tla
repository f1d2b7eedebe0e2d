--------------------------- MODULE ExternalWrites ---------------------------
(***************************************************************************)
(* The outward writes of one session (Jira, Confluence, GitHub through     *)
(* MCP): an agent or a user proposes one, a human confirms the digest of   *)
(* what it would write, and only then is it sent.  The proposals are a     *)
(* capped list on the session's row (backend/src/gates/appendExternalWrite *)
(* .ts, recordGithubProposal.ts), confirmed by a route of sessions.routes  *)
(* .ts that claims the record, calls the provider and settles the record.  *)
(*                                                                         *)
(* A digest is the content it stands for.  The row's version is the set    *)
(* `fresh` of requests that have read the row as it still is: any write    *)
(* empties it, and a request outside it has its write refused.  A content  *)
(* off the provider's allow-list is refused when proposed, and left out.   *)
(***************************************************************************)
EXTENDS Naturals, FiniteSets, Sequences

CONSTANTS
  Requests,      \* requests the server may handle at once
  Contents,      \* what a write would send: provider, action, target, payload
  Github,        \* the contents that go to GitHub
  Colliding,     \* contents whose target and payload share a key
  None,
  Cap,           \* proposals a session keeps (EXTERNAL_WRITES_MAX, 50)
  MaxRetry,      \* retries of a write refused for its version (5)
  MaxProposals,  \* bound: proposals made
  MaxBumps,      \* bound: writes of the row by chat turns and the like
  MaxCrashes     \* bound: restarts of the server

ASSUME ContentsAssumption ==
  Github \subseteq Contents /\ Colliding \subseteq Contents /\ None \notin Contents
ASSUME WritesBounds ==
  /\ Cap \in Nat \ {0} /\ MaxRetry \in Nat
  /\ MaxProposals \in Nat /\ MaxBumps \in Nat /\ MaxCrashes \in Nat

Ids == 1..MaxProposals

VARIABLES
  status,      \* where each proposal stands; "none" before it is recorded
  content,     \* what each proposal would write
  row,         \* the session's externalWrites, oldest first
  fresh,       \* requests that have read the row at its version
  req,         \* each request's handler and its locals
  confirming,  \* confirmingWrites: proposals with a confirmation under way
  sent,        \* history: how often each proposal was sent out
  approved,    \* history: proposals confirmed with the digest of their content
  made, bumps, crashes

durable == <<status, content, row>>
history == <<sent, approved>>
counters == <<made, bumps, crashes>>
vars == <<durable, fresh, req, confirming, history, counters>>

Recorded == {"proposed", "executing", "executed", "failed"}
Terminal == {"executed", "failed"}
Idle == [pc |-> "idle", id |-> 0, digest |-> None, attempt |-> 0, put |-> FALSE,
         outcome |-> "none"]

Init ==
  /\ status = [i \in Ids |-> "none"] /\ content = [i \in Ids |-> None] /\ row = <<>>
  /\ fresh = {} /\ req = [r \in Requests |-> Idle] /\ confirming = {}
  /\ sent = [i \in Ids |-> 0] /\ approved = {}
  /\ made = 0 /\ bumps = 0 /\ crashes = 0

-----------------------------------------------------------------------------
(* Reading and writing the row                                             *)

\* Mutant: a handler that throws leaves its proposal in the in-flight set.
ReplyOnly(r) ==
  /\ req' = [req EXCEPT ![r] = Idle]
  /\ UNCHANGED confirming

\* The handler returns or throws; a confirmation leaves the in-flight set.
Reply(r) ==
  /\ req' = [req EXCEPT ![r] = Idle]
  /\ confirming' = confirming \ {req[r].id}

\* The handler holds the row as read.
Hold(r) ==
  /\ req' = [req EXCEPT ![r].put = TRUE]
  /\ fresh' = fresh \cup {r}

\* The row changed under the handler: it reads again, up to the limit, or throws.
Conflict(r) ==
  /\ req[r].put /\ r \notin fresh
  /\ IF req[r].attempt < MaxRetry
     THEN /\ req' = [req EXCEPT ![r].put = FALSE, ![r].attempt = @ + 1]
          /\ UNCHANGED confirming
     ELSE Reply(r)
  /\ UNCHANGED <<durable, fresh, history, counters>>

-----------------------------------------------------------------------------
(* Proposing                                                               *)

\* POST /external-writes, or the agent's propose_github_write: a new record, still
\* to be appended.  The GitHub recorder refuses overlapping keys at once.
Propose(r) ==
  /\ req[r].pc = "idle" /\ made < MaxProposals
  /\ made' = made + 1
  /\ \E c \in Contents \ (Github \cap Colliding) : content' = [content EXCEPT ![made + 1] = c]
  /\ req' = [req EXCEPT ![r] = [Idle EXCEPT !.pc = "append", !.id = made + 1]]
  /\ UNCHANGED <<status, row, fresh, confirming, history, bumps, crashes>>

\* A proposal to GitHub of the same content is already waiting.
Duplicate(i) ==
  /\ content[i] \in Github
  /\ \E j \in Ids : status[j] = "proposed" /\ content[j] = content[i]

Full == Len(row) >= Cap

\* Mutant: a record that is being sent may be dropped.
EvictableUnlessProposed == {n \in 1..Len(row) : status[row[n]] # "proposed"}

Evictable == {n \in 1..Len(row) : status[row[n]] \in Terminal}
Oldest == CHOOSE n \in Evictable : \A k \in Evictable : n <= k

\* The append reads the row: it reuses a waiting duplicate, refuses a row full of
\* records in flight, or goes on to write.
AppendRead(r) ==
  /\ req[r].pc = "append" /\ ~req[r].put
  /\ IF Duplicate(req[r].id) \/ (Full /\ Evictable = {})
     THEN Reply(r) /\ UNCHANGED fresh
     ELSE Hold(r) /\ UNCHANGED confirming
  /\ UNCHANGED <<durable, history, counters>>

\* The record joins the row; when the row is full, the oldest terminal record goes.
MakeRoom(i) ==
  IF Full
  THEN /\ row' = Append(SubSeq(row, 1, Oldest - 1) \o SubSeq(row, Oldest + 1, Len(row)), i)
       /\ status' = [status EXCEPT ![i] = "proposed", ![row[Oldest]] = "evicted"]
  ELSE /\ row' = Append(row, i)
       /\ status' = [status EXCEPT ![i] = "proposed"]

AppendWrite(r) ==
  /\ req[r].pc = "append" /\ r \in fresh
  /\ MakeRoom(req[r].id)
  /\ fresh' = {}
  /\ Reply(r)
  /\ UNCHANGED <<content, history, counters>>

-----------------------------------------------------------------------------
(* Confirming                                                              *)

\* POST /external-writes/:id/confirm: the row is read, and the caller identified.  A
\* record that is not proposed is refused here.
Receive(r) ==
  /\ req[r].pc = "idle"
  /\ \E i \in Ids, d \in Contents :
       /\ status[i] = "proposed"
       /\ req' = [req EXCEPT ![r] = [Idle EXCEPT !.pc = "arrived", !.id = i, !.digest = d]]
       /\ approved' = IF d = content[i] THEN approved \cup {i} ELSE approved
  /\ UNCHANGED <<durable, fresh, confirming, sent, counters>>

\* The in-flight check, on a status that may be old by now.
Enter(r) ==
  /\ req[r].pc = "arrived"
  /\ IF req[r].id \in confirming
     THEN req' = [req EXCEPT ![r] = Idle] /\ UNCHANGED confirming
     ELSE /\ confirming' = confirming \cup {req[r].id}
          /\ req' = [req EXCEPT ![r].pc = "held"]
  /\ UNCHANGED <<durable, fresh, history, counters>>

\* No user, no MCP store, or no connection to the provider.
Refuse(r) ==
  /\ req[r].pc = "held"
  /\ Reply(r)
  /\ UNCHANGED <<durable, fresh, history, counters>>

\* Mutant: the digest is not compared.
MintAny(r) ==
  /\ req[r].pc = "held"
  /\ req' = [req EXCEPT ![r].pc =
               IF content[req[r].id] \notin Colliding THEN "claim" ELSE "reject"]
  /\ UNCHANGED <<durable, fresh, confirming, history, counters>>

\* The approval is minted if the digest confirmed is the record's and its keys are
\* disjoint.
Mint(r) ==
  /\ req[r].pc = "held"
  /\ req' = [req EXCEPT ![r].pc =
               IF /\ req[r].digest = content[req[r].id]
                  /\ content[req[r].id] \notin Colliding
               THEN "claim" ELSE "reject"]
  /\ UNCHANGED <<durable, fresh, confirming, history, counters>>

\* The status a patch requires, and the one it leaves.
From(pc) == IF pc = "settle" THEN "executing" ELSE "proposed"
To(q) == CASE q.pc = "claim"  -> "executing"
           [] q.pc = "reject" -> "failed"
           [] q.pc = "settle" -> q.outcome

Patching == {"reject", "claim", "settle"}

\* Mutant: the patch does not look at the record's status.
PatchReadUnguarded(r) ==
  /\ req[r].pc \in Patching /\ ~req[r].put
  /\ IF status[req[r].id] # "none"
     THEN Hold(r) /\ UNCHANGED confirming
     ELSE Reply(r) /\ UNCHANGED fresh
  /\ UNCHANGED <<durable, history, counters>>

\* patchExternalWrite reads the row: a record that has moved on is left alone.
PatchRead(r) ==
  /\ req[r].pc \in Patching /\ ~req[r].put
  /\ IF status[req[r].id] = From(req[r].pc)
     THEN Hold(r) /\ UNCHANGED confirming
     ELSE Reply(r) /\ UNCHANGED fresh
  /\ UNCHANGED <<durable, history, counters>>

\* The patch is written; a claim goes on to the call, the others return.
PatchWrite(r) ==
  /\ req[r].pc \in Patching /\ r \in fresh
  /\ status' = [status EXCEPT ![req[r].id] = To(req[r])]
  /\ fresh' = {}
  /\ IF req[r].pc = "claim"
     THEN /\ req' = [req EXCEPT ![r].pc = "call", ![r].put = FALSE, ![r].attempt = 0]
          /\ UNCHANGED confirming
     ELSE Reply(r)
  /\ UNCHANGED <<content, row, history, counters>>

\* executeExternalWrite: the request leaves for the provider...
Call(r) ==
  /\ req[r].pc = "call"
  /\ sent' = [sent EXCEPT ![req[r].id] = @ + 1]
  /\ req' = [req EXCEPT ![r].pc = "calling"]
  /\ UNCHANGED <<durable, fresh, confirming, approved, counters>>

\* ...which answers, reports an error, or is not heard of.
Answer(r) ==
  /\ req[r].pc = "calling"
  /\ \E o \in Terminal : req' = [req EXCEPT ![r].pc = "settle", ![r].outcome = o]
  /\ UNCHANGED <<durable, fresh, confirming, history, counters>>

-----------------------------------------------------------------------------
(* Failures and the rest of the server                                     *)

\* The store throws on a read or a write that is not a conflict.
StoreFails(r) ==
  /\ req[r].pc \in Patching \cup {"append"}
  /\ Reply(r)
  /\ fresh' = fresh \ {r}
  /\ UNCHANGED <<durable, history, counters>>

\* The store commits a patch or an append, and throws all the same: the reply of the
\* database is lost.
CommitIsNotHeard(r) ==
  /\ r \in fresh
  /\ IF req[r].pc = "append"
     THEN MakeRoom(req[r].id)
     ELSE status' = [status EXCEPT ![req[r].id] = To(req[r])] /\ UNCHANGED row
  /\ fresh' = {}
  /\ Reply(r)
  /\ UNCHANGED <<content, history, counters>>

\* A chat turn or the pipeline writes the row.
Bump ==
  /\ bumps < MaxBumps
  /\ bumps' = bumps + 1 /\ fresh' = {}
  /\ UNCHANGED <<durable, req, confirming, history, made, crashes>>

\* A restart keeps the row and forgets the handlers and their in-flight set.
Crash ==
  /\ crashes < MaxCrashes
  /\ crashes' = crashes + 1
  /\ req' = [r \in Requests |-> Idle] /\ fresh' = {} /\ confirming' = {}
  /\ UNCHANGED <<durable, history, made, bumps>>

-----------------------------------------------------------------------------
Next ==
  \/ \E r \in Requests :
       \/ Propose(r) \/ AppendRead(r) \/ AppendWrite(r)
       \/ Receive(r) \/ Enter(r) \/ Refuse(r) \/ Mint(r) \/ PatchRead(r) \/ PatchWrite(r)
       \/ Call(r) \/ Answer(r)
       \/ Conflict(r) \/ StoreFails(r) \/ CommitIsNotHeard(r)
  \/ Bump \/ Crash

Spec == Init /\ [][Next]_vars

-----------------------------------------------------------------------------
(* Properties                                                              *)

Labels == {"idle", "append", "arrived", "held", "call", "calling"} \cup Patching

Handlers ==
  [pc : Labels, id : 0..MaxProposals, digest : Contents \cup {None}, attempt : Nat,
   put : BOOLEAN, outcome : Terminal \cup {"none"}]

Holding == {"held", "call", "calling"} \cup Patching

\* Every variable keeps its type, and the row its cap; and the in-flight set holds
\* exactly the proposals with a confirmation under way, one each: none is left behind
\* to block its proposal for good.
TypeOK ==
  /\ status \in [Ids -> Recorded \cup {"none", "evicted"}]
  /\ content \in [Ids -> Contents \cup {None}]
  /\ row \in Seq(Ids) /\ Len(row) <= Cap
  /\ fresh \subseteq Requests /\ req \in [Requests -> Handlers]
  /\ confirming \subseteq 0..MaxProposals
  /\ sent \in [Ids -> Nat] /\ approved \subseteq Ids
  /\ made \in 0..MaxProposals /\ bumps \in Nat /\ crashes \in Nat
  /\ confirming = {req[r].id : r \in {q \in Requests : req[q].pc \in Holding}}
  /\ \A r, q \in Requests :
       req[r].pc \in Holding /\ req[q].pc \in Holding /\ req[r].id = req[q].id => r = q

\* No proposal is ever sent twice, whatever races, conflicts, lost replies and
\* restarts its confirmations meet, and one that can still be confirmed was not sent.
AtMostOnce ==
  \A i \in Ids : /\ sent[i] <= 1
                 /\ status[i] = "proposed" => sent[i] = 0

\* What is sent is what a human confirmed: the digest they were shown is the content's.
SentWasConfirmed ==
  \A i \in Ids : sent[i] > 0 => i \in approved

\* A record in flight stays in the row until it is settled, and moves only forward:
\* the cap never drops it, and no late write brings an earlier status back.
InFlightIsKept ==
  [][\A i \in Ids :
       /\ status[i] = "proposed" => status'[i] \in {"proposed", "executing", "failed"}
       /\ status[i] = "executing" => status'[i] \in {"executing"} \cup Terminal
       /\ status[i] \in Terminal => status'[i] \in {status[i], "evicted"}
       /\ status'[i] \in Recorded => \E n \in 1..Len(row') : row'[n] = i]_vars

=============================================================================
