------------------------- MODULE OrchestratorProofs -------------------------
(***************************************************************************)
(* Theorems about every instance of Orchestrator: any number of clients,   *)
(* chat writers, specs, file sets, repositories, workflows, retries and    *)
(* restarts.  In turn the types, the push gate, the guards, the approval,  *)
(* the cancel, that Orchestrator implements TrustGates, and what is        *)
(* delivered and where, as long as the session is built by one handler at  *)
(* a time, which with one client it is.                                    *)
(*                                                                         *)
(* The type invariant is proved of TypeInv, which adds that a resilient    *)
(* write in progress carries a patch: without it the CASE of Patched could *)
(* return anything.                                                        *)
(***************************************************************************)
EXTENDS Orchestrator, TLAPS

-----------------------------------------------------------------------------
(* The type invariant, by the part of the state it speaks of               *)

RowTyped == row \in Rows

PatchInHand == \A p \in Proc : pc[p] \in {"read", "write"} => lv[p].patch # "none"

ProcsTyped == pc \in [Proc -> Labels] /\ lv \in [Proc -> Locals] /\ PatchInHand

GuardsTyped ==
  inFlight \subseteq Orchs /\ bound \in Workflows \cup {None} /\ confirming \in BOOLEAN

WorldTyped ==
  /\ repos \subseteq Repos
  /\ pushes \subseteq [files : Codes \cup {None}, to : Repos \cup {None}]
  /\ passed \subseteq Codes \cup {None}
  /\ issued \in Nat /\ turns \in Nat /\ crashes \in Nat

TypeInv == RowTyped /\ ProcsTyped /\ GuardsTyped /\ WorldTyped

\* The detached run is a process like any other.
LEMMA KickIsProc == Kick \in Proc
  BY DEF Proc

\* The orchestrator a request finds for the session is one of the orchestrators.
LEMMA OrchForTyped == GuardsTyped => OrchFor \in Orchs
  BY DEF GuardsTyped, OrchFor, Orchs

\* What each column of a typed row may hold.
LEMMA RowFields ==
  ASSUME RowTyped
  PROVE  /\ row.version \in Nat /\ row.version + 1 \in Nat
         /\ row.spec \in Specs \cup {None} /\ row.approval \in Specs \cup {None}
         /\ row.code \in Codes \cup {None} /\ row.token \in Codes \cup {None}
         /\ row.delivery \in Repos \cup {None}
  BY DEF RowTyped, Rows

\* The row that POST /sessions creates.
LEMMA FreshRow ==
  ASSUME NEW d \in Repos \cup {None}
  PROVE  [NoRow EXCEPT !.status = "composing", !.delivery = d] \in Rows
  BY DEF Rows, NoRow, Statuses

\* A typed row stays typed when a write replaces some of its columns: version,
\* status, spec, approval, code and token.
LEMMA RowWith ==
  ASSUME NEW r \in Rows, NEW n \in Nat, NEW st \in Statuses, NEW s \in Specs \cup {None},
         NEW c \in Codes \cup {None}
  PROVE  /\ [r EXCEPT !.version = n] \in Rows
         /\ [r EXCEPT !.status = st] \in Rows
         /\ [r EXCEPT !.spec = s, !.status = st] \in Rows
         /\ [r EXCEPT !.approval = s] \in Rows
         /\ [r EXCEPT !.code = c] \in Rows
         /\ [r EXCEPT !.code = c, !.status = st] \in Rows
         /\ [r EXCEPT !.token = c] \in Rows
  BY DEF Rows

\* The same of a write that moves the status and pins the delivery, if there is one.
LEMMA RowWithDelivery ==
  ASSUME NEW r \in Rows, NEW st \in Statuses, NEW d \in Repos \cup {None}
  PROVE  [r EXCEPT !.status = st, !.delivery = IF d = None THEN @ ELSE d] \in Rows
  BY DEF Rows

\* A commit of a typed row leaves a typed row.
LEMMA CommitTyped ==
  ASSUME RowTyped, NEW r \in Rows, NEW p, Commit(p, r)
  PROVE  RowTyped'
  <1>1. row.version + 1 \in Nat
    BY RowFields
  <1>2. [r EXCEPT !.version = row.version + 1] \in Rows
    BY <1>1 DEF Rows
  <1>3. QED
    BY <1>2 DEF Commit, RowTyped

\* What each local variable of a handler may hold.
LEMMA LocalFields ==
  ASSUME NEW l \in Locals
  PROVE  /\ l.op \in Ops /\ l.orch \in Orchs /\ l.ver \in Nat
         /\ l.files \in Codes \cup {None} /\ l.delivery \in Repos \cup {None}
         /\ l.to \in Repos \cup {None} /\ l.patch \in Patches
         /\ l.retry \in Nat /\ l.iter \in Nat
  BY DEF Locals

LEMMA NoLocalsTyped == NoLocals \in Locals
  BY DEF NoLocals, Locals, Ops, Orchs, Patches

\* The locals a request starts with.
LEMMA FreshLocals ==
  ASSUME NEW k \in Ops, NEW o \in Orchs, NEW n \in Nat, NEW c \in Codes \cup {None},
         NEW d \in Repos \cup {None}
  PROVE  /\ [NoLocals EXCEPT !.op = k] \in Locals
         /\ [NoLocals EXCEPT !.op = k, !.orch = o] \in Locals
         /\ [NoLocals EXCEPT !.op = k, !.ver = n] \in Locals
         /\ [NoLocals EXCEPT !.op = k, !.files = c, !.delivery = d] \in Locals
  BY NoLocalsTyped DEF Locals

\* The locals a handler goes on with: whatever it assigns, the rest stays typed.
LEMMA LocalsWith ==
  ASSUME NEW l \in Locals, NEW n \in Nat, NEW c \in Codes \cup {None},
         NEW d \in Repos \cup {None}, NEW t \in Repos \cup {None}
  PROVE  /\ [l EXCEPT !.ver = n] \in Locals
         /\ [l EXCEPT !.ver = n, !.retry = 1] \in Locals
         /\ [l EXCEPT !.delivery = d] \in Locals
         /\ [l EXCEPT !.delivery = d, !.to = t] \in Locals
         /\ [l EXCEPT !.files = c, !.to = t] \in Locals
  BY DEF Locals

\* The same of the two loop counters.
LEMMA LocalsCount ==
  ASSUME NEW l \in Locals
  PROVE  [l EXCEPT !.retry = @ + 1] \in Locals /\ [l EXCEPT !.iter = @ + 1] \in Locals
  BY DEF Locals

\* The same of a handler that takes a patch in hand, alone or with the files it writes
\* or the delivery it pins.
LEMMA LocalsWithPatch ==
  ASSUME NEW l \in Locals, NEW patch \in Patches
  PROVE  /\ [l EXCEPT !.patch = patch, !.retry = 0] \in Locals
         /\ [l EXCEPT !.patch = patch, !.retry = 0].patch = patch
  BY DEF Locals

LEMMA LocalsWithFiles ==
  ASSUME NEW l \in Locals, NEW patch \in Patches, NEW c \in Codes
  PROVE  /\ [l EXCEPT !.files = c, !.patch = patch] \in Locals
         /\ [l EXCEPT !.files = c, !.patch = patch].patch = patch
         /\ [l EXCEPT !.files = c, !.patch = patch, !.retry = 0] \in Locals
         /\ [l EXCEPT !.files = c, !.patch = patch, !.retry = 0].patch = patch
  BY DEF Locals

LEMMA LocalsWithPin ==
  ASSUME NEW l \in Locals, NEW patch \in Patches, NEW d \in Repos \cup {None}
  PROVE  /\ [l EXCEPT !.delivery = d, !.patch = patch] \in Locals
         /\ [l EXCEPT !.delivery = d, !.patch = patch].patch = patch
         /\ [l EXCEPT !.delivery = d, !.patch = patch, !.retry = 0] \in Locals
         /\ [l EXCEPT !.delivery = d, !.patch = patch, !.retry = 0].patch = patch
  BY DEF Locals

\* A handler that moves to a label with typed locals, and with a patch in hand if it
\* is to write, leaves every process typed.
LEMMA Moved ==
  ASSUME ProcsTyped, NEW p \in Proc, NEW label \in Labels, NEW l \in Locals,
         label \in {"read", "write"} => l.patch # "none",
         pc' = [pc EXCEPT ![p] = label], lv' = [lv EXCEPT ![p] = l]
  PROVE  ProcsTyped'
  BY DEF ProcsTyped, PatchInHand

\* A handler that only moves.
LEMMA MovedOn ==
  ASSUME ProcsTyped, NEW p \in Proc, NEW label \in Labels,
         label \in {"read", "write"} => lv[p].patch # "none",
         Goto(p, label), UNCHANGED lv
  PROVE  ProcsTyped'
  BY DEF ProcsTyped, PatchInHand, Goto

\* A handler that only assigns its locals, and is not about to write.
LEMMA Assigned ==
  ASSUME ProcsTyped, NEW p \in Proc, NEW l \in Locals, pc[p] \notin {"read", "write"},
         lv' = [lv EXCEPT ![p] = l], UNCHANGED pc
  PROVE  ProcsTyped'
  BY DEF ProcsTyped, PatchInHand

\* A handler that returns leaves the processes and the guards typed.
LEMMA ReturnTyped ==
  ASSUME ProcsTyped, NEW p \in Proc, Return(p)
  PROVE  ProcsTyped'
  BY NoLocalsTyped, Moved DEF Return, Labels

LEMMA ReturnGuards ==
  ASSUME GuardsTyped, NEW p \in Proc, Return(p)
  PROVE  inFlight' \subseteq Orchs /\ confirming' \in BOOLEAN
  BY DEF Return, GuardsTyped

\* So does a handler that throws.
LEMMA ThrowTyped ==
  ASSUME ProcsTyped, NEW p \in Proc, Throw(p)
  PROVE  ProcsTyped'
  <1>1. CASE p = Kick
    BY <1>1, NoLocalsTyped, Moved DEF Throw, Labels
  <1>2. CASE p # Kick
    BY <1>2, ReturnTyped DEF Throw
  <1>3. QED
    BY <1>1, <1>2

LEMMA ThrowGuards ==
  ASSUME GuardsTyped, NEW p \in Proc, Throw(p)
  PROVE  inFlight' \subseteq Orchs /\ confirming' \in BOOLEAN
  BY ReturnGuards DEF Throw, GuardsTyped

\* So does a handler that hands a patch to the resilient writer.
LEMMA ResilientTyped ==
  ASSUME ProcsTyped, NEW p \in Proc, NEW patch \in Patches \ {"none"}, Resilient(p, patch)
  PROVE  ProcsTyped'
  <1>1. /\ lv[p] \in Locals
        /\ lv' = [lv EXCEPT ![p] = [lv[p] EXCEPT !.patch = patch, !.retry = 0]]
    BY DEF Resilient, ProcsTyped
  <1>2. /\ [lv[p] EXCEPT !.patch = patch, !.retry = 0] \in Locals
        /\ [lv[p] EXCEPT !.patch = patch, !.retry = 0].patch # "none"
    BY <1>1, LocalsWithPatch
  <1>3. pc' = [pc EXCEPT ![p] = "read"] /\ "read" \in Labels
    BY DEF Resilient, Labels
  <1>4. QED
    BY <1>1, <1>2, <1>3, Moved

\* Every patch, applied to a typed row, is a typed row.
LEMMA PatchedTyped ==
  ASSUME RowTyped, NEW l \in Locals, l.patch # "none"
  PROVE  Patched(l) \in Rows
  <1>1. /\ l.files \in Codes \cup {None} /\ l.delivery \in Repos \cup {None}
        /\ l.patch \in Patches /\ row \in Rows
    BY LocalFields DEF RowTyped
  <1>2. {"awaiting_critic_resolution", "awaiting_push_confirm", "verify_failed",
         "push_failed", "done"} \subseteq Statuses
    BY DEF Statuses
  <1>3. CASE l.patch \in {"code", "readme", "park", "verified", "unverified"}
    BY <1>1, <1>2, <1>3, RowWith DEF Patched
  <1>4. CASE l.patch \in {"gate", "pushFailed", "done"}
    BY <1>1, <1>2, <1>4, RowWithDelivery DEF Patched
  <1>5. QED
    BY <1>1, <1>3, <1>4 DEF Patches

\* Every step of every handler, and of the process itself, keeps the types.
LEMMA TypeStep == TypeInv /\ [Next]_vars => TypeInv'
<1> SUFFICES ASSUME TypeInv, [Next]_vars
             PROVE  TypeInv'
  OBVIOUS
<1> USE DEF TypeInv
<1>1. ASSUME NEW p \in Proc, Start(p) PROVE TypeInv'
  <2>1. GuardsTyped'
    BY <1>1 DEF Start, GuardsTyped, github
  <2>2. RowTyped'
    BY <1>1, FreshRow DEF Start, RowTyped
  <2>3. ProcsTyped'
    <3>1. PICK o \in Orchs, seeded \in BOOLEAN :
            /\ Goto(p, IF seeded THEN "seed" ELSE "draft")
            /\ lv' = [lv EXCEPT ![p] = [NoLocals EXCEPT !.op = "start", !.orch = o]]
      BY <1>1 DEF Start
    <3>2. [NoLocals EXCEPT !.op = "start", !.orch = o] \in Locals
      BY FreshLocals DEF Ops
    <3>3. QED
      BY <3>1, <3>2, Moved DEF Goto, Labels
  <2>4. WorldTyped'
    BY <1>1 DEF Start, Issue, WorldTyped
  <2>5. QED
    BY <2>1, <2>2, <2>3, <2>4
<1>2. ASSUME NEW p \in Proc, Approve(p) PROVE TypeInv'
  <2>1. RowTyped' /\ GuardsTyped'
    BY <1>2 DEF Approve, RowTyped, GuardsTyped, github
  <2>2. ProcsTyped'
    <3>1. [NoLocals EXCEPT !.op = "approve", !.ver = row.version] \in Locals
      BY RowFields, FreshLocals DEF Ops, Orchs
    <3>2. /\ lv' = [lv EXCEPT ![p] = [NoLocals EXCEPT !.op = "approve", !.ver = row.version]]
          /\ pc' = [pc EXCEPT ![p] = "mint"]
      BY <1>2 DEF Approve, Goto
    <3>3. QED
      BY <3>1, <3>2, Moved DEF Labels
  <2>3. WorldTyped'
    BY <1>2 DEF Approve, Issue, WorldTyped, github
  <2>4. QED
    BY <2>1, <2>2, <2>3
<1>3. ASSUME NEW p \in Proc, Run(p) PROVE TypeInv'
  <2>1. RowTyped'
    BY <1>3 DEF Run, RowTyped, github
  <2>2. ProcsTyped'
    <3>1. [NoLocals EXCEPT !.op = "run", !.orch = OrchFor] \in Locals
      BY OrchForTyped, FreshLocals DEF Ops
    <3>2. /\ lv' = [lv EXCEPT ![p] = [NoLocals EXCEPT !.op = "run", !.orch = OrchFor]]
          /\ pc' = [pc EXCEPT ![p] = "run"]
      BY <1>3 DEF Run, Goto
    <3>3. QED
      BY <3>1, <3>2, Moved DEF Labels
  <2>3. GuardsTyped'
    BY <1>3, OrchForTyped DEF Run, GuardsTyped
  <2>4. WorldTyped'
    BY <1>3 DEF Run, Issue, WorldTyped, github
  <2>5. QED
    BY <2>1, <2>2, <2>3, <2>4
<1>4. ASSUME NEW p \in Proc, Cancel(p) PROVE TypeInv'
  <2>1. RowTyped' /\ GuardsTyped'
    BY <1>4 DEF Cancel, Plain, RowTyped, GuardsTyped, github
  <2>2. ProcsTyped'
    <3>1. [NoLocals EXCEPT !.op = "cancel", !.ver = row.version] \in Locals
      BY RowFields, FreshLocals DEF Ops, Orchs
    <3>2. /\ lv' = [lv EXCEPT ![p] = [NoLocals EXCEPT !.op = "cancel", !.ver = row.version]]
          /\ pc' = [pc EXCEPT ![p] = "cancel"]
      BY <1>4 DEF Cancel, Goto, Plain
    <3>3. QED
      BY <3>1, <3>2, Moved DEF Labels
  <2>3. WorldTyped'
    BY <1>4 DEF Cancel, Plain, Issue, WorldTyped, github
  <2>4. QED
    BY <2>1, <2>2, <2>3
<1>5. ASSUME NEW p \in Proc, ResolveSpec(p) PROVE TypeInv'
  <2>1. RowTyped' /\ GuardsTyped'
    BY <1>5 DEF ResolveSpec, Plain, RowTyped, GuardsTyped, github
  <2>2. ProcsTyped'
    <3>1. [NoLocals EXCEPT !.op = "reopen", !.ver = row.version] \in Locals
      BY RowFields, FreshLocals DEF Ops, Orchs
    <3>2. /\ lv' = [lv EXCEPT ![p] = [NoLocals EXCEPT !.op = "reopen", !.ver = row.version]]
          /\ pc' = [pc EXCEPT ![p] = "reopen"]
      BY <1>5 DEF ResolveSpec, Goto, Plain
    <3>3. QED
      BY <3>1, <3>2, Moved DEF Labels
  <2>3. WorldTyped'
    BY <1>5 DEF ResolveSpec, Plain, Issue, WorldTyped, github
  <2>4. QED
    BY <2>1, <2>2, <2>3
<1>6. ASSUME NEW p \in Proc, Reverify(p) PROVE TypeInv'
  <2>1. RowTyped' /\ GuardsTyped'
    BY <1>6 DEF Reverify, RowTyped, GuardsTyped, github
  <2>2. ProcsTyped'
    <3>1. [NoLocals EXCEPT !.op = "verify", !.files = row.code, !.delivery = row.delivery] \in Locals
      BY RowFields, FreshLocals DEF Ops, Orchs
    <3>2. /\ lv' = [lv EXCEPT ![p] = [NoLocals EXCEPT !.op = "verify", !.files = row.code, !.delivery = row.delivery]]
          /\ pc' = [pc EXCEPT ![p] = "docs"]
      BY <1>6 DEF Reverify, Goto
    <3>3. QED
      BY <3>1, <3>2, Moved DEF Labels
  <2>3. WorldTyped'
    BY <1>6 DEF Reverify, Issue, WorldTyped, github
  <2>4. QED
    BY <2>1, <2>2, <2>3
<1>7. ASSUME NEW p \in Proc, Confirm(p) PROVE TypeInv'
  <2>1. RowTyped'
    BY <1>7 DEF Confirm, RowTyped, github
  <2>2. ProcsTyped'
    <3>1. [NoLocals EXCEPT !.op = "confirm"] \in Locals
      BY FreshLocals DEF Ops, Orchs
    <3>2. /\ lv' = [lv EXCEPT ![p] = [NoLocals EXCEPT !.op = "confirm"]]
          /\ pc' = [pc EXCEPT ![p] = "confirm"]
      BY <1>7 DEF Confirm, Goto
    <3>3. QED
      BY <3>1, <3>2, Moved DEF Labels
  <2>3. GuardsTyped'
    BY <1>7 DEF Confirm, GuardsTyped
  <2>4. WorldTyped'
    BY <1>7 DEF Confirm, Issue, WorldTyped, github
  <2>5. QED
    BY <2>1, <2>2, <2>3, <2>4
<1>8. ASSUME NEW p \in Proc, Chat(p) PROVE TypeInv'
  <2>1. RowTyped' /\ GuardsTyped'
    BY <1>8 DEF Chat, RowTyped, GuardsTyped
  <2>2. ProcsTyped'
    <3>1. [lv[p] EXCEPT !.ver = row.version] \in Locals
      BY RowFields, LocalsWith DEF ProcsTyped
    <3>2. /\ lv' = [lv EXCEPT ![p] = [lv[p] EXCEPT !.ver = row.version]]
          /\ pc' = [pc EXCEPT ![p] = "chat"]
      BY <1>8 DEF Chat, Goto, ProcsTyped
    <3>3. QED
      BY <3>1, <3>2, Moved DEF Labels
  <2>3. WorldTyped'
    BY <1>8 DEF Chat, WorldTyped, github
  <2>4. QED
    BY <2>1, <2>2, <2>3
<1>9. ASSUME NEW p \in Proc, SeedSpec(p) PROVE TypeInv'
  <2>1. GuardsTyped' /\ WorldTyped'
    BY <1>9 DEF SeedSpec, GuardsTyped, WorldTyped, github, counters
  <2>2. RowTyped'
    BY <1>9, CommitTyped, RowWith DEF SeedSpec, RowTyped, Statuses
  <2>3. ProcsTyped'
    <3>0. row'.version \in Nat
      BY <2>2 DEF RowTyped, Rows
    <3>1. [lv[p] EXCEPT !.ver = row'.version] \in Locals
      BY <3>0, LocalsWith DEF ProcsTyped
    <3>2. /\ lv' = [lv EXCEPT ![p] = [lv[p] EXCEPT !.ver = row'.version]]
          /\ pc' = [pc EXCEPT ![p] = "mint"]
      BY <1>9 DEF SeedSpec, Goto, ProcsTyped
    <3>3. QED
      BY <3>1, <3>2, Moved DEF Labels
  <2>4. QED
    BY <2>1, <2>2, <2>3
<1>10. ASSUME NEW p \in Proc, DraftSpec(p) PROVE TypeInv'
  <2>1. WorldTyped'
    BY <1>10 DEF DraftSpec, WorldTyped, github, counters
  <2>2. RowTyped'
    BY <1>10, CommitTyped, RowWith DEF DraftSpec, RowTyped, Statuses
  <2>3. ProcsTyped'
    BY <1>10, ReturnTyped DEF DraftSpec, ReturnFromStart
  <2>4. GuardsTyped'
    BY <1>10, ReturnGuards, LocalFields DEF DraftSpec, ReturnFromStart, Bind, GuardsTyped,
       Orchs, ProcsTyped
  <2>5. QED
    BY <2>1, <2>2, <2>3, <2>4
<1>11. ASSUME NEW p \in Proc, DraftFails(p) PROVE TypeInv'
  <2>1. RowTyped' /\ WorldTyped'
    BY <1>11 DEF DraftFails, RowTyped, WorldTyped, github, counters
  <2>2. ProcsTyped'
    BY <1>11, ReturnTyped DEF DraftFails
  <2>3. GuardsTyped'
    BY <1>11, ReturnGuards DEF DraftFails, GuardsTyped
  <2>4. QED
    BY <2>1, <2>2, <2>3
<1>12. ASSUME NEW p \in Proc, MintApproval(p) PROVE TypeInv'
  <2>1. GuardsTyped' /\ WorldTyped'
    BY <1>12 DEF MintApproval, GuardsTyped, WorldTyped, github, counters
  <2>2. RowTyped'
    <3>1. [row EXCEPT !.approval = row.spec] \in Rows
      BY DEF RowTyped, Rows
    <3>2. QED
      BY <1>12, <3>1, CommitTyped DEF MintApproval
  <2>3. ProcsTyped'
    <3>0. row'.version \in Nat
      BY <2>2 DEF RowTyped, Rows
    <3>1. [lv[p] EXCEPT !.ver = row'.version] \in Locals
      BY <3>0, LocalsWith DEF ProcsTyped
    <3>2. /\ lv' = [lv EXCEPT ![p] = [lv[p] EXCEPT !.ver = row'.version]]
          /\ pc' = [pc EXCEPT ![p] = "open"]
      BY <1>12 DEF MintApproval, Goto, ProcsTyped
    <3>3. QED
      BY <3>1, <3>2, Moved DEF Labels
  <2>4. QED
    BY <2>1, <2>2, <2>3
<1>13. ASSUME NEW p \in Proc, OpenBuild(p) PROVE TypeInv'
  <2>1. WorldTyped'
    BY <1>13 DEF OpenBuild, WorldTyped, github, counters
  <2>2. RowTyped'
    BY <1>13, CommitTyped, RowWith DEF OpenBuild, RowTyped, Statuses
  <2>3. ProcsTyped'
    BY <1>13, ReturnTyped, MovedOn DEF OpenBuild, Labels
  <2>4. GuardsTyped'
    BY <1>13, ReturnGuards DEF OpenBuild, GuardsTyped
  <2>5. QED
    BY <2>1, <2>2, <2>3, <2>4
<1>14. ASSUME NEW p \in Proc, KickRun(p) PROVE TypeInv'
  <2>1. RowTyped' /\ WorldTyped'
    BY <1>14 DEF KickRun, RowTyped, WorldTyped, github, counters
  <2>2. ProcsTyped'
    <3>1. /\ pc[p] = "kick" /\ pc[Kick] = "idle" /\ lv[p].orch \in Orchs
          /\ p # Kick /\ Kick \in Proc
      BY <1>14, KickIsProc, LocalFields DEF KickRun, ProcsTyped
    <3>2. CASE lv[p].orch \in inFlight
      <4>1. /\ pc' = [pc EXCEPT ![p] = "idle", ![Kick] = "catch"]
            /\ lv' = [lv EXCEPT ![p] = NoLocals]
        BY <1>14, <3>2 DEF KickRun
      <4>2. QED
        BY <3>1, <4>1, NoLocalsTyped DEF ProcsTyped, PatchInHand, Labels
    <3>3. CASE lv[p].orch \notin inFlight
      <4>1. [NoLocals EXCEPT !.op = "run", !.orch = lv[p].orch] \in Locals
        BY <3>1, FreshLocals DEF Ops
      <4>2. /\ pc' = [pc EXCEPT ![p] = "idle", ![Kick] = "run"]
            /\ lv' = [lv EXCEPT ![p] = NoLocals,
                         ![Kick] = [NoLocals EXCEPT !.op = "run", !.orch = lv[p].orch]]
        BY <1>14, <3>3 DEF KickRun
      <4>3. QED
        BY <3>1, <4>1, <4>2, NoLocalsTyped DEF ProcsTyped, PatchInHand, Labels
    <3>4. QED
      BY <3>2, <3>3
  <2>3. GuardsTyped'
    BY <1>14, LocalFields DEF KickRun, Bind, GuardsTyped, Orchs, ProcsTyped
  <2>4. QED
    BY <2>1, <2>2, <2>3
<1>15. ASSUME NEW p \in Proc, ReadFresh(p) PROVE TypeInv'
  <2>1. RowTyped' /\ WorldTyped'
    BY <1>15 DEF ReadFresh, RowTyped, WorldTyped, github, counters
  <2>2. ProcsTyped'
    <3>1. CASE row.status = "cancelled"
      BY <1>15, <3>1, ReturnTyped DEF ReadFresh
    <3>2. CASE row.status # "cancelled"
      <4>1. /\ lv' = [lv EXCEPT ![p] = [lv[p] EXCEPT !.ver = row.version]]
            /\ pc' = [pc EXCEPT ![p] = "write"]
        BY <1>15, <3>2 DEF ReadFresh, Goto, ProcsTyped
      <4>2. lv[p] \in Locals /\ lv[p].patch # "none"
        BY <1>15 DEF ReadFresh, ProcsTyped, PatchInHand
      <4>3. [lv[p] EXCEPT !.ver = row.version] \in Locals
        BY <4>2, RowFields, LocalsWith
      <4>4. [lv[p] EXCEPT !.ver = row.version].patch # "none"
        BY <4>2 DEF Locals
      <4>5. QED
        BY <4>1, <4>3, <4>4, Moved DEF Labels
    <3>3. QED
      BY <3>1, <3>2
  <2>3. GuardsTyped'
    BY <1>15, ReturnGuards DEF ReadFresh, GuardsTyped
  <2>4. QED
    BY <2>1, <2>2, <2>3
<1>16. ASSUME NEW p \in Proc, WriteFresh(p) PROVE TypeInv'
  <2>1. WorldTyped'
    BY <1>16 DEF WriteFresh, WorldTyped, github, counters
  <2>2. RowTyped'
    <3>1. lv[p] \in Locals /\ lv[p].patch # "none"
      BY <1>16 DEF WriteFresh, ProcsTyped, PatchInHand
    <3>2. Patched(lv[p]) \in Rows
      BY <3>1, PatchedTyped
    <3>3. QED
      BY <1>16, <3>2, CommitTyped DEF WriteFresh
  <2>3. ProcsTyped'
    <3>1. lv[p] \in Locals /\ lv[p].patch # "none" /\ lv[p].patch \in Patches
      BY <1>16, LocalFields DEF WriteFresh, ProcsTyped, PatchInHand
    <3>2. CASE lv[p].patch \in {"code", "readme"}
      <4>1. PICK label \in {"docs", "trace"} :
              /\ pc' = [pc EXCEPT ![p] = label]
              /\ lv' = [lv EXCEPT ![p] = [lv[p] EXCEPT !.delivery = row.delivery]]
        BY <1>16, <3>2 DEF WriteFresh, Goto, ProcsTyped
      <4>2. [lv[p] EXCEPT !.delivery = row.delivery] \in Locals
        BY <3>1, RowFields, LocalsWith
      <4>3. QED
        BY <4>1, <4>2, Moved DEF Labels
    <3>3. CASE lv[p].patch = "verified"
      <4>1. Goto(p, "pin") /\ UNCHANGED lv
        BY <1>16, <3>3 DEF WriteFresh
      <4>2. QED
        BY <4>1, MovedOn DEF Labels
    <3>4. CASE lv[p].patch \in {"park", "gate", "unverified", "pushFailed", "done"}
      BY <1>16, <3>4, ReturnTyped DEF WriteFresh
    <3>5. QED
      BY <3>1, <3>2, <3>3, <3>4 DEF Patches
  <2>4. GuardsTyped'
    <3>1. lv[p].patch # "none" /\ lv[p].patch \in Patches
      BY <1>16, LocalFields DEF WriteFresh, ProcsTyped, PatchInHand
    <3>2. CASE lv[p].patch \in {"code", "readme", "verified"}
      BY <1>16, <3>2 DEF WriteFresh, GuardsTyped
    <3>3. CASE lv[p].patch \in {"park", "gate", "unverified", "pushFailed", "done"}
      <4>1. Return(p) /\ bound' \in {bound, None}
        BY <1>16, <3>3 DEF WriteFresh
      <4>2. QED
        BY <4>1, ReturnGuards DEF GuardsTyped
    <3>4. QED
      BY <3>1, <3>2, <3>3 DEF Patches
  <2>5. QED
    BY <2>1, <2>2, <2>3, <2>4
<1>17. ASSUME NEW p \in Proc, RetryFresh(p) PROVE TypeInv'
  <2>1. RowTyped' /\ WorldTyped'
    BY <1>17 DEF RetryFresh, RowTyped, WorldTyped, github, counters
  <2>2. ProcsTyped'
    <3>1. CASE lv[p].retry < MaxRetry
      <4>1. /\ lv' = [lv EXCEPT ![p] = [lv[p] EXCEPT !.retry = @ + 1]]
            /\ pc' = [pc EXCEPT ![p] = "read"]
        BY <1>17, <3>1 DEF RetryFresh, Goto, ProcsTyped
      <4>2. lv[p] \in Locals /\ lv[p].patch # "none"
        BY <1>17 DEF RetryFresh, ProcsTyped, PatchInHand
      <4>3. [lv[p] EXCEPT !.retry = @ + 1] \in Locals
        BY <4>2, LocalsCount
      <4>4. [lv[p] EXCEPT !.retry = @ + 1].patch # "none"
        BY <4>2 DEF Locals
      <4>5. QED
        BY <4>1, <4>3, <4>4, Moved DEF Labels
    <3>2. CASE ~(lv[p].retry < MaxRetry)
      BY <1>17, <3>2, ThrowTyped DEF RetryFresh
    <3>3. QED
      BY <3>1, <3>2
  <2>3. GuardsTyped'
    BY <1>17, ThrowGuards DEF RetryFresh, GuardsTyped
  <2>4. QED
    BY <2>1, <2>2, <2>3
<1>18. ASSUME NEW p \in Proc, BeginRun(p) PROVE TypeInv'
  <2>1. RowTyped' /\ WorldTyped'
    BY <1>18 DEF BeginRun, RowTyped, WorldTyped, github, counters
  <2>2. ProcsTyped'
    BY <1>18, ThrowTyped, MovedOn DEF BeginRun, Labels
  <2>3. GuardsTyped'
    BY <1>18, ThrowGuards DEF BeginRun, GuardsTyped
  <2>4. QED
    BY <2>1, <2>2, <2>3
<1>19. ASSUME NEW p \in Proc, Produce(p) PROVE TypeInv'
  <2>1. RowTyped' /\ GuardsTyped' /\ WorldTyped'
    BY <1>19 DEF Produce, RowTyped, GuardsTyped, WorldTyped, github, counters
  <2>2. ProcsTyped'
    <3>1. lv[p] \in Locals /\ pc[p] = "produce"
      BY <1>19 DEF Produce, ProcsTyped
    <3>2. ASSUME NEW candidate \in Codes, NEW patch \in {"code", "park"},
                 pc' = [pc EXCEPT ![p] = "read"],
                 lv' = [lv EXCEPT ![p].files = candidate, ![p].patch = patch]
          PROVE  ProcsTyped'
      <4>1. lv' = [lv EXCEPT ![p] = [lv[p] EXCEPT !.files = candidate, !.patch = patch]]
        BY <3>2 DEF ProcsTyped
      <4>2. /\ [lv[p] EXCEPT !.files = candidate, !.patch = patch] \in Locals
            /\ [lv[p] EXCEPT !.files = candidate, !.patch = patch].patch # "none"
        BY <3>1, LocalsWithFiles DEF Patches
      <4>3. QED
        BY <3>2, <4>1, <4>2, Moved DEF Labels
    <3>3. CASE lv' = [lv EXCEPT ![p].iter = @ + 1] /\ UNCHANGED pc
      <4>1. lv' = [lv EXCEPT ![p] = [lv[p] EXCEPT !.iter = @ + 1]]
        BY <3>3 DEF ProcsTyped
      <4>2. [lv[p] EXCEPT !.iter = @ + 1] \in Locals
        BY <3>1, LocalsCount
      <4>3. QED
        BY <3>1, <3>3, <4>1, <4>2, Assigned
    <3>4. QED
      BY <1>19, <3>2, <3>3 DEF Produce
  <2>3. QED
    BY <2>1, <2>2
<1>20. ASSUME NEW p \in Proc, AgentFails(p) PROVE TypeInv'
  <2>1. RowTyped' /\ WorldTyped'
    BY <1>20 DEF AgentFails, RowTyped, WorldTyped, github, counters
  <2>2. ProcsTyped'
    BY <1>20, ThrowTyped DEF AgentFails
  <2>3. GuardsTyped'
    BY <1>20, ThrowGuards DEF AgentFails, GuardsTyped
  <2>4. QED
    BY <2>1, <2>2, <2>3
<1>21. ASSUME NEW p \in Proc, CatchRead(p) PROVE TypeInv'
  <2>1. RowTyped' /\ GuardsTyped' /\ WorldTyped'
    BY <1>21 DEF CatchRead, RowTyped, GuardsTyped, WorldTyped, github, counters
  <2>2. ProcsTyped'
    <3>1. CASE row.status = "building"
      <4>1. /\ lv' = [lv EXCEPT ![p] = [lv[p] EXCEPT !.ver = row.version]]
            /\ pc' = [pc EXCEPT ![p] = "fail"]
        BY <1>21, <3>1 DEF CatchRead, Goto, ProcsTyped
      <4>2. [lv[p] EXCEPT !.ver = row.version] \in Locals
        BY RowFields, LocalsWith DEF ProcsTyped
      <4>3. QED
        BY <4>1, <4>2, Moved DEF Labels
    <3>2. CASE row.status # "building"
      BY <1>21, <3>2, MovedOn DEF CatchRead, Labels
    <3>3. QED
      BY <3>1, <3>2
  <2>3. QED
    BY <2>1, <2>2
<1>22. ASSUME NEW p \in Proc, FailRun(p) PROVE TypeInv'
  <2>1. WorldTyped'
    BY <1>22 DEF FailRun, WorldTyped, github, counters
  <2>2. RowTyped'
    BY <1>22, CommitTyped, RowWith DEF FailRun, RowTyped, Statuses
  <2>3. ProcsTyped'
    BY <1>22, ReturnTyped DEF FailRun
  <2>4. GuardsTyped'
    BY <1>22, ReturnGuards DEF FailRun, GuardsTyped
  <2>5. QED
    BY <2>1, <2>2, <2>3, <2>4
<1>23. ASSUME NEW p \in Proc, WriteDocs(p) PROVE TypeInv'
  <2>1. RowTyped' /\ GuardsTyped' /\ WorldTyped'
    BY <1>23 DEF WriteDocs, RowTyped, GuardsTyped, WorldTyped, github, counters
  <2>2. ProcsTyped'
    <3>1. CASE Goto(p, "trace") /\ UNCHANGED lv
      BY <3>1, MovedOn DEF Labels
    <3>2. ASSUME NEW bundled \in Codes, pc' = [pc EXCEPT ![p] = "read"],
                 lv' = [lv EXCEPT ![p].files = bundled, ![p].patch = "readme", ![p].retry = 0]
          PROVE  ProcsTyped'
      <4>1. lv' = [lv EXCEPT ![p] = [lv[p] EXCEPT !.files = bundled, !.patch = "readme", !.retry = 0]]
        BY <3>2 DEF ProcsTyped
      <4>2. /\ [lv[p] EXCEPT !.files = bundled, !.patch = "readme", !.retry = 0] \in Locals
            /\ [lv[p] EXCEPT !.files = bundled, !.patch = "readme", !.retry = 0].patch # "none"
        BY LocalsWithFiles DEF ProcsTyped, Patches
      <4>3. QED
        BY <3>2, <4>1, <4>2, Moved DEF Labels
    <3>3. QED
      BY <1>23, <3>1, <3>2 DEF WriteDocs
  <2>3. QED
    BY <2>1, <2>2
<1>24. ASSUME NEW p \in Proc, Trace(p) PROVE TypeInv'
  <2>1. RowTyped' /\ GuardsTyped'
    BY <1>24 DEF Trace, RowTyped, GuardsTyped
  <2>2. ProcsTyped'
    BY <1>24, ResilientTyped DEF Trace, Patches
  <2>3. WorldTyped'
    BY <1>24, LocalFields DEF Trace, WorldTyped, github, counters, ProcsTyped
  <2>4. QED
    BY <2>1, <2>2, <2>3
<1>25. ASSUME NEW p \in Proc, PinDelivery(p) PROVE TypeInv'
  <2>1. RowTyped' /\ GuardsTyped' /\ WorldTyped'
    BY <1>25 DEF PinDelivery, RowTyped, GuardsTyped, WorldTyped, github, counters
  <2>2. ProcsTyped'
    <3>0. lv[p].delivery \in Repos \cup {None}
      BY LocalFields DEF ProcsTyped
    <3>1. PICK d \in Repos \cup {None} :
            /\ pc' = [pc EXCEPT ![p] = "read"]
            /\ lv' = [lv EXCEPT ![p].delivery = d, ![p].patch = "gate", ![p].retry = 0]
      BY <1>25, <3>0 DEF PinDelivery, Derived
    <3>2. lv' = [lv EXCEPT ![p] = [lv[p] EXCEPT !.delivery = d, !.patch = "gate", !.retry = 0]]
      BY <3>1 DEF ProcsTyped
    <3>3. /\ [lv[p] EXCEPT !.delivery = d, !.patch = "gate", !.retry = 0] \in Locals
          /\ [lv[p] EXCEPT !.delivery = d, !.patch = "gate", !.retry = 0].patch # "none"
      BY LocalsWithPin DEF ProcsTyped, Patches
    <3>4. QED
      BY <3>1, <3>2, <3>3, Moved DEF Labels
  <2>3. QED
    BY <2>1, <2>2
<1>26. ASSUME NEW p \in Proc, CancelWrite(p) PROVE TypeInv'
  <2>1. WorldTyped'
    BY <1>26 DEF CancelWrite, WorldTyped, github, counters
  <2>2. RowTyped'
    BY <1>26, CommitTyped, RowWith DEF CancelWrite, RowTyped, Statuses
  <2>3. ProcsTyped'
    BY <1>26, ReturnTyped DEF CancelWrite
  <2>4. GuardsTyped'
    BY <1>26, ReturnGuards DEF CancelWrite, GuardsTyped
  <2>5. QED
    BY <2>1, <2>2, <2>3, <2>4
<1>27. ASSUME NEW p \in Proc, ReopenSpec(p) PROVE TypeInv'
  <2>1. WorldTyped'
    BY <1>27 DEF ReopenSpec, WorldTyped, github, counters
  <2>2. RowTyped'
    BY <1>27, CommitTyped, RowWith DEF ReopenSpec, RowTyped, Statuses
  <2>3. ProcsTyped'
    BY <1>27, ReturnTyped DEF ReopenSpec
  <2>4. GuardsTyped'
    BY <1>27, ReturnGuards DEF ReopenSpec, GuardsTyped
  <2>5. QED
    BY <2>1, <2>2, <2>3, <2>4
<1>28. ASSUME NEW p \in Proc, VersionConflict(p) PROVE TypeInv'
  <2>1. RowTyped' /\ WorldTyped'
    BY <1>28 DEF VersionConflict, RowTyped, WorldTyped, github, counters
  <2>2. ProcsTyped'
    BY <1>28, ReturnTyped DEF VersionConflict
  <2>3. GuardsTyped'
    BY <1>28, ReturnGuards DEF VersionConflict, GuardsTyped
  <2>4. QED
    BY <2>1, <2>2, <2>3
<1>29. ASSUME NEW p \in Proc, MintPush(p) PROVE TypeInv'
  <2>1. RowTyped' /\ WorldTyped'
    BY <1>29 DEF MintPush, RowTyped, WorldTyped, github, counters
  <2>2. ProcsTyped'
    <3>1. CASE Return(p)
      BY <3>1, ReturnTyped
    <3>2. CASE /\ Goto(p, "dest")
               /\ lv' = [lv EXCEPT ![p].files = row.code, ![p].to = row.delivery]
      <4>1. lv' = [lv EXCEPT ![p] = [lv[p] EXCEPT !.files = row.code, !.to = row.delivery]]
        BY <3>2 DEF ProcsTyped
      <4>2. [lv[p] EXCEPT !.files = row.code, !.to = row.delivery] \in Locals
        BY RowFields, LocalsWith DEF ProcsTyped
      <4>3. QED
        BY <3>2, <4>1, <4>2, Moved DEF Goto, Labels
    <3>3. QED
      BY <1>29, <3>1, <3>2 DEF MintPush
  <2>3. GuardsTyped'
    BY <1>29, ReturnGuards DEF MintPush, GuardsTyped
  <2>4. QED
    BY <2>1, <2>2, <2>3
<1>30. ASSUME NEW p \in Proc, Destination(p) PROVE TypeInv'
  <2>1. RowTyped' /\ GuardsTyped' /\ WorldTyped'
    BY <1>30 DEF Destination, RowTyped, GuardsTyped, WorldTyped, github, counters
  <2>2. ProcsTyped'
    <3>1. lv[p] \in Locals /\ lv[p].to \in Repos \cup {None}
      BY LocalFields DEF ProcsTyped
    <3>2. PICK d \in Repos \cup {None} :
            \/ /\ Goto(p, "createRepo")
               /\ lv' = [lv EXCEPT ![p].delivery = d, ![p].to = IF @ = None THEN d ELSE @]
            \/ /\ pc' = [pc EXCEPT ![p] = "read"]
               /\ lv' = [lv EXCEPT ![p].delivery = d, ![p].patch = "pushFailed"]
      BY <1>30 DEF Destination, Derived
    <3>3. CASE /\ Goto(p, "createRepo")
               /\ lv' = [lv EXCEPT ![p].delivery = d, ![p].to = IF @ = None THEN d ELSE @]
      <4>1. PICK t \in Repos \cup {None} :
              lv' = [lv EXCEPT ![p] = [lv[p] EXCEPT !.delivery = d, !.to = t]]
        BY <3>1, <3>3 DEF ProcsTyped
      <4>2. [lv[p] EXCEPT !.delivery = d, !.to = t] \in Locals
        BY <3>1, LocalsWith, RowFields
      <4>3. QED
        BY <3>3, <4>1, <4>2, Moved DEF Goto, Labels
    <3>4. CASE /\ pc' = [pc EXCEPT ![p] = "read"]
               /\ lv' = [lv EXCEPT ![p].delivery = d, ![p].patch = "pushFailed"]
      <4>1. lv' = [lv EXCEPT ![p] = [lv[p] EXCEPT !.delivery = d, !.patch = "pushFailed"]]
        BY <3>4 DEF ProcsTyped
      <4>2. /\ [lv[p] EXCEPT !.delivery = d, !.patch = "pushFailed"] \in Locals
            /\ [lv[p] EXCEPT !.delivery = d, !.patch = "pushFailed"].patch # "none"
        BY <3>1, LocalsWithPin DEF Patches
      <4>3. QED
        BY <3>4, <4>1, <4>2, Moved DEF Labels
    <3>5. QED
      BY <3>2, <3>3, <3>4
  <2>3. QED
    BY <2>1, <2>2
<1>31. ASSUME NEW p \in Proc, CreateRepo(p) PROVE TypeInv'
  <2>1. RowTyped' /\ GuardsTyped'
    BY <1>31 DEF CreateRepo, RowTyped, GuardsTyped
  <2>2. ProcsTyped'
    BY <1>31, MovedOn DEF CreateRepo, Labels
  <2>3. WorldTyped'
    BY <1>31, LocalFields DEF CreateRepo, MakeRepo, SendFiles, WorldTyped, counters, github,
       ProcsTyped
  <2>4. QED
    BY <2>1, <2>2, <2>3
<1>32. ASSUME NEW p \in Proc, PushFiles(p) PROVE TypeInv'
  <2>1. RowTyped' /\ GuardsTyped'
    BY <1>32 DEF PushFiles, RowTyped, GuardsTyped
  <2>2. ProcsTyped'
    BY <1>32, ResilientTyped DEF PushFiles, Patches
  <2>3. WorldTyped'
    BY <1>32, LocalFields DEF PushFiles, MakeRepo, SendFiles, WorldTyped, counters, github,
       ProcsTyped
  <2>4. QED
    BY <2>1, <2>2, <2>3
<1>33. ASSUME NEW p \in Proc, PushFails(p) PROVE TypeInv'
  <2>1. RowTyped' /\ GuardsTyped'
    BY <1>33 DEF PushFails, RowTyped, GuardsTyped
  <2>2. ProcsTyped'
    BY <1>33, ResilientTyped DEF PushFails, Patches
  <2>3. WorldTyped'
    BY <1>33, LocalFields DEF PushFails, MakeRepo, SendFiles, WorldTyped, counters, github,
       ProcsTyped
  <2>4. QED
    BY <2>1, <2>2, <2>3
<1>34. ASSUME NEW p \in Proc, AppendTurn(p) PROVE TypeInv'
  <2>1. WorldTyped'
    BY <1>34 DEF AppendTurn, WorldTyped, github, counters
  <2>2. RowTyped'
    BY <1>34, CommitTyped DEF AppendTurn, RowTyped
  <2>3. ProcsTyped'
    BY <1>34, ReturnTyped DEF AppendTurn
  <2>4. GuardsTyped'
    BY <1>34, ReturnGuards DEF AppendTurn, GuardsTyped
  <2>5. QED
    BY <2>1, <2>2, <2>3, <2>4
<1>35. ASSUME NEW p \in Proc, ReReadTurn(p) PROVE TypeInv'
  <2>1. RowTyped' /\ WorldTyped'
    BY <1>35 DEF ReReadTurn, RowTyped, WorldTyped, github, counters
  <2>2. ProcsTyped'
    <3>1. CASE lv[p].retry = 0
      <4>1. lv' = [lv EXCEPT ![p] = [lv[p] EXCEPT !.ver = row.version, !.retry = 1]]
        BY <1>35, <3>1 DEF ReReadTurn, ProcsTyped
      <4>2. [lv[p] EXCEPT !.ver = row.version, !.retry = 1] \in Locals
        BY RowFields, LocalsWith DEF ProcsTyped
      <4>3. QED
        BY <1>35, <3>1, <4>1, <4>2, Assigned DEF ReReadTurn
    <3>2. CASE lv[p].retry # 0
      BY <1>35, <3>2, ReturnTyped DEF ReReadTurn
    <3>3. QED
      BY <3>1, <3>2
  <2>3. GuardsTyped'
    BY <1>35, ReturnGuards DEF ReReadTurn, GuardsTyped
  <2>4. QED
    BY <2>1, <2>2, <2>3
<1>36. CASE EvictBound
  BY <1>36 DEF EvictBound, RowTyped, ProcsTyped, PatchInHand, GuardsTyped, WorldTyped, github,
            counters
<1>37. CASE Crash
  <2>1. RowTyped' /\ GuardsTyped'
    BY <1>37 DEF Crash, RowTyped, GuardsTyped
  <2>2. WorldTyped'
    BY <1>37 DEF Crash, WorldTyped, github
  <2>3. ProcsTyped'
    BY <1>37, NoLocalsTyped DEF Crash, ProcsTyped, PatchInHand, Labels
  <2>4. QED
    BY <2>1, <2>2, <2>3
<1>38. CASE UNCHANGED vars
  BY <1>38 DEF vars, RowTyped, ProcsTyped, PatchInHand, GuardsTyped, WorldTyped
<1>39. QED
  BY <1>1, <1>2, <1>3, <1>4, <1>5, <1>6, <1>7, <1>8, <1>9, <1>10, <1>11, <1>12,
     <1>13, <1>14, <1>15, <1>16, <1>17, <1>18, <1>19, <1>20, <1>21, <1>22, <1>23,
     <1>24, <1>25, <1>26, <1>27, <1>28, <1>29, <1>30, <1>31, <1>32, <1>33, <1>34,
     <1>35, <1>36, <1>37, <1>38
     DEF Next, Request, Continue

\* The initial state has its types.
LEMMA TypeInit == Init => TypeInv
<1> SUFFICES ASSUME Init
             PROVE  TypeInv
  OBVIOUS
<1>1. RowTyped
  BY DEF Init, RowTyped, NoRow, Rows
<1>2. ProcsTyped
  BY NoLocalsTyped DEF Init, ProcsTyped, PatchInHand, Labels
<1>3. GuardsTyped /\ WorldTyped
  BY DEF Init, GuardsTyped, WorldTyped
<1>4. QED
  BY <1>1, <1>2, <1>3 DEF TypeInv

LEMMA TypeInvariant == Spec => []TypeInv
  BY TypeInit, TypeStep, PTL DEF Spec

\* The row, the guards, GitHub and the locals of every handler keep their types: a
\* handler's labels, patches and counters never leave the code's.
THEOREM TypeCorrect == Spec => []TypeOK
<1>1. TypeInv => TypeOK
  BY DEF TypeInv, TypeOK, RowTyped, ProcsTyped, GuardsTyped, WorldTyped
<1>2. QED
  BY <1>1, TypeInvariant, PTL

-----------------------------------------------------------------------------
(* The push gate                                                           *)
(*                                                                         *)
(* Neither property is inductive: the token is recorded, the status that   *)
(* shows the gate is written, the push is minted and the files are sent in *)
(* four steps, with other handlers between them.  GateInv carries, for each*)
(* handler, what its next step relies on: whoever is about to show the     *)
(* gate, or to push, does so on a row whose token a test run earned, and   *)
(* holds files that passed.  Both facts are stable, since a token is only  *)
(* ever replaced by one that was earned, and nothing un-passes.            *)

TokenEarned == row.token \in passed

StatusGated ==
  row.status \in {"awaiting_push_confirm", "push_failed", "done"} => TokenEarned

NeedsToken(q) ==
  \/ pc[q] \in {"pin", "dest", "createRepo", "pushFiles"}
  \/ pc[q] \in {"read", "write"} /\ lv[q].patch \in {"gate", "pushFailed", "done"}

NeedsPass(q) ==
  \/ pc[q] \in {"dest", "createRepo", "pushFiles"}
  \/ pc[q] \in {"read", "write"} /\ lv[q].patch = "verified"

HandlerGated(q) ==
  (NeedsToken(q) => TokenEarned) /\ (NeedsPass(q) => lv[q].files \in passed)

\* Before POST /sessions there is no row and no handler.
AbsentIsIdle ==
  row.status = "absent" => row = NoRow /\ \A q \in Proc : pc[q] = "idle"

GateInv ==
  /\ AbsentIsIdle /\ StatusGated /\ OnlyVerifiedIsPushed
  /\ \A q \in Proc : HandlerGated(q)

\* A step of the handlers in `moved` keeps the invariant when it keeps an earned token
\* earned and what passed passed, and leaves the movers, the status and the pushes gated.
LEMMA GateKept ==
  ASSUME GateInv, NEW moved \in SUBSET Proc, row'.status # "absent",
         TokenEarned => TokenEarned', passed \subseteq passed',
         \A q \in Proc \ moved : pc'[q] = pc[q] /\ lv'[q] = lv[q],
         \A q \in moved : HandlerGated(q)',
         StatusGated', OnlyVerifiedIsPushed'
  PROVE  GateInv'
  <1>1. ASSUME NEW q \in Proc \ moved PROVE HandlerGated(q)'
    BY <1>1 DEF GateInv, HandlerGated, NeedsToken, NeedsPass
  <1>2. AbsentIsIdle'
    BY DEF AbsentIsIdle
  <1>3. QED
    BY <1>1, <1>2 DEF GateInv

\* A step that leaves the row, the tests and GitHub's files alone only has to leave its
\* handlers gated.
LEMMA GateUntouched ==
  ASSUME GateInv, NEW moved \in SUBSET Proc, row.status # "absent",
         UNCHANGED <<row, passed, pushes>>,
         \A q \in Proc \ moved : pc'[q] = pc[q] /\ lv'[q] = lv[q],
         \A q \in moved : HandlerGated(q)'
  PROVE  GateInv'
  <1>1. StatusGated' /\ OnlyVerifiedIsPushed' /\ (TokenEarned => TokenEarned')
    BY DEF GateInv, StatusGated, TokenEarned, OnlyVerifiedIsPushed
  <1>2. QED
    BY <1>1, GateKept

\* A handler that returns, throws or moves to a label of its own relies on nothing.
FreeLabels == Labels \ {"read", "write", "pin", "dest", "createRepo", "pushFiles"}

LEMMA FreeIsGated ==
  ASSUME NEW q, pc'[q] \in FreeLabels
  PROVE  HandlerGated(q)'
  BY DEF FreeLabels, HandlerGated, NeedsToken, NeedsPass

\* What Return, Throw and Goto leave behind.
LEMMA ReturnMoves ==
  ASSUME ProcsTyped, NEW p \in Proc, Return(p)
  PROVE  /\ pc'[p] \in FreeLabels
         /\ \A q \in Proc \ {p} : pc'[q] = pc[q] /\ lv'[q] = lv[q]
  BY DEF Return, ProcsTyped, FreeLabels, Labels

LEMMA ThrowMoves ==
  ASSUME ProcsTyped, NEW p \in Proc, Throw(p)
  PROVE  /\ pc'[p] \in FreeLabels
         /\ \A q \in Proc \ {p} : pc'[q] = pc[q] /\ lv'[q] = lv[q]
  BY ReturnMoves DEF Throw, ProcsTyped, FreeLabels, Labels

\* A handler that hands over a patch relies on what the patch does.
LEMMA ResilientMoves ==
  ASSUME ProcsTyped, NEW p \in Proc, NEW patch \in Patches, Resilient(p, patch)
  PROVE  /\ pc'[p] = "read" /\ lv'[p].patch = patch /\ lv'[p].files = lv[p].files
         /\ \A q \in Proc \ {p} : pc'[q] = pc[q] /\ lv'[q] = lv[q]
  <1>1. lv[p] \in Locals
    BY DEF ProcsTyped
  <1>2. QED
    BY <1>1 DEF Resilient, ProcsTyped, Locals

\* A commit writes the columns of the row it is given, and bumps the version.
LEMMA CommitColumns ==
  ASSUME NEW r \in Rows, NEW p, Commit(p, r)
  PROVE  /\ row'.status = r.status /\ row'.spec = r.spec /\ row'.approval = r.approval
         /\ row'.code = r.code /\ row'.token = r.token /\ row'.delivery = r.delivery
  BY DEF Commit, Rows

\* A plain write, which touches neither token nor push gate, keeps the invariant.
LEMMA PlainWriteGated ==
  ASSUME TypeInv, GateInv, NEW p \in Proc, pc[p] # "idle", NEW r \in Rows, Commit(p, r),
         r.token = row.token, r.status \in Statuses,
         r.status \in {"awaiting_push_confirm", "push_failed", "done"} => r.status = row.status,
         pc'[p] \in FreeLabels,
         \A q \in Proc \ {p} : pc'[q] = pc[q] /\ lv'[q] = lv[q],
         UNCHANGED <<passed, pushes>>
  PROVE  GateInv'
  <1>1. row'.status = r.status /\ row'.token = row.token
    BY CommitColumns
  <1>2. row'.status # "absent"
    BY <1>1 DEF Statuses
  <1>3. StatusGated' /\ OnlyVerifiedIsPushed' /\ (TokenEarned => TokenEarned')
    BY <1>1 DEF GateInv, StatusGated, TokenEarned, OnlyVerifiedIsPushed
  <1>4. HandlerGated(p)'
    BY FreeIsGated
  <1>5. passed \subseteq passed' /\ {p} \in SUBSET Proc
    OBVIOUS
  <1>6. QED
    BY <1>2, <1>3, <1>4, <1>5, GateKept

\* A step whose one mover ends at a label of its own, and writes nothing.
LEMMA FreeMoveGated ==
  ASSUME GateInv, NEW p \in Proc, row.status # "absent", pc'[p] \in FreeLabels,
         \A q \in Proc \ {p} : pc'[q] = pc[q] /\ lv'[q] = lv[q],
         UNCHANGED <<row, passed, pushes>>
  PROVE  GateInv'
  <1>1. HandlerGated(p)'
    BY FreeIsGated
  <1>2. {p} \in SUBSET Proc
    OBVIOUS
  <1>3. QED
    BY <1>1, <1>2, GateUntouched

\* A handler that is under way has a row.
LEMMA UnderWayHasRow ==
  ASSUME GateInv, NEW p \in Proc, pc[p] # "idle"
  PROVE  row.status # "absent"
  BY DEF GateInv, AbsentIsIdle

LEMMA GateStep == TypeInv /\ GateInv /\ [Next]_vars => GateInv'
<1> SUFFICES ASSUME TypeInv, GateInv, [Next]_vars
             PROVE  GateInv'
  OBVIOUS
<1>0. ProcsTyped /\ row \in Rows
  BY DEF TypeInv, RowTyped
<1>1. ASSUME NEW p \in Proc, Start(p) PROVE GateInv'
  <2>1. row.status = "absent" /\ row = NoRow /\ \A q \in Proc : pc[q] = "idle"
    BY <1>1 DEF Start, GateInv, AbsentIsIdle
  <2>2. PICK d \in Repos \cup {None} :
          row' = [NoRow EXCEPT !.status = "composing", !.delivery = d]
    BY <1>1 DEF Start
  <2>3. row'.status = "composing" /\ row'.token = row.token
    BY <2>1, <2>2 DEF NoRow
  <2>4. /\ pc'[p] \in FreeLabels
        /\ \A q \in Proc \ {p} : pc'[q] = pc[q] /\ lv'[q] = lv[q]
    BY <1>1, <1>0 DEF Start, Goto, ProcsTyped, FreeLabels, Labels
  <2>5. UNCHANGED <<passed, pushes>>
    BY <1>1 DEF Start
  <2>6. StatusGated' /\ OnlyVerifiedIsPushed' /\ (TokenEarned => TokenEarned')
    BY <2>3, <2>5 DEF GateInv, StatusGated, TokenEarned, OnlyVerifiedIsPushed
  <2>7. HandlerGated(p)' /\ row'.status # "absent" /\ passed \subseteq passed'
    BY <2>3, <2>4, <2>5, FreeIsGated
  <2>8. {p} \in SUBSET Proc
    OBVIOUS
  <2>9. QED
    BY <2>4, <2>6, <2>7, <2>8, GateKept
<1>2. ASSUME NEW p \in Proc, Approve(p) PROVE GateInv'
  <2>1. row.status # "absent" /\ UNCHANGED <<row, passed, pushes>>
    BY <1>2 DEF Approve, github
  <2>2. /\ pc'[p] \in FreeLabels
        /\ \A q \in Proc \ {p} : pc'[q] = pc[q] /\ lv'[q] = lv[q]
    BY <1>2, <1>0 DEF Approve, Goto, ProcsTyped, FreeLabels, Labels
  <2>3. QED
    BY <2>1, <2>2, FreeMoveGated
<1>3. ASSUME NEW p \in Proc, Run(p) PROVE GateInv'
  <2>1. row.status # "absent" /\ UNCHANGED <<row, passed, pushes>>
    BY <1>3 DEF Run, github
  <2>2. /\ pc'[p] \in FreeLabels
        /\ \A q \in Proc \ {p} : pc'[q] = pc[q] /\ lv'[q] = lv[q]
    BY <1>3, <1>0 DEF Run, Goto, ProcsTyped, FreeLabels, Labels
  <2>3. QED
    BY <2>1, <2>2, FreeMoveGated
<1>4. ASSUME NEW p \in Proc, Cancel(p) PROVE GateInv'
  <2>1. row.status # "absent" /\ UNCHANGED <<row, passed, pushes>>
    BY <1>4 DEF Cancel, Plain, github
  <2>2. /\ pc'[p] \in FreeLabels
        /\ \A q \in Proc \ {p} : pc'[q] = pc[q] /\ lv'[q] = lv[q]
    BY <1>4, <1>0 DEF Cancel, Plain, Goto, ProcsTyped, FreeLabels, Labels
  <2>3. QED
    BY <2>1, <2>2, FreeMoveGated
<1>5. ASSUME NEW p \in Proc, ResolveSpec(p) PROVE GateInv'
  <2>1. row.status # "absent" /\ UNCHANGED <<row, passed, pushes>>
    BY <1>5 DEF ResolveSpec, Plain, github
  <2>2. /\ pc'[p] \in FreeLabels
        /\ \A q \in Proc \ {p} : pc'[q] = pc[q] /\ lv'[q] = lv[q]
    BY <1>5, <1>0 DEF ResolveSpec, Plain, Goto, ProcsTyped, FreeLabels, Labels
  <2>3. QED
    BY <2>1, <2>2, FreeMoveGated
<1>6. ASSUME NEW p \in Proc, Reverify(p) PROVE GateInv'
  <2>1. row.status # "absent" /\ UNCHANGED <<row, passed, pushes>>
    BY <1>6 DEF Reverify, github
  <2>2. /\ pc'[p] \in FreeLabels
        /\ \A q \in Proc \ {p} : pc'[q] = pc[q] /\ lv'[q] = lv[q]
    BY <1>6, <1>0 DEF Reverify, Goto, ProcsTyped, FreeLabels, Labels
  <2>3. QED
    BY <2>1, <2>2, FreeMoveGated
<1>7. ASSUME NEW p \in Proc, Confirm(p) PROVE GateInv'
  <2>1. row.status # "absent" /\ UNCHANGED <<row, passed, pushes>>
    BY <1>7 DEF Confirm, github
  <2>2. /\ pc'[p] \in FreeLabels
        /\ \A q \in Proc \ {p} : pc'[q] = pc[q] /\ lv'[q] = lv[q]
    BY <1>7, <1>0 DEF Confirm, Goto, ProcsTyped, FreeLabels, Labels
  <2>3. QED
    BY <2>1, <2>2, FreeMoveGated
<1>8. ASSUME NEW p \in Proc, Chat(p) PROVE GateInv'
  <2>1. row.status # "absent" /\ UNCHANGED <<row, passed, pushes>>
    BY <1>8 DEF Chat, github
  <2>2. /\ pc'[p] \in FreeLabels
        /\ \A q \in Proc \ {p} : pc'[q] = pc[q] /\ lv'[q] = lv[q]
    BY <1>8, <1>0 DEF Chat, Goto, ProcsTyped, FreeLabels, Labels
  <2>3. QED
    BY <2>1, <2>2, FreeMoveGated
<1>9. ASSUME NEW p \in Proc, SeedSpec(p) PROVE GateInv'
  <2>1. PICK s \in Specs :
          Commit(p, [row EXCEPT !.spec = s, !.status = "awaiting_spec_approval"])
    BY <1>9 DEF SeedSpec
  <2> DEFINE r == [row EXCEPT !.spec = s, !.status = "awaiting_spec_approval"]
  <2>2. /\ r \in Rows /\ r.token = row.token /\ r.status \in Statuses
        /\ r.status \notin {"awaiting_push_confirm", "push_failed", "done"}
    BY <1>0 DEF Rows, Statuses
  <2>3. pc[p] # "idle" /\ UNCHANGED <<passed, pushes>>
    BY <1>9 DEF SeedSpec, github
  <2>4. /\ pc'[p] \in FreeLabels
        /\ \A q \in Proc \ {p} : pc'[q] = pc[q] /\ lv'[q] = lv[q]
    BY <1>9, <1>0 DEF SeedSpec, Goto, ProcsTyped, FreeLabels, Labels
  <2>5. QED
    BY <2>1, <2>2, <2>3, <2>4, PlainWriteGated
<1>10. ASSUME NEW p \in Proc, DraftSpec(p) PROVE GateInv'
  <2>1. PICK r \in Rows :
          /\ Commit(p, r) /\ r.token = row.token /\ r.status \in Statuses
          /\ r.status \notin {"awaiting_push_confirm", "push_failed", "done"}
    <3>1. CASE Commit(p, [row EXCEPT !.status = "composing"])
      <4>1. /\ [row EXCEPT !.status = "composing"] \in Rows
            /\ [row EXCEPT !.status = "composing"].token = row.token
            /\ [row EXCEPT !.status = "composing"].status = "composing"
        BY <1>0 DEF Rows, Statuses
      <4>2. QED
        BY <3>1, <4>1 DEF Statuses
    <3>2. ASSUME NEW s \in Specs,
                 NEW status \in {"awaiting_spec_approval", "awaiting_critic_resolution"},
                 Commit(p, [row EXCEPT !.spec = s, !.status = status])
          PROVE  \E r \in Rows :
                   /\ Commit(p, r) /\ r.token = row.token /\ r.status \in Statuses
                   /\ r.status \notin {"awaiting_push_confirm", "push_failed", "done"}
      <4>1. /\ [row EXCEPT !.spec = s, !.status = status] \in Rows
            /\ [row EXCEPT !.spec = s, !.status = status].token = row.token
            /\ [row EXCEPT !.spec = s, !.status = status].status = status
        BY <1>0 DEF Rows, Statuses
      <4>2. QED
        BY <3>2, <4>1 DEF Statuses
    <3>3. QED
      BY <1>10, <3>1, <3>2 DEF DraftSpec
  <2>2. pc[p] # "idle" /\ UNCHANGED <<passed, pushes>>
    BY <1>10 DEF DraftSpec, github
  <2>3. /\ pc'[p] \in FreeLabels
        /\ \A q \in Proc \ {p} : pc'[q] = pc[q] /\ lv'[q] = lv[q]
    BY <1>10, <1>0, ReturnMoves DEF DraftSpec, ReturnFromStart
  <2>4. QED
    BY <2>1, <2>2, <2>3, PlainWriteGated
<1>11. ASSUME NEW p \in Proc, DraftFails(p) PROVE GateInv'
  <2>1. row.status # "absent" /\ UNCHANGED <<row, passed, pushes>>
    BY <1>11, UnderWayHasRow DEF DraftFails, github
  <2>2. /\ pc'[p] \in FreeLabels
        /\ \A q \in Proc \ {p} : pc'[q] = pc[q] /\ lv'[q] = lv[q]
    BY <1>11, <1>0, ReturnMoves DEF DraftFails, Goto, ProcsTyped, FreeLabels, Labels
  <2>3. QED
    BY <2>1, <2>2, FreeMoveGated
<1>12. ASSUME NEW p \in Proc, MintApproval(p) PROVE GateInv'
  <2>1. /\ [row EXCEPT !.approval = row.spec] \in Rows
        /\ Commit(p, [row EXCEPT !.approval = row.spec])
    BY <1>12, <1>0 DEF MintApproval, Rows, Statuses
  <2>2. pc[p] # "idle" /\ UNCHANGED <<passed, pushes>>
    BY <1>12 DEF MintApproval, github
  <2>3. /\ pc'[p] \in FreeLabels
        /\ \A q \in Proc \ {p} : pc'[q] = pc[q] /\ lv'[q] = lv[q]
    BY <1>12, <1>0 DEF MintApproval, Goto, ProcsTyped, FreeLabels, Labels
  <2>4. /\ [row EXCEPT !.approval = row.spec].token = row.token
        /\ [row EXCEPT !.approval = row.spec].status \in Statuses
    BY <1>0, <2>1, <2>2, UnderWayHasRow DEF Rows, Statuses
  <2>5. [row EXCEPT !.approval = row.spec].status \in {"awaiting_push_confirm", "push_failed", "done"} =>
          [row EXCEPT !.approval = row.spec].status = row.status
    BY <1>0 DEF Rows
  <2>6. QED
    BY <2>1, <2>2, <2>3, <2>4, <2>5, PlainWriteGated
<1>13. ASSUME NEW p \in Proc, OpenBuild(p) PROVE GateInv'
  <2>1. /\ [row EXCEPT !.status = "building"] \in Rows
        /\ Commit(p, [row EXCEPT !.status = "building"])
    BY <1>13, <1>0 DEF OpenBuild, Rows, Statuses
  <2>2. pc[p] # "idle" /\ UNCHANGED <<passed, pushes>>
    BY <1>13 DEF OpenBuild, github
  <2>3. /\ pc'[p] \in FreeLabels
        /\ \A q \in Proc \ {p} : pc'[q] = pc[q] /\ lv'[q] = lv[q]
    BY <1>13, <1>0, ReturnMoves DEF OpenBuild, Goto, ProcsTyped, FreeLabels, Labels
  <2>4. /\ [row EXCEPT !.status = "building"].token = row.token
        /\ [row EXCEPT !.status = "building"].status \in Statuses
    BY <1>0, <2>1, <2>2, UnderWayHasRow DEF Rows, Statuses
  <2>5. [row EXCEPT !.status = "building"].status \in {"awaiting_push_confirm", "push_failed", "done"} =>
          [row EXCEPT !.status = "building"].status = row.status
    BY <1>0 DEF Rows
  <2>6. QED
    BY <2>1, <2>2, <2>3, <2>4, <2>5, PlainWriteGated
<1>14. ASSUME NEW p \in Proc, KickRun(p) PROVE GateInv'
  <2>1. row.status # "absent" /\ UNCHANGED <<row, passed, pushes>>
    BY <1>14, UnderWayHasRow DEF KickRun, github
  <2>2. \A q \in Proc \ {p, Kick} : pc'[q] = pc[q] /\ lv'[q] = lv[q]
    BY <1>14, <1>0 DEF KickRun, ProcsTyped
  <2>3. pc'[p] \in FreeLabels /\ pc'[Kick] \in FreeLabels
    BY <1>14, <1>0, KickIsProc DEF KickRun, ProcsTyped, FreeLabels, Labels
  <2>4. HandlerGated(p)' /\ HandlerGated(Kick)'
    BY <2>3, FreeIsGated
  <2>5. {p, Kick} \in SUBSET Proc
    BY KickIsProc
  <2>6. QED
    BY <2>1, <2>2, <2>4, <2>5, GateUntouched
<1>15. ASSUME NEW p \in Proc, ReadFresh(p) PROVE GateInv'
  <2>1. row.status # "absent" /\ UNCHANGED <<row, passed, pushes>> /\ {p} \in SUBSET Proc
    BY <1>15, UnderWayHasRow DEF ReadFresh, github
  <2>2. \A q \in Proc \ {p} : pc'[q] = pc[q] /\ lv'[q] = lv[q]
    BY <1>15, <1>0, ReturnMoves DEF ReadFresh, Goto, ProcsTyped
  <2>3. HandlerGated(p)'
    <3>1. CASE row.status = "cancelled"
      BY <1>15, <3>1, <1>0, ReturnMoves, FreeIsGated DEF ReadFresh
    <3>2. CASE row.status # "cancelled"
      <4>1. /\ pc[p] = "read" /\ pc'[p] = "write"
            /\ lv'[p].patch = lv[p].patch /\ lv'[p].files = lv[p].files
        BY <1>15, <3>2, <1>0 DEF ReadFresh, Goto, ProcsTyped, Locals
      <4>2. HandlerGated(p)
        BY DEF GateInv
      <4>3. QED
        BY <2>1, <4>1, <4>2 DEF HandlerGated, NeedsToken, NeedsPass, TokenEarned
    <3>3. QED
      BY <3>1, <3>2
  <2>4. QED
    BY <2>1, <2>2, <2>3, GateUntouched
<1>16. ASSUME NEW p \in Proc, WriteFresh(p) PROVE GateInv'
  <2> DEFINE patch == lv[p].patch
  <2>1. /\ lv[p] \in Locals /\ patch \in Patches \ {"none"} /\ pc[p] = "write"
        /\ Patched(lv[p]) \in Rows /\ Commit(p, Patched(lv[p])) /\ {p} \in SUBSET Proc
    BY <1>16, PatchedTyped, LocalFields DEF WriteFresh, TypeInv, ProcsTyped, PatchInHand
  <2>2. UNCHANGED <<passed, pushes>> /\ row.status # "absent" /\ row.status \in Statuses
    BY <1>16, <1>0, <2>1, UnderWayHasRow DEF WriteFresh, github, Rows
  <2>3. row'.status = Patched(lv[p]).status /\ row'.token = Patched(lv[p]).token
    BY <2>1, CommitColumns
  <2>4. HandlerGated(p) /\ StatusGated /\ OnlyVerifiedIsPushed
    BY DEF GateInv
  <2>5. OnlyVerifiedIsPushed'
    BY <2>2, <2>4 DEF OnlyVerifiedIsPushed
  <2>6. CASE patch \in {"code", "readme"}
    <3>1. Patched(lv[p]).status = row.status /\ Patched(lv[p]).token = row.token
      BY <1>0, <2>6 DEF Patched, Rows
    <3>2. pc'[p] \in FreeLabels /\ \A q \in Proc \ {p} : pc'[q] = pc[q] /\ lv'[q] = lv[q]
      BY <1>16, <1>0, <2>6 DEF WriteFresh, Goto, ProcsTyped, FreeLabels, Labels
    <3>3. StatusGated' /\ (TokenEarned => TokenEarned')
      BY <2>2, <2>3, <2>4, <3>1 DEF StatusGated, TokenEarned
    <3>4. QED
      BY <2>1, <2>2, <2>3, <2>5, <3>1, <3>2, <3>3, FreeIsGated, GateKept
  <2>7. CASE patch \in {"park", "unverified"}
    <3>1. /\ Patched(lv[p]).status \in {"awaiting_critic_resolution", "verify_failed"}
          /\ Patched(lv[p]).token = row.token
      BY <1>0, <2>7 DEF Patched, Rows
    <3>2. pc'[p] \in FreeLabels /\ \A q \in Proc \ {p} : pc'[q] = pc[q] /\ lv'[q] = lv[q]
      BY <1>16, <1>0, <2>7, ReturnMoves DEF WriteFresh
    <3>3. StatusGated' /\ (TokenEarned => TokenEarned')
      BY <2>2, <2>3, <2>4, <3>1 DEF StatusGated, TokenEarned
    <3>4. QED
      BY <2>1, <2>2, <2>3, <2>5, <3>1, <3>2, <3>3, FreeIsGated, GateKept
  <2>8. CASE patch = "verified"
    <3>1. Patched(lv[p]).status = row.status /\ Patched(lv[p]).token = lv[p].files
      BY <1>0, <2>8 DEF Patched, Rows
    <3>2. lv[p].files \in passed
      BY <2>1, <2>4, <2>8 DEF HandlerGated, NeedsPass
    <3>3. pc'[p] = "pin" /\ \A q \in Proc \ {p} : pc'[q] = pc[q] /\ lv'[q] = lv[q]
      BY <1>16, <1>0, <2>8 DEF WriteFresh, Goto, ProcsTyped
    <3>4. TokenEarned'
      BY <2>2, <2>3, <3>1, <3>2 DEF TokenEarned
    <3>5. HandlerGated(p)' /\ StatusGated'
      BY <3>3, <3>4 DEF HandlerGated, NeedsToken, NeedsPass, StatusGated
    <3>6. QED
      BY <2>1, <2>2, <2>3, <2>5, <3>1, <3>3, <3>4, <3>5, GateKept
  <2>9. CASE patch \in {"gate", "pushFailed", "done"}
    <3>1. /\ Patched(lv[p]).status \in {"awaiting_push_confirm", "push_failed", "done"}
          /\ Patched(lv[p]).token = row.token
      BY <1>0, <2>9 DEF Patched, Rows
    <3>2. TokenEarned
      BY <2>1, <2>4, <2>9 DEF HandlerGated, NeedsToken
    <3>3. pc'[p] \in FreeLabels /\ \A q \in Proc \ {p} : pc'[q] = pc[q] /\ lv'[q] = lv[q]
      BY <1>16, <1>0, <2>9, ReturnMoves DEF WriteFresh
    <3>4. TokenEarned' /\ StatusGated'
      BY <2>2, <2>3, <3>1, <3>2 DEF TokenEarned, StatusGated
    <3>5. QED
      BY <2>1, <2>2, <2>3, <2>5, <3>1, <3>3, <3>4, FreeIsGated, GateKept
  <2>10. QED
    BY <2>1, <2>6, <2>7, <2>8, <2>9 DEF Patches
<1>17. ASSUME NEW p \in Proc, RetryFresh(p) PROVE GateInv'
  <2>1. row.status # "absent" /\ UNCHANGED <<row, passed, pushes>> /\ {p} \in SUBSET Proc
    BY <1>17, UnderWayHasRow DEF RetryFresh, github
  <2>2. \A q \in Proc \ {p} : pc'[q] = pc[q] /\ lv'[q] = lv[q]
    BY <1>17, <1>0, ThrowMoves DEF RetryFresh, Goto, ProcsTyped
  <2>3. HandlerGated(p)'
    <3>1. CASE ~(lv[p].retry < MaxRetry)
      BY <1>17, <3>1, <1>0, ThrowMoves, FreeIsGated DEF RetryFresh
    <3>2. CASE lv[p].retry < MaxRetry
      <4>1. /\ pc[p] = "write" /\ pc'[p] = "read"
            /\ lv'[p].patch = lv[p].patch /\ lv'[p].files = lv[p].files
        BY <1>17, <3>2, <1>0 DEF RetryFresh, Goto, ProcsTyped, Locals
      <4>2. HandlerGated(p)
        BY DEF GateInv
      <4>3. QED
        BY <2>1, <4>1, <4>2 DEF HandlerGated, NeedsToken, NeedsPass, TokenEarned
    <3>3. QED
      BY <3>1, <3>2
  <2>4. QED
    BY <2>1, <2>2, <2>3, GateUntouched
<1>18. ASSUME NEW p \in Proc, BeginRun(p) PROVE GateInv'
  <2>1. row.status # "absent" /\ UNCHANGED <<row, passed, pushes>>
    BY <1>18, UnderWayHasRow DEF BeginRun, github
  <2>2. /\ pc'[p] \in FreeLabels
        /\ \A q \in Proc \ {p} : pc'[q] = pc[q] /\ lv'[q] = lv[q]
    BY <1>18, <1>0, ThrowMoves DEF BeginRun, Goto, ProcsTyped, FreeLabels, Labels
  <2>3. QED
    BY <2>1, <2>2, FreeMoveGated
<1>19. ASSUME NEW p \in Proc, Produce(p) PROVE GateInv'
  <2>1. row.status # "absent" /\ UNCHANGED <<row, passed, pushes>> /\ {p} \in SUBSET Proc
    BY <1>19, UnderWayHasRow DEF Produce, github
  <2>2. \A q \in Proc \ {p} : pc'[q] = pc[q] /\ lv'[q] = lv[q]
    BY <1>19, <1>0 DEF Produce, ProcsTyped
  <2>3. HandlerGated(p)'
    <3>1. ASSUME NEW candidate \in Codes, NEW patch \in {"code", "park"},
                 pc' = [pc EXCEPT ![p] = "read"],
                 lv' = [lv EXCEPT ![p].files = candidate, ![p].patch = patch]
          PROVE  HandlerGated(p)'
      <4>1. pc'[p] = "read" /\ lv'[p].patch = patch
        BY <3>1, <1>0 DEF ProcsTyped, Locals
      <4>2. QED
        BY <4>1 DEF HandlerGated, NeedsToken, NeedsPass
    <3>2. CASE UNCHANGED pc
      BY <1>19, <3>2 DEF Produce, HandlerGated, NeedsToken, NeedsPass
    <3>3. QED
      BY <1>19, <3>1, <3>2 DEF Produce
  <2>4. QED
    BY <2>1, <2>2, <2>3, GateUntouched
<1>20. ASSUME NEW p \in Proc, AgentFails(p) PROVE GateInv'
  <2>1. row.status # "absent" /\ UNCHANGED <<row, passed, pushes>>
    BY <1>20, UnderWayHasRow DEF AgentFails, github
  <2>2. /\ pc'[p] \in FreeLabels
        /\ \A q \in Proc \ {p} : pc'[q] = pc[q] /\ lv'[q] = lv[q]
    BY <1>20, <1>0, ThrowMoves DEF AgentFails, Goto, ProcsTyped, FreeLabels, Labels
  <2>3. QED
    BY <2>1, <2>2, FreeMoveGated
<1>21. ASSUME NEW p \in Proc, CatchRead(p) PROVE GateInv'
  <2>1. row.status # "absent" /\ UNCHANGED <<row, passed, pushes>>
    BY <1>21, UnderWayHasRow DEF CatchRead, github
  <2>2. /\ pc'[p] \in FreeLabels
        /\ \A q \in Proc \ {p} : pc'[q] = pc[q] /\ lv'[q] = lv[q]
    BY <1>21, <1>0 DEF CatchRead, Goto, ProcsTyped, FreeLabels, Labels
  <2>3. QED
    BY <2>1, <2>2, FreeMoveGated
<1>22. ASSUME NEW p \in Proc, FailRun(p) PROVE GateInv'
  <2>1. [row EXCEPT !.status = "failed"] \in Rows /\ Commit(p, [row EXCEPT !.status = "failed"])
    BY <1>22, <1>0 DEF FailRun, Rows, Statuses
  <2>2. pc[p] # "idle" /\ UNCHANGED <<passed, pushes>>
    BY <1>22 DEF FailRun, github
  <2>3. /\ pc'[p] \in FreeLabels
        /\ \A q \in Proc \ {p} : pc'[q] = pc[q] /\ lv'[q] = lv[q]
    BY <1>22, <1>0, ReturnMoves DEF FailRun, Goto, ProcsTyped, FreeLabels, Labels
  <2>4. /\ [row EXCEPT !.status = "failed"].token = row.token
        /\ [row EXCEPT !.status = "failed"].status \in Statuses
    BY <1>0, <2>1, <2>2, UnderWayHasRow DEF Rows, Statuses
  <2>5. [row EXCEPT !.status = "failed"].status \in {"awaiting_push_confirm", "push_failed", "done"} =>
          [row EXCEPT !.status = "failed"].status = row.status
    BY <1>0 DEF Rows
  <2>6. QED
    BY <2>1, <2>2, <2>3, <2>4, <2>5, PlainWriteGated
<1>23. ASSUME NEW p \in Proc, WriteDocs(p) PROVE GateInv'
  <2>1. row.status # "absent" /\ UNCHANGED <<row, passed, pushes>> /\ {p} \in SUBSET Proc
    BY <1>23, UnderWayHasRow DEF WriteDocs, github
  <2>2. \A q \in Proc \ {p} : pc'[q] = pc[q] /\ lv'[q] = lv[q]
    BY <1>23, <1>0 DEF WriteDocs, Goto, ProcsTyped
  <2>3. HandlerGated(p)'
    <3>1. CASE Goto(p, "trace")
      BY <3>1, <1>0 DEF Goto, ProcsTyped, HandlerGated, NeedsToken, NeedsPass
    <3>2. ASSUME NEW bundled \in Codes, pc' = [pc EXCEPT ![p] = "read"],
                 lv' = [lv EXCEPT ![p].files = bundled, ![p].patch = "readme", ![p].retry = 0]
          PROVE  HandlerGated(p)'
      <4>1. pc'[p] = "read" /\ lv'[p].patch = "readme"
        BY <3>2, <1>0 DEF ProcsTyped, Locals
      <4>2. QED
        BY <4>1 DEF HandlerGated, NeedsToken, NeedsPass
    <3>3. QED
      BY <1>23, <3>1, <3>2 DEF WriteDocs
  <2>4. QED
    BY <2>1, <2>2, <2>3, GateUntouched
<1>24. ASSUME NEW p \in Proc, Trace(p) PROVE GateInv'
  <2>1. /\ row.status # "absent" /\ UNCHANGED <<row, pushes>> /\ {p} \in SUBSET Proc
        /\ passed \subseteq passed'
    BY <1>24, UnderWayHasRow DEF Trace, github
  <2>2. StatusGated' /\ OnlyVerifiedIsPushed' /\ (TokenEarned => TokenEarned')
    BY <2>1 DEF GateInv, StatusGated, TokenEarned, OnlyVerifiedIsPushed
  <2>3. \A q \in Proc \ {p} : pc'[q] = pc[q] /\ lv'[q] = lv[q]
    BY <1>24, <1>0, ResilientMoves DEF Trace, Patches
  <2>4. HandlerGated(p)'
    <3>1. CASE passed' = passed \cup {lv[p].files} /\ Resilient(p, "verified")
      <4>1. /\ pc'[p] = "read" /\ lv'[p].patch = "verified"
            /\ lv'[p].files = lv[p].files /\ lv[p].files \in passed'
        BY <3>1, <1>0, ResilientMoves DEF Patches
      <4>2. QED
        BY <4>1 DEF HandlerGated, NeedsToken, NeedsPass
    <3>2. CASE Resilient(p, "unverified")
      <4>1. pc'[p] = "read" /\ lv'[p].patch = "unverified"
        BY <3>2, <1>0, ResilientMoves DEF Patches
      <4>2. QED
        BY <4>1 DEF HandlerGated, NeedsToken, NeedsPass
    <3>3. QED
      BY <1>24, <3>1, <3>2 DEF Trace
  <2>5. QED
    BY <2>1, <2>2, <2>3, <2>4, GateKept
<1>25. ASSUME NEW p \in Proc, PinDelivery(p) PROVE GateInv'
  <2>1. row.status # "absent" /\ UNCHANGED <<row, passed, pushes>> /\ {p} \in SUBSET Proc
    BY <1>25, UnderWayHasRow DEF PinDelivery, github
  <2>2. \A q \in Proc \ {p} : pc'[q] = pc[q] /\ lv'[q] = lv[q]
    BY <1>25, <1>0 DEF PinDelivery, ProcsTyped
  <2>3. HandlerGated(p)'
    <3>1. PICK d : /\ pc' = [pc EXCEPT ![p] = "read"]
                   /\ lv' = [lv EXCEPT ![p].delivery = d, ![p].patch = "gate", ![p].retry = 0]
      BY <1>25 DEF PinDelivery
    <3>2. pc'[p] = "read" /\ lv'[p].patch = "gate"
      BY <3>1, <1>0 DEF ProcsTyped, Locals
    <3>3. TokenEarned
      BY <1>25 DEF PinDelivery, GateInv, HandlerGated, NeedsToken
    <3>4. QED
      BY <2>1, <3>2, <3>3 DEF HandlerGated, NeedsToken, NeedsPass, TokenEarned
  <2>4. QED
    BY <2>1, <2>2, <2>3, GateUntouched
<1>26. ASSUME NEW p \in Proc, CancelWrite(p) PROVE GateInv'
  <2>1. /\ [row EXCEPT !.status = "cancelled"] \in Rows
        /\ Commit(p, [row EXCEPT !.status = "cancelled"])
    BY <1>26, <1>0 DEF CancelWrite, Rows, Statuses
  <2>2. pc[p] # "idle" /\ UNCHANGED <<passed, pushes>>
    BY <1>26 DEF CancelWrite, github
  <2>3. /\ pc'[p] \in FreeLabels
        /\ \A q \in Proc \ {p} : pc'[q] = pc[q] /\ lv'[q] = lv[q]
    BY <1>26, <1>0, ReturnMoves DEF CancelWrite, Goto, ProcsTyped, FreeLabels, Labels
  <2>4. /\ [row EXCEPT !.status = "cancelled"].token = row.token
        /\ [row EXCEPT !.status = "cancelled"].status \in Statuses
    BY <1>0, <2>1, <2>2, UnderWayHasRow DEF Rows, Statuses
  <2>5. [row EXCEPT !.status = "cancelled"].status \in {"awaiting_push_confirm", "push_failed", "done"} =>
          [row EXCEPT !.status = "cancelled"].status = row.status
    BY <1>0 DEF Rows
  <2>6. QED
    BY <2>1, <2>2, <2>3, <2>4, <2>5, PlainWriteGated
<1>27. ASSUME NEW p \in Proc, ReopenSpec(p) PROVE GateInv'
  <2>1. /\ [row EXCEPT !.status = "awaiting_spec_approval"] \in Rows
        /\ Commit(p, [row EXCEPT !.status = "awaiting_spec_approval"])
    BY <1>27, <1>0 DEF ReopenSpec, Rows, Statuses
  <2>2. pc[p] # "idle" /\ UNCHANGED <<passed, pushes>>
    BY <1>27 DEF ReopenSpec, github
  <2>3. /\ pc'[p] \in FreeLabels
        /\ \A q \in Proc \ {p} : pc'[q] = pc[q] /\ lv'[q] = lv[q]
    BY <1>27, <1>0, ReturnMoves DEF ReopenSpec, Goto, ProcsTyped, FreeLabels, Labels
  <2>4. /\ [row EXCEPT !.status = "awaiting_spec_approval"].token = row.token
        /\ [row EXCEPT !.status = "awaiting_spec_approval"].status \in Statuses
    BY <1>0, <2>1, <2>2, UnderWayHasRow DEF Rows, Statuses
  <2>5. [row EXCEPT !.status = "awaiting_spec_approval"].status \in {"awaiting_push_confirm", "push_failed", "done"} =>
          [row EXCEPT !.status = "awaiting_spec_approval"].status = row.status
    BY <1>0 DEF Rows
  <2>6. QED
    BY <2>1, <2>2, <2>3, <2>4, <2>5, PlainWriteGated
<1>28. ASSUME NEW p \in Proc, VersionConflict(p) PROVE GateInv'
  <2>1. row.status # "absent" /\ UNCHANGED <<row, passed, pushes>>
    BY <1>28, UnderWayHasRow DEF VersionConflict, github
  <2>2. /\ pc'[p] \in FreeLabels
        /\ \A q \in Proc \ {p} : pc'[q] = pc[q] /\ lv'[q] = lv[q]
    BY <1>28, <1>0, ReturnMoves DEF VersionConflict, Goto, ProcsTyped, FreeLabels, Labels
  <2>3. QED
    BY <2>1, <2>2, FreeMoveGated
<1>29. ASSUME NEW p \in Proc, MintPush(p) PROVE GateInv'
  <2>1. row.status # "absent" /\ UNCHANGED <<row, passed, pushes>> /\ {p} \in SUBSET Proc
    BY <1>29, UnderWayHasRow DEF MintPush, github
  <2>2. \A q \in Proc \ {p} : pc'[q] = pc[q] /\ lv'[q] = lv[q]
    BY <1>29, <1>0, ReturnMoves DEF MintPush, Goto, ProcsTyped
  <2>3. HandlerGated(p)'
    <3>1. CASE Return(p)
      BY <3>1, <1>0, ReturnMoves, FreeIsGated
    <3>2. CASE /\ row.status \in {"awaiting_push_confirm", "push_failed"} /\ PushApproved
               /\ Goto(p, "dest")
               /\ lv' = [lv EXCEPT ![p].files = row.code, ![p].to = row.delivery]
      <4>1. TokenEarned /\ row.token = row.code
        BY <3>2 DEF GateInv, StatusGated, PushApproved
      <4>2. pc'[p] = "dest" /\ lv'[p].files = row.code
        BY <3>2, <1>0 DEF Goto, ProcsTyped, Locals
      <4>3. QED
        BY <2>1, <4>1, <4>2 DEF HandlerGated, NeedsToken, NeedsPass, TokenEarned
    <3>3. QED
      BY <1>29, <3>1, <3>2 DEF MintPush
  <2>4. QED
    BY <2>1, <2>2, <2>3, GateUntouched
<1>30. ASSUME NEW p \in Proc, Destination(p) PROVE GateInv'
  <2>1. row.status # "absent" /\ UNCHANGED <<row, passed, pushes>> /\ {p} \in SUBSET Proc
    BY <1>30, UnderWayHasRow DEF Destination, github
  <2>2. \A q \in Proc \ {p} : pc'[q] = pc[q] /\ lv'[q] = lv[q]
    BY <1>30, <1>0 DEF Destination, Goto, ProcsTyped
  <2>3. HandlerGated(p)'
    <3>1. TokenEarned /\ lv[p].files \in passed
      BY <1>30 DEF Destination, GateInv, HandlerGated, NeedsToken, NeedsPass
    <3>2. \/ pc'[p] = "createRepo" /\ lv'[p].files = lv[p].files
          \/ pc'[p] = "read" /\ lv'[p].patch = "pushFailed"
      BY <1>30, <1>0 DEF Destination, Goto, ProcsTyped, Locals
    <3>3. QED
      BY <2>1, <3>1, <3>2 DEF HandlerGated, NeedsToken, NeedsPass, TokenEarned
  <2>4. QED
    BY <2>1, <2>2, <2>3, GateUntouched
<1>31. ASSUME NEW p \in Proc, CreateRepo(p) PROVE GateInv'
  <2>1. row.status # "absent" /\ UNCHANGED <<row, passed, pushes>> /\ {p} \in SUBSET Proc
    BY <1>31, UnderWayHasRow DEF CreateRepo, MakeRepo, github
  <2>2. \A q \in Proc \ {p} : pc'[q] = pc[q] /\ lv'[q] = lv[q]
    BY <1>31, <1>0 DEF CreateRepo, Goto, ProcsTyped
  <2>3. HandlerGated(p)'
    <3>1. TokenEarned /\ lv[p].files \in passed
      BY <1>31 DEF CreateRepo, GateInv, HandlerGated, NeedsToken, NeedsPass
    <3>2. pc'[p] = "pushFiles" /\ lv'[p].files = lv[p].files
      BY <1>31, <1>0 DEF CreateRepo, Goto, ProcsTyped
    <3>3. QED
      BY <2>1, <3>1, <3>2 DEF HandlerGated, NeedsToken, NeedsPass, TokenEarned
  <2>4. QED
    BY <2>1, <2>2, <2>3, GateUntouched
<1>32. ASSUME NEW p \in Proc, PushFiles(p) PROVE GateInv'
  <2>1. /\ row.status # "absent" /\ UNCHANGED <<row, passed>> /\ {p} \in SUBSET Proc
        /\ Resilient(p, "done")
    BY <1>32, UnderWayHasRow DEF PushFiles
  <2>2. TokenEarned /\ lv[p].files \in passed
    BY <1>32 DEF PushFiles, GateInv, HandlerGated, NeedsToken, NeedsPass
  <2>3. pushes' \subseteq pushes \cup {[files |-> lv[p].files, to |-> lv[p].to]}
    BY <1>32 DEF PushFiles, SendFiles, MakeRepo, github
  <2>4. OnlyVerifiedIsPushed'
    BY <2>1, <2>2, <2>3 DEF GateInv, OnlyVerifiedIsPushed
  <2>5. StatusGated' /\ (TokenEarned => TokenEarned')
    BY <2>1 DEF GateInv, StatusGated, TokenEarned
  <2>6. /\ pc'[p] = "read" /\ lv'[p].patch = "done"
        /\ \A q \in Proc \ {p} : pc'[q] = pc[q] /\ lv'[q] = lv[q]
    BY <1>0, <2>1, ResilientMoves DEF Patches
  <2>7. HandlerGated(p)'
    BY <2>1, <2>2, <2>6 DEF HandlerGated, NeedsToken, NeedsPass, TokenEarned
  <2>8. QED
    BY <2>1, <2>4, <2>5, <2>6, <2>7, GateKept
<1>33. ASSUME NEW p \in Proc, PushFails(p) PROVE GateInv'
  <2>1. /\ row.status # "absent" /\ UNCHANGED <<row, passed>> /\ {p} \in SUBSET Proc
        /\ Resilient(p, "pushFailed")
    BY <1>33, UnderWayHasRow DEF PushFails
  <2>2. TokenEarned /\ lv[p].files \in passed
    BY <1>33 DEF PushFails, GateInv, HandlerGated, NeedsToken, NeedsPass
  <2>3. pushes' \subseteq pushes \cup {[files |-> lv[p].files, to |-> lv[p].to]}
    BY <1>33 DEF PushFails, SendFiles, MakeRepo, github
  <2>4. OnlyVerifiedIsPushed'
    BY <2>1, <2>2, <2>3 DEF GateInv, OnlyVerifiedIsPushed
  <2>5. StatusGated' /\ (TokenEarned => TokenEarned')
    BY <2>1 DEF GateInv, StatusGated, TokenEarned
  <2>6. /\ pc'[p] = "read" /\ lv'[p].patch = "pushFailed"
        /\ \A q \in Proc \ {p} : pc'[q] = pc[q] /\ lv'[q] = lv[q]
    BY <1>0, <2>1, ResilientMoves DEF Patches
  <2>7. HandlerGated(p)'
    BY <2>1, <2>2, <2>6 DEF HandlerGated, NeedsToken, NeedsPass, TokenEarned
  <2>8. QED
    BY <2>1, <2>4, <2>5, <2>6, <2>7, GateKept
<1>34. ASSUME NEW p \in Proc, AppendTurn(p) PROVE GateInv'
  <2>1. row \in Rows /\ Commit(p, row)
    BY <1>34, <1>0 DEF AppendTurn, Rows, Statuses
  <2>2. pc[p] # "idle" /\ UNCHANGED <<passed, pushes>>
    BY <1>34 DEF AppendTurn, github
  <2>3. /\ pc'[p] \in FreeLabels
        /\ \A q \in Proc \ {p} : pc'[q] = pc[q] /\ lv'[q] = lv[q]
    BY <1>34, <1>0, ReturnMoves DEF AppendTurn, Goto, ProcsTyped, FreeLabels, Labels
  <2>4. row.token = row.token /\ row.status \in Statuses
    BY <1>0, <2>1, <2>2, UnderWayHasRow DEF Rows, Statuses
  <2>5. row.status \in {"awaiting_push_confirm", "push_failed", "done"} =>
          row.status = row.status
    BY <1>0 DEF Rows
  <2>6. QED
    BY <2>1, <2>2, <2>3, <2>4, <2>5, PlainWriteGated
<1>35. ASSUME NEW p \in Proc, ReReadTurn(p) PROVE GateInv'
  <2>1. row.status # "absent" /\ UNCHANGED <<row, passed, pushes>>
    BY <1>35, UnderWayHasRow DEF ReReadTurn, github
  <2>2. /\ pc'[p] \in FreeLabels
        /\ \A q \in Proc \ {p} : pc'[q] = pc[q] /\ lv'[q] = lv[q]
    BY <1>35, <1>0, ReturnMoves DEF ReReadTurn, Goto, ProcsTyped, FreeLabels, Labels
  <2>3. QED
    BY <2>1, <2>2, FreeMoveGated
<1>36. CASE EvictBound
  BY <1>36 DEF EvictBound, GateInv, AbsentIsIdle, StatusGated, TokenEarned,
     OnlyVerifiedIsPushed,
            HandlerGated, NeedsToken, NeedsPass, github
<1>37. CASE Crash
  <2>1. UNCHANGED <<row, passed, pushes>> /\ \A q \in Proc : pc'[q] = "idle"
    BY <1>37 DEF Crash, github
  <2>2. \A q \in Proc : HandlerGated(q)'
    BY <2>1, FreeIsGated DEF FreeLabels, Labels
  <2>3. AbsentIsIdle' /\ StatusGated' /\ OnlyVerifiedIsPushed'
    BY <2>1 DEF GateInv, AbsentIsIdle, StatusGated, TokenEarned, OnlyVerifiedIsPushed
  <2>4. QED
    BY <2>2, <2>3 DEF GateInv
<1>38. CASE UNCHANGED vars
  BY <1>38 DEF vars, GateInv, AbsentIsIdle, StatusGated, TokenEarned, OnlyVerifiedIsPushed,
            HandlerGated, NeedsToken, NeedsPass
<1>39. QED
  BY <1>1, <1>2, <1>3, <1>4, <1>5, <1>6, <1>7, <1>8, <1>9, <1>10, <1>11, <1>12,
     <1>13, <1>14, <1>15, <1>16, <1>17, <1>18, <1>19, <1>20, <1>21, <1>22, <1>23,
     <1>24, <1>25, <1>26, <1>27, <1>28, <1>29, <1>30, <1>31, <1>32, <1>33, <1>34,
     <1>35, <1>36, <1>37, <1>38
     DEF Next, Request, Continue

LEMMA GateInit == Init => GateInv
  BY DEF Init, GateInv, AbsentIsIdle, StatusGated, NoRow, OnlyVerifiedIsPushed, HandlerGated,
         NeedsToken, NeedsPass

LEMMA GateInvariant == Spec => []GateInv
  BY TypeInvariant, GateInit, GateStep, PTL DEF Spec

\* Gate 3: whatever handlers, recoveries, chat turns and restarts interleave, a session
\* that shows the push gate, or lies past it, holds a token that a passing run earned.
THEOREM PushGateIsEarned == Spec => []GateNeedsToken
<1>1. GateInv => GateNeedsToken
  BY DEF GateInv, StatusGated, TokenEarned, GateNeedsToken
<1>2. QED
  BY <1>1, GateInvariant, PTL

\* Gate 4: whatever reaches GitHub passed a real test run, as it stands.
THEOREM PushIsVerified == Spec => []OnlyVerifiedIsPushed
<1>1. GateInv => OnlyVerifiedIsPushed
  BY DEF GateInv
<1>2. QED
  BY <1>1, GateInvariant, PTL

-----------------------------------------------------------------------------
(* The guards: the in-flight guard of every orchestrator and the confirm   *)
(* guard are exclusive and never leak.                                     *)
(*                                                                         *)
(* A guard is released by what the returning handler remembers of itself,  *)
(* so the invariant ties that memory to where the handler is: one that     *)
(* has not begun, or that only starts a session, holds no guard, and the   *)
(* detached run holds its orchestrator's until its catch.                  *)

GuardOps == {"run", "confirm"}

Placed(q) ==
  /\ pc[q] \in {"idle", "catch", "fail"} => lv[q].op = "none"
  /\ pc[q] = "kick" => lv[q].op = "start"

KickPlaced ==
  lv[Kick].op = IF pc[Kick] \in {"idle", "catch", "fail"} THEN "none" ELSE "run"

\* No two handlers hold the same guard.
Exclusive ==
  /\ \A p, q \in Proc :
       lv[p].op = "run" /\ lv[q].op = "run" /\ lv[p].orch = lv[q].orch => p = q
  /\ \A p, q \in Proc : lv[p].op = "confirm" /\ lv[q].op = "confirm" => p = q

\* A guard is held exactly while some handler remembers taking it.
Accounted ==
  /\ \A o : o \in inFlight <=> \E q \in Proc : lv[q].op = "run" /\ lv[q].orch = o
  /\ confirming <=> \E q \in Proc : lv[q].op = "confirm"

GuardInv == (\A q \in Proc : Placed(q)) /\ KickPlaced /\ Exclusive /\ Accounted

\* What the step does to the guard of the handler that takes it, and to its memory.
Keeps(p) ==
  /\ lv'[p].op = lv[p].op /\ lv'[p].orch = lv[p].orch
  /\ UNCHANGED <<inFlight, confirming>>
HoldsNone(p) ==
  /\ lv[p].op \notin GuardOps /\ lv'[p].op \notin GuardOps
  /\ UNCHANGED <<inFlight, confirming>>
TakesRun(p) ==
  /\ lv[p].op \notin GuardOps /\ lv'[p].op = "run" /\ lv'[p].orch \notin inFlight
  /\ inFlight' = inFlight \cup {lv'[p].orch} /\ UNCHANGED confirming
TakesConfirm(p) ==
  /\ lv[p].op \notin GuardOps /\ lv'[p].op = "confirm" /\ ~confirming
  /\ confirming' = TRUE /\ UNCHANGED inFlight
LeavesRun(p) ==
  /\ lv[p].op = "run" /\ lv'[p].op \notin GuardOps
  /\ inFlight' = inFlight \ {lv[p].orch} /\ UNCHANGED confirming
LeavesConfirm(p) ==
  /\ lv[p].op = "confirm" /\ lv'[p].op \notin GuardOps
  /\ confirming' = FALSE /\ UNCHANGED inFlight

\* Whichever it does, the guards stay exclusive and accounted for, when no other handler
\* touches a guard.
LEMMA GuardsFollow ==
  ASSUME GuardsTyped, Exclusive, Accounted, NEW p \in Proc,
         \A q \in Proc \ {p} :
           \/ lv'[q].op = lv[q].op /\ lv'[q].orch = lv[q].orch
           \/ lv[q].op \notin GuardOps /\ lv'[q].op \notin GuardOps,
         \/ Keeps(p) \/ HoldsNone(p) \/ TakesRun(p) \/ TakesConfirm(p)
         \/ LeavesRun(p) \/ LeavesConfirm(p)
  PROVE  Exclusive' /\ Accounted'
<1>1. CASE Keeps(p)
  BY <1>1 DEF Keeps, Exclusive, Accounted, GuardOps
<1>2. CASE HoldsNone(p)
  BY <1>2 DEF HoldsNone, Exclusive, Accounted, GuardOps
<1>3. CASE TakesRun(p)
  <2>1. \A q \in Proc \ {p} : lv'[q].op = "run" =>
          lv[q].op = "run" /\ lv'[q].orch = lv[q].orch /\ lv'[q].orch # lv'[p].orch
    BY <1>3 DEF TakesRun, GuardOps, Accounted
  <2>2. Exclusive'
    BY <1>3, <2>1 DEF TakesRun, Exclusive, GuardOps
  <2>3. Accounted'
    BY <1>3 DEF TakesRun, Accounted, GuardOps
  <2>4. QED
    BY <2>2, <2>3
<1>4. CASE TakesConfirm(p)
  BY <1>4 DEF TakesConfirm, Exclusive, Accounted, GuardOps
<1>5. CASE LeavesRun(p)
  <2>1. Exclusive'
    BY <1>5 DEF LeavesRun, Exclusive, GuardOps
  <2>2. Accounted'
    BY <1>5 DEF LeavesRun, Exclusive, Accounted, GuardOps
  <2>3. QED
    BY <2>1, <2>2
<1>6. CASE LeavesConfirm(p)
  BY <1>6 DEF LeavesConfirm, Exclusive, Accounted, GuardOps
<1>7. QED
  BY <1>1, <1>2, <1>3, <1>4, <1>5, <1>6

\* A step of one handler.
LEMMA GuardMove ==
  ASSUME GuardsTyped, GuardInv, NEW p \in Proc,
         \A q \in Proc \ {p} : pc'[q] = pc[q] /\ lv'[q] = lv[q],
         \/ Keeps(p) \/ HoldsNone(p) \/ TakesRun(p) \/ TakesConfirm(p)
         \/ LeavesRun(p) \/ LeavesConfirm(p),
         Placed(p)', p = Kick => KickPlaced'
  PROVE  GuardInv'
  <1>1. Exclusive' /\ Accounted'
    BY GuardsFollow DEF GuardInv
  <1>2. \A q \in Proc : Placed(q)'
    BY DEF GuardInv, Placed
  <1>3. KickPlaced'
    BY KickIsProc DEF GuardInv, KickPlaced
  <1>4. QED
    BY <1>1, <1>2, <1>3 DEF GuardInv

\* The labels between which a handler moves with its guard, if it has one.
UnderWay == Labels \ {"idle", "kick", "catch", "fail"}

LEMMA GuardCarried ==
  ASSUME GuardsTyped, GuardInv, NEW p \in Proc,
         \A q \in Proc \ {p} : pc'[q] = pc[q] /\ lv'[q] = lv[q],
         pc[p] \in UnderWay, pc'[p] \in UnderWay, Keeps(p)
  PROVE  GuardInv'
  <1>1. Placed(p)'
    BY DEF Placed, UnderWay
  <1>2. p = Kick => KickPlaced'
    BY DEF KickPlaced, GuardInv, Keeps, UnderWay
  <1>3. QED
    BY <1>1, <1>2, GuardMove

\* A request is issued by a client, which holds nothing yet.
LEMMA Requested ==
  ASSUME GuardInv, NEW p \in Proc, Issue(p)
  PROVE  p # Kick /\ lv[p].op = "none" /\ pc[p] = "idle"
  BY ProcsDisjoint DEF Issue, GuardInv, Placed

\* A handler that returns gives back exactly the guard it took, ...
LEMMA ReturnReleases ==
  ASSUME ProcsTyped, GuardsTyped, GuardInv, NEW p \in Proc, Return(p)
  PROVE  GuardInv'
  <1>1. /\ pc'[p] = "idle" /\ lv'[p].op = "none"
        /\ \A q \in Proc \ {p} : pc'[q] = pc[q] /\ lv'[q] = lv[q]
    BY DEF Return, ProcsTyped, NoLocals
  <1>2. Placed(p)' /\ (p = Kick => KickPlaced')
    BY <1>1 DEF Placed, KickPlaced
  <1>3. confirming \in BOOLEAN
    BY DEF GuardsTyped
  <1>4. \/ HoldsNone(p) \/ LeavesRun(p) \/ LeavesConfirm(p)
    BY <1>1, <1>3 DEF Return, HoldsNone, LeavesRun, LeavesConfirm, GuardOps
  <1>5. QED
    BY <1>1, <1>2, <1>4, GuardMove

\* ... and so does one that throws; the detached run leaves its guard before its catch.
LEMMA ThrowReleases ==
  ASSUME ProcsTyped, GuardsTyped, GuardInv, NEW p \in Proc, Throw(p), pc[p] \in UnderWay
  PROVE  GuardInv'
  <1>1. CASE p # Kick
    BY <1>1, ReturnReleases DEF Throw
  <1>2. CASE p = Kick
    <2>1. /\ pc'[p] = "catch" /\ lv'[p].op = "none"
          /\ inFlight' = inFlight \ {lv[p].orch} /\ UNCHANGED confirming
          /\ \A q \in Proc \ {p} : pc'[q] = pc[q] /\ lv'[q] = lv[q]
      BY <1>2 DEF Throw, ProcsTyped, NoLocals
    <2>2. lv[p].op = "run"
      BY <1>2 DEF GuardInv, KickPlaced, UnderWay
    <2>3. Placed(p)' /\ KickPlaced' /\ LeavesRun(p)
      BY <1>2, <2>1, <2>2 DEF Placed, KickPlaced, LeavesRun, GuardOps
    <2>4. QED
      BY <2>1, <2>3, GuardMove
  <1>3. QED
    BY <1>1, <1>2

LEMMA GuardStep == TypeInv /\ GuardInv /\ [Next]_vars => GuardInv'
<1> SUFFICES ASSUME TypeInv, GuardInv, [Next]_vars
             PROVE  GuardInv'
  OBVIOUS
<1>0. ProcsTyped /\ GuardsTyped /\ \A q \in Proc : lv[q] \in Locals
  BY DEF TypeInv, ProcsTyped
<1>1. ASSUME NEW p \in Proc,
             Start(p) \/ Approve(p) \/ Cancel(p) \/ ResolveSpec(p) \/ Reverify(p)
      PROVE  GuardInv'
  <2>1. p # Kick /\ lv[p].op = "none"
    BY <1>1, Requested DEF Start, Approve, Cancel, ResolveSpec, Plain, Reverify
  <2>2. UNCHANGED <<inFlight, confirming>>
    BY <1>1 DEF Start, Approve, Cancel, ResolveSpec, Plain, Reverify
  <2>3. /\ pc'[p] \in {"seed", "draft", "mint", "cancel", "reopen", "docs"}
        /\ lv'[p].op \notin GuardOps
        /\ \A q \in Proc \ {p} : pc'[q] = pc[q] /\ lv'[q] = lv[q]
    <3>1. CASE Start(p)
      BY <1>0, <3>1 DEF Start, Goto, ProcsTyped, NoLocals, GuardOps
    <3>2. CASE Approve(p)
      BY <1>0, <3>2 DEF Approve, Goto, ProcsTyped, NoLocals, GuardOps
    <3>3. CASE Cancel(p)
      BY <1>0, <3>3 DEF Cancel, Plain, Goto, ProcsTyped, NoLocals, GuardOps
    <3>4. CASE ResolveSpec(p)
      BY <1>0, <3>4 DEF ResolveSpec, Plain, Goto, ProcsTyped, NoLocals, GuardOps
    <3>5. CASE Reverify(p)
      BY <1>0, <3>5 DEF Reverify, Goto, ProcsTyped, NoLocals, GuardOps
    <3>6. QED
      BY <1>1, <3>1, <3>2, <3>3, <3>4, <3>5
  <2>4. HoldsNone(p) /\ Placed(p)'
    BY <2>1, <2>2, <2>3 DEF HoldsNone, Placed, GuardOps
  <2>5. QED
    BY <1>0, <2>1, <2>3, <2>4, GuardMove
<1>2. ASSUME NEW p \in Proc, Run(p) PROVE GuardInv'
  <2>1. p # Kick /\ lv[p].op = "none"
    BY <1>2, Requested DEF Run
  <2>2. /\ pc'[p] = "run" /\ lv'[p].op = "run" /\ lv'[p].orch = OrchFor
        /\ \A q \in Proc \ {p} : pc'[q] = pc[q] /\ lv'[q] = lv[q]
    BY <1>0, <1>2 DEF Run, Goto, ProcsTyped, NoLocals
  <2>3. OrchFor \notin inFlight /\ inFlight' = inFlight \cup {OrchFor} /\ UNCHANGED confirming
    BY <1>2 DEF Run
  <2>4. TakesRun(p) /\ Placed(p)'
    BY <2>1, <2>2, <2>3 DEF TakesRun, Placed, GuardOps
  <2>5. QED
    BY <1>0, <2>1, <2>2, <2>4, GuardMove
<1>3. ASSUME NEW p \in Proc, Confirm(p) PROVE GuardInv'
  <2>1. p # Kick /\ lv[p].op = "none"
    BY <1>3, Requested DEF Confirm
  <2>2. /\ pc'[p] = "confirm" /\ lv'[p].op = "confirm"
        /\ \A q \in Proc \ {p} : pc'[q] = pc[q] /\ lv'[q] = lv[q]
    BY <1>0, <1>3 DEF Confirm, Goto, ProcsTyped, NoLocals
  <2>3. TakesConfirm(p) /\ Placed(p)'
    BY <1>3, <2>1, <2>2 DEF Confirm, TakesConfirm, Placed, GuardOps
  <2>4. QED
    BY <1>0, <2>1, <2>2, <2>3, GuardMove
<1>4. ASSUME NEW p \in Proc, Chat(p) PROVE GuardInv'
  <2>1. p # Kick /\ lv[p].op = "none"
    BY <1>4, ProcsDisjoint DEF Chat, GuardInv, Placed
  <2>2. /\ pc'[p] = "chat" /\ Keeps(p)
        /\ \A q \in Proc \ {p} : pc'[q] = pc[q] /\ lv'[q] = lv[q]
    BY <1>0, <1>4 DEF Chat, Goto, ProcsTyped, Locals, Keeps
  <2>3. Placed(p)'
    BY <2>2 DEF Placed
  <2>4. QED
    BY <1>0, <2>1, <2>2, <2>3, GuardMove
<1>5. ASSUME NEW p \in Proc, SeedSpec(p) \/ MintApproval(p) PROVE GuardInv'
  <2>1. /\ pc[p] \in {"seed", "mint"} /\ pc'[p] \in {"mint", "open"} /\ Keeps(p)
        /\ \A q \in Proc \ {p} : pc'[q] = pc[q] /\ lv'[q] = lv[q]
    BY <1>0, <1>5 DEF SeedSpec, MintApproval, Goto, ProcsTyped, Locals, Keeps
  <2>2. QED
    BY <1>0, <2>1, GuardCarried DEF UnderWay, Labels
<1>6. ASSUME NEW p \in Proc, DraftSpec(p) \/ DraftFails(p) \/ FailRun(p) \/ CancelWrite(p)
                               \/ ReopenSpec(p) \/ VersionConflict(p) \/ AppendTurn(p)
      PROVE  GuardInv'
  <2>1. Return(p)
    BY <1>6 DEF DraftSpec, ReturnFromStart, DraftFails, FailRun, CancelWrite, ReopenSpec,
       VersionConflict, AppendTurn
  <2>2. QED
    BY <1>0, <2>1, ReturnReleases
<1>7. ASSUME NEW p \in Proc, OpenBuild(p) PROVE GuardInv'
  <2>1. CASE Return(p)
    BY <1>0, <2>1, ReturnReleases
  <2>2. CASE lv[p].op = "start" /\ Goto(p, "kick") /\ UNCHANGED <<lv, inFlight, confirming>>
    <3>1. /\ pc[p] = "open" /\ pc'[p] = "kick" /\ lv'[p].op = "start" /\ Keeps(p)
          /\ \A q \in Proc \ {p} : pc'[q] = pc[q] /\ lv'[q] = lv[q]
      BY <1>0, <1>7, <2>2 DEF OpenBuild, Goto, ProcsTyped, Keeps
    <3>2. p # Kick
      BY <2>2, <3>1 DEF GuardInv, KickPlaced
    <3>3. Placed(p)'
      BY <3>1 DEF Placed
    <3>4. QED
      BY <1>0, <3>1, <3>2, <3>3, GuardMove
  <2>3. QED
    BY <1>7, <2>1, <2>2 DEF OpenBuild
<1>8. ASSUME NEW p \in Proc, KickRun(p) PROVE GuardInv'
  <2>1. /\ pc[p] = "kick" /\ pc[Kick] = "idle" /\ p # Kick /\ Kick \in Proc
        /\ lv[p].op = "start" /\ lv[Kick].op = "none" /\ UNCHANGED confirming
    BY <1>8, KickIsProc DEF KickRun, GuardInv, Placed
  <2>2. /\ pc'[p] = "idle" /\ lv'[p].op = "none"
        /\ \A q \in Proc \ {p, Kick} : pc'[q] = pc[q] /\ lv'[q] = lv[q]
    BY <1>0, <1>8, <2>1 DEF KickRun, ProcsTyped, NoLocals
  <2>3. CASE lv[p].orch \in inFlight
    <3>1. pc'[Kick] = "catch" /\ lv'[Kick] = lv[Kick] /\ UNCHANGED inFlight
      BY <1>0, <1>8, <2>1, <2>3 DEF KickRun, ProcsTyped
    <3>2. HoldsNone(Kick) /\ KickPlaced'
      BY <2>1, <3>1 DEF HoldsNone, KickPlaced, GuardOps
    <3>3. Exclusive' /\ Accounted'
      BY <1>0, <2>1, <2>2, <3>2, GuardsFollow DEF GuardInv, GuardOps
    <3>4. \A q \in Proc : Placed(q)'
      BY <2>1, <2>2, <3>1 DEF GuardInv, Placed
    <3>5. QED
      BY <3>2, <3>3, <3>4 DEF GuardInv
  <2>4. CASE lv[p].orch \notin inFlight
    <3>1. /\ pc'[Kick] = "run" /\ lv'[Kick].op = "run" /\ lv'[Kick].orch = lv[p].orch
          /\ inFlight' = inFlight \cup {lv[p].orch}
      BY <1>0, <1>8, <2>1, <2>4 DEF KickRun, ProcsTyped, NoLocals
    <3>2. TakesRun(Kick) /\ KickPlaced'
      BY <2>1, <2>4, <3>1 DEF TakesRun, KickPlaced, GuardOps
    <3>3. Exclusive' /\ Accounted'
      BY <1>0, <2>1, <2>2, <3>2, GuardsFollow DEF GuardInv, GuardOps
    <3>4. \A q \in Proc : Placed(q)'
      BY <2>1, <2>2, <3>1 DEF GuardInv, Placed
    <3>5. QED
      BY <3>2, <3>3, <3>4 DEF GuardInv
  <2>5. QED
    BY <2>3, <2>4
<1>9. ASSUME NEW p \in Proc, ReadFresh(p) PROVE GuardInv'
  <2>1. CASE Return(p)
    BY <1>0, <2>1, ReturnReleases
  <2>2. CASE Goto(p, "write") /\ lv' = [lv EXCEPT ![p].ver = row.version]
             /\ UNCHANGED <<inFlight, confirming>>
    <3>1. /\ pc[p] = "read" /\ pc'[p] = "write" /\ Keeps(p)
          /\ \A q \in Proc \ {p} : pc'[q] = pc[q] /\ lv'[q] = lv[q]
      BY <1>0, <1>9, <2>2 DEF ReadFresh, Goto, ProcsTyped, Locals, Keeps
    <3>2. QED
      BY <1>0, <3>1, GuardCarried DEF UnderWay, Labels
  <2>3. QED
    BY <1>9, <2>1, <2>2 DEF ReadFresh
<1>10. ASSUME NEW p \in Proc, WriteFresh(p) PROVE GuardInv'
  <2>1. pc[p] = "write" /\ lv[p].patch \in Patches \ {"none"}
    BY <1>0, <1>10, LocalFields DEF WriteFresh, ProcsTyped, PatchInHand
  <2>2. CASE lv[p].patch \in {"park", "gate", "unverified", "pushFailed", "done"}
    <3>1. Return(p)
      BY <1>10, <2>2 DEF WriteFresh
    <3>2. QED
      BY <1>0, <3>1, ReturnReleases
  <2>3. CASE lv[p].patch \in {"code", "readme"}
    <3>1. /\ pc'[p] \in {"docs", "trace"} /\ Keeps(p)
          /\ \A q \in Proc \ {p} : pc'[q] = pc[q] /\ lv'[q] = lv[q]
      BY <1>0, <1>10, <2>3 DEF WriteFresh, Goto, ProcsTyped, Locals, Keeps
    <3>2. QED
      BY <1>0, <2>1, <3>1, GuardCarried DEF UnderWay, Labels
  <2>4. CASE lv[p].patch = "verified"
    <3>1. /\ pc'[p] = "pin" /\ Keeps(p)
          /\ \A q \in Proc \ {p} : pc'[q] = pc[q] /\ lv'[q] = lv[q]
      BY <1>0, <1>10, <2>4 DEF WriteFresh, Goto, ProcsTyped, Keeps
    <3>2. QED
      BY <1>0, <2>1, <3>1, GuardCarried DEF UnderWay, Labels
  <2>5. QED
    BY <2>1, <2>2, <2>3, <2>4 DEF Patches
<1>11. ASSUME NEW p \in Proc, RetryFresh(p) PROVE GuardInv'
  <2>1. CASE Throw(p)
    BY <1>0, <1>11, <2>1, ThrowReleases DEF RetryFresh, UnderWay, Labels
  <2>2. CASE Goto(p, "read") /\ lv' = [lv EXCEPT ![p].retry = @ + 1]
             /\ UNCHANGED <<inFlight, confirming>>
    <3>1. /\ pc[p] = "write" /\ pc'[p] = "read" /\ Keeps(p)
          /\ \A q \in Proc \ {p} : pc'[q] = pc[q] /\ lv'[q] = lv[q]
      BY <1>0, <1>11, <2>2 DEF RetryFresh, Goto, ProcsTyped, Locals, Keeps
    <3>2. QED
      BY <1>0, <3>1, GuardCarried DEF UnderWay, Labels
  <2>3. QED
    BY <1>11, <2>1, <2>2 DEF RetryFresh
<1>12. ASSUME NEW p \in Proc, BeginRun(p) PROVE GuardInv'
  <2>1. CASE Throw(p)
    BY <1>0, <1>12, <2>1, ThrowReleases DEF BeginRun, UnderWay, Labels
  <2>2. CASE Goto(p, "produce") /\ UNCHANGED <<lv, inFlight, confirming>>
    <3>1. /\ pc[p] = "run" /\ pc'[p] = "produce" /\ Keeps(p)
          /\ \A q \in Proc \ {p} : pc'[q] = pc[q] /\ lv'[q] = lv[q]
      BY <1>0, <1>12, <2>2 DEF BeginRun, Goto, ProcsTyped, Keeps
    <3>2. QED
      BY <1>0, <3>1, GuardCarried DEF UnderWay, Labels
  <2>3. QED
    BY <1>12, <2>1, <2>2 DEF BeginRun
<1>13. ASSUME NEW p \in Proc, AgentFails(p) PROVE GuardInv'
  BY <1>0, <1>13, ThrowReleases DEF AgentFails, UnderWay, Labels
<1>14. ASSUME NEW p \in Proc, CatchRead(p) PROVE GuardInv'
  <2>1. /\ pc'[p] \in {"idle", "fail"} /\ Keeps(p)
        /\ \A q \in Proc \ {p} : pc'[q] = pc[q] /\ lv'[q] = lv[q]
    <3>1. CASE row.status = "building"
      BY <1>0, <1>14, <3>1 DEF CatchRead, Goto, ProcsTyped, Locals, Keeps
    <3>2. CASE row.status # "building"
      BY <1>0, <1>14, <3>2 DEF CatchRead, Goto, ProcsTyped, Keeps
    <3>3. QED
      BY <3>1, <3>2
  <2>2. lv'[p].op = "none"
    BY <1>14, <2>1 DEF CatchRead, GuardInv, Placed, Keeps
  <2>3. Placed(p)' /\ (p = Kick => KickPlaced')
    BY <2>1, <2>2 DEF Placed, KickPlaced
  <2>4. QED
    BY <1>0, <2>1, <2>3, GuardMove
<1>15. ASSUME NEW p \in Proc, Produce(p) \/ WriteDocs(p) \/ PinDelivery(p) PROVE GuardInv'
  <2>1. /\ pc[p] \in {"produce", "docs", "pin"} /\ pc'[p] \in {"produce", "read", "trace"}
        /\ Keeps(p) /\ \A q \in Proc \ {p} : pc'[q] = pc[q] /\ lv'[q] = lv[q]
    <3>1. CASE Produce(p)
      BY <1>0, <3>1 DEF Produce, ProcsTyped, Locals, Keeps
    <3>2. CASE WriteDocs(p)
      <4>1. CASE Goto(p, "trace") /\ UNCHANGED lv
        BY <1>0, <3>2, <4>1 DEF WriteDocs, Goto, ProcsTyped, Keeps
      <4>2. ASSUME NEW bundled \in Codes, pc' = [pc EXCEPT ![p] = "read"],
                   lv' = [lv EXCEPT ![p].files = bundled, ![p].patch = "readme",
                                    ![p].retry = 0]
            PROVE  /\ pc[p] = "docs" /\ pc'[p] = "read" /\ Keeps(p)
                   /\ \A q \in Proc \ {p} : pc'[q] = pc[q] /\ lv'[q] = lv[q]
        <5>1. lv' = [lv EXCEPT ![p] = [lv[p] EXCEPT !.files = bundled, !.patch = "readme",
                                                    !.retry = 0]]
          BY <1>0, <4>2 DEF ProcsTyped
        <5>2. lv'[p].op = lv[p].op /\ lv'[p].orch = lv[p].orch
          BY <1>0, <5>1 DEF ProcsTyped, Locals
        <5>3. QED
          BY <1>0, <3>2, <4>2, <5>2 DEF WriteDocs, ProcsTyped, Keeps
      <4>3. QED
        BY <3>2, <4>1, <4>2 DEF WriteDocs
    <3>3. CASE PinDelivery(p)
      BY <1>0, <3>3 DEF PinDelivery, ProcsTyped, Locals, Keeps
    <3>4. QED
      BY <1>15, <3>1, <3>2, <3>3
  <2>2. QED
    BY <1>0, <2>1, GuardCarried DEF UnderWay, Labels
<1>16. ASSUME NEW p \in Proc, Trace(p) \/ PushFiles(p) \/ PushFails(p) PROVE GuardInv'
  <2>1. PICK patch \in Patches : Resilient(p, patch)
    BY <1>16 DEF Trace, PushFiles, PushFails, Patches
  <2>2. pc[p] \in {"trace", "createRepo", "pushFiles"} /\ UNCHANGED <<inFlight, confirming>>
    BY <1>16 DEF Trace, PushFiles, PushFails
  <2>3. /\ pc'[p] = "read" /\ Keeps(p)
        /\ \A q \in Proc \ {p} : pc'[q] = pc[q] /\ lv'[q] = lv[q]
    BY <1>0, <2>1, <2>2 DEF Resilient, ProcsTyped, Locals, Keeps
  <2>4. QED
    BY <1>0, <2>2, <2>3, GuardCarried DEF UnderWay, Labels
<1>17. ASSUME NEW p \in Proc, MintPush(p) PROVE GuardInv'
  <2>1. CASE Return(p)
    BY <1>0, <2>1, ReturnReleases
  <2>2. CASE /\ Goto(p, "dest") /\ UNCHANGED <<inFlight, confirming>>
             /\ lv' = [lv EXCEPT ![p].files = row.code, ![p].to = row.delivery]
    <3>1. /\ pc[p] = "confirm" /\ pc'[p] = "dest" /\ Keeps(p)
          /\ \A q \in Proc \ {p} : pc'[q] = pc[q] /\ lv'[q] = lv[q]
      BY <1>0, <1>17, <2>2 DEF MintPush, Goto, ProcsTyped, Locals, Keeps
    <3>2. QED
      BY <1>0, <3>1, GuardCarried DEF UnderWay, Labels
  <2>3. QED
    BY <1>17, <2>1, <2>2 DEF MintPush
<1>18. ASSUME NEW p \in Proc, Destination(p) \/ CreateRepo(p) PROVE GuardInv'
  <2>1. /\ pc[p] \in {"dest", "createRepo"} /\ pc'[p] \in {"createRepo", "read", "pushFiles"}
        /\ Keeps(p) /\ \A q \in Proc \ {p} : pc'[q] = pc[q] /\ lv'[q] = lv[q]
    <3>1. CASE Destination(p)
      BY <1>0, <3>1 DEF Destination, Goto, ProcsTyped, Locals, Keeps
    <3>2. CASE CreateRepo(p)
      BY <1>0, <3>2 DEF CreateRepo, Goto, ProcsTyped, Keeps
    <3>3. QED
      BY <1>18, <3>1, <3>2
  <2>2. QED
    BY <1>0, <2>1, GuardCarried DEF UnderWay, Labels
<1>19. ASSUME NEW p \in Proc, ReReadTurn(p) PROVE GuardInv'
  <2>1. CASE Return(p)
    BY <1>0, <2>1, ReturnReleases
  <2>2. CASE /\ lv' = [lv EXCEPT ![p].ver = row.version, ![p].retry = 1]
             /\ UNCHANGED <<pc, inFlight, confirming>>
    <3>1. /\ pc[p] = "chat" /\ pc'[p] = "chat" /\ Keeps(p)
          /\ \A q \in Proc \ {p} : pc'[q] = pc[q] /\ lv'[q] = lv[q]
      BY <1>0, <1>19, <2>2 DEF ReReadTurn, ProcsTyped, Locals, Keeps
    <3>2. QED
      BY <1>0, <3>1, GuardCarried DEF UnderWay, Labels
  <2>3. QED
    BY <1>19, <2>1, <2>2 DEF ReReadTurn
<1>20. CASE EvictBound \/ UNCHANGED vars
  BY <1>20 DEF EvictBound, vars, GuardInv, Placed, KickPlaced, Exclusive, Accounted
<1>21. CASE Crash
  <2>1. /\ inFlight' = {} /\ confirming' = FALSE
        /\ \A q \in Proc : pc'[q] = "idle" /\ lv'[q].op = "none"
    BY <1>21 DEF Crash, NoLocals
  <2>2. QED
    BY <2>1, KickIsProc DEF GuardInv, Placed, KickPlaced, Exclusive, Accounted
<1>22. QED
  BY <1>1, <1>2, <1>3, <1>4, <1>5, <1>6, <1>7, <1>8, <1>9, <1>10, <1>11, <1>12, <1>13,
     <1>14, <1>15, <1>16, <1>17, <1>18, <1>19, <1>20, <1>21
     DEF Next, Request, Continue

LEMMA GuardInit == Init => GuardInv
  BY KickIsProc DEF Init, GuardInv, Placed, KickPlaced, Exclusive, Accounted, NoLocals

LEMMA GuardInvariant == Spec => []GuardInv
  BY TypeInvariant, GuardInit, GuardStep, PTL DEF Spec

\* Whatever handlers run, throw, are killed by a restart or meet an eviction, no
\* orchestrator runs the session twice at once, and no guard outlives its handler.
THEOREM GuardsNeverLeak == Spec => []GuardsAreHeld
<1>1. ASSUME GuardInv PROVE GuardsAreHeld
  <2>1. \A p, q \in Running : lv[p].orch = lv[q].orch => p = q
    BY <1>1 DEF GuardInv, Exclusive, Running
  <2>2. inFlight = {lv[p].orch : p \in {q \in Proc : lv[q].op = "run"}}
    BY <1>1 DEF GuardInv, Accounted
  <2>3. QED
    BY <1>1, <2>1, <2>2 DEF GuardsAreHeld, GuardInv, Accounted
<1>2. QED
  BY <1>1, GuardInvariant, PTL

-----------------------------------------------------------------------------
(* The approval, the cancel and the refinement of TrustGates.  None of the *)
(* three is inductive.  Each rests on what the optimistic lock buys a      *)
(* handler between its read and its write, which Sound states: no handler  *)
(* holds a version the row has not reached, and one that holds the row's   *)
(* own version still knows what it read.  The first spec is written at     *)
(* version 0 or never, so no spec changes under an approval.               *)

PlainLabels == {"seed", "draft", "mint", "open", "cancel", "reopen", "fail"}

\* The handlers that go on because the spec was approved, ...
NeedsApproval(q) ==
  pc[q] \in {"produce", "docs", "trace", "pin", "read", "write", "dest", "createRepo",
             "pushFiles"}

\* ... because the row holds a file set, ...
NeedsCode(q) ==
  \/ pc[q] \in {"docs", "trace", "pin", "dest", "createRepo", "pushFiles"}
  \/ pc[q] \in {"read", "write"} /\ lv[q].patch \notin {"code", "park"}

\* ... and with one in hand.
HoldsFiles(q) ==
  \/ pc[q] \in {"docs", "trace"}
  \/ pc[q] \in {"read", "write"} /\ lv[q].patch \in {"code", "park", "readme"}

\* A handler about to write at the row's own version knows the row: nobody cancelled it,
\* and an approval is minted over a spec that awaits it.
KnowsRow(q) ==
  lv[q].ver = row.version =>
    /\ pc[q] \in PlainLabels \cup {"write"} => row.status # "cancelled"
    /\ pc[q] = "mint" => row.spec # None /\ row.status = "awaiting_spec_approval"

HandlerSound(q) ==
  /\ lv[q].ver <= row.version
  /\ NeedsApproval(q) => row.approval # None
  /\ NeedsCode(q) => row.code # None
  /\ HoldsFiles(q) => lv[q].files # None
  /\ pc[q] \in {"seed", "draft"} => lv[q].ver = 0
  /\ KnowsRow(q)

RowSound ==
  /\ row.approval # None => row.approval = row.spec
  /\ row.code # None => row.approval # None
  /\ row.version = 0 => row.approval = None
  /\ row.approval # None /\ row.status \in {"awaiting_critic_resolution", "verify_failed"} =>
       row.code # None

Sound == RowSound /\ \A q \in Proc : HandlerSound(q)

\* A step that leaves the row alone only has to leave its movers sound.
LEMMA SoundUntouched ==
  ASSUME Sound, UNCHANGED row, NEW moved \in SUBSET Proc,
         \A q \in Proc \ moved : pc'[q] = pc[q] /\ lv'[q] = lv[q],
         \A q \in moved : HandlerSound(q)'
  PROVE  Sound'
  <1>1. ASSUME NEW q \in Proc \ moved PROVE HandlerSound(q)'
    BY <1>1 DEF Sound, HandlerSound, NeedsApproval, NeedsCode, HoldsFiles, KnowsRow
  <1>2. RowSound'
    BY DEF Sound, RowSound
  <1>3. QED
    BY <1>1, <1>2 DEF Sound

\* A commit leaves everyone else behind the row, so they need know nothing of it; it
\* must not take back an approval or a file set, and must leave its own row sound.
LEMMA SoundCommit ==
  ASSUME TypeInv, Sound, NEW p \in Proc, NEW r \in Rows, Commit(p, r),
         \A q \in Proc \ {p} : pc'[q] = pc[q] /\ lv'[q] = lv[q],
         row.approval # None => r.approval # None,
         row.code # None => r.code # None,
         r.approval # None => r.approval = r.spec,
         r.code # None => r.approval # None,
         r.approval # None /\ r.status \in {"awaiting_critic_resolution", "verify_failed"} =>
           r.code # None,
         HandlerSound(p)'
  PROVE  Sound'
  <1>1. /\ row'.status = r.status /\ row'.spec = r.spec /\ row'.approval = r.approval
        /\ row'.code = r.code
    BY CommitColumns
  <1>2. row'.version = row.version + 1 /\ row.version \in Nat
    BY RowFields DEF Commit, Rows, TypeInv
  <1>3. ASSUME NEW q \in Proc \ {p} PROVE HandlerSound(q)'
    <2>1. lv[q].ver \in Nat /\ lv[q].ver <= row.version
      BY LocalFields DEF TypeInv, ProcsTyped, Sound, HandlerSound
    <2>2. lv'[q].ver < row'.version
      BY <1>2, <2>1
    <2>3. KnowsRow(q)' /\ lv'[q].ver <= row'.version
      BY <1>2, <2>1, <2>2 DEF KnowsRow
    <2>4. QED
      BY <1>1, <2>3, <1>3 DEF Sound, HandlerSound, NeedsApproval, NeedsCode, HoldsFiles
  <1>4. RowSound'
    BY <1>1, <1>2 DEF RowSound
  <1>5. QED
    BY <1>3, <1>4 DEF Sound

\* A handler that returns or throws needs nothing.
LEMMA GoneIsSound ==
  ASSUME NEW q, row'.version \in Nat, pc'[q] \in {"idle", "catch"}, lv'[q] = NoLocals
  PROVE  HandlerSound(q)'
  BY DEF HandlerSound, NeedsApproval, NeedsCode, HoldsFiles, KnowsRow, PlainLabels, NoLocals

LEMMA ReturnGoes ==
  ASSUME ProcsTyped, NEW p \in Proc, Return(p) \/ Throw(p)
  PROVE  /\ pc'[p] \in {"idle", "catch"} /\ lv'[p] = NoLocals
         /\ \A q \in Proc \ {p} : pc'[q] = pc[q] /\ lv'[q] = lv[q]
  BY DEF Return, Throw, ProcsTyped

\* So a handler that returns or throws without a write keeps the invariant, ...
LEMMA ReturnSound ==
  ASSUME TypeInv, TypeInv', Sound, NEW p \in Proc, Return(p) \/ Throw(p), UNCHANGED row
  PROVE  Sound'
  <1>1. HandlerSound(p)' /\ {p} \in SUBSET Proc
    BY ReturnGoes, RowFields, GoneIsSound DEF TypeInv
  <1>2. QED
    BY <1>1, ReturnGoes, SoundUntouched DEF TypeInv

\* ... and so does one that returns from a write that leaves spec, approval and code.
LEMMA ReturnFromWriteSound ==
  ASSUME TypeInv, TypeInv', Sound, NEW p \in Proc, Return(p),
         NEW r \in Rows, Commit(p, r),
         r.spec = row.spec, r.approval = row.approval, r.code = row.code,
         r.approval # None /\ r.status \in {"awaiting_critic_resolution", "verify_failed"} =>
           row.code # None
  PROVE  Sound'
  <1>1. HandlerSound(p)'
    BY ReturnGoes, GoneIsSound DEF TypeInv, RowTyped, Rows
  <1>2. QED
    BY <1>1, ReturnGoes, SoundCommit DEF TypeInv, Sound, RowSound

\* A request, or a handler that moves on, leaves the others alone.
LEMMA GoesOn ==
  ASSUME ProcsTyped, NEW p \in Proc, NEW label, NEW l,
         pc' = [pc EXCEPT ![p] = label], lv' = [lv EXCEPT ![p] = l]
  PROVE  /\ pc'[p] = label /\ lv'[p] = l
         /\ \A q \in Proc \ {p} : pc'[q] = pc[q] /\ lv'[q] = lv[q]
  BY DEF ProcsTyped

\* A handler that moves without writing keeps the invariant when it is sound after.
LEMMA MoveSound ==
  ASSUME TypeInv, Sound, NEW p \in Proc, NEW label, NEW l, UNCHANGED row,
         pc' = [pc EXCEPT ![p] = label], lv' = [lv EXCEPT ![p] = l],
         HandlerSound(p)'
  PROVE  Sound'
  <1>1. {p} \in SUBSET Proc /\ ProcsTyped
    BY DEF TypeInv
  <1>2. QED
    BY <1>1, GoesOn, SoundUntouched

\* A handler that hands a patch to the resilient writer keeps the invariant when it was
\* entitled to that patch.
LEMMA ResilientSound ==
  ASSUME TypeInv, Sound, NEW p \in Proc, NEW patch \in Patches, UNCHANGED row,
         Resilient(p, patch), row.approval # None,
         patch \notin {"code", "park"} => row.code # None,
         patch \in {"code", "park", "readme"} => lv[p].files # None
  PROVE  Sound'
  <1>1. /\ pc'[p] = "read" /\ lv'[p].patch = patch /\ lv'[p].files = lv[p].files
        /\ lv'[p].ver = lv[p].ver
        /\ \A q \in Proc \ {p} : pc'[q] = pc[q] /\ lv'[q] = lv[q]
    <2>1. lv[p] \in Locals /\ ProcsTyped
      BY DEF TypeInv, ProcsTyped
    <2>2. QED
      BY <2>1, ResilientMoves DEF Resilient, ProcsTyped, Locals
  <1>2. HandlerSound(p)'
    BY <1>1 DEF Sound, HandlerSound, NeedsApproval, NeedsCode, HoldsFiles, KnowsRow,
       PlainLabels
  <1>3. {p} \in SUBSET Proc
    OBVIOUS
  <1>4. QED
    BY <1>1, <1>2, <1>3, SoundUntouched

\* Every step keeps it.
LEMMA SoundStep == TypeInv /\ TypeInv' /\ GateInv /\ Sound /\ [Next]_vars => Sound'
<1> SUFFICES ASSUME TypeInv, TypeInv', GateInv, Sound, [Next]_vars
             PROVE  Sound'
  OBVIOUS
<1>0. /\ ProcsTyped /\ row \in Rows /\ row.version \in Nat /\ row'.version \in Nat
      /\ \A q \in Proc : lv[q] \in Locals
  BY RowFields DEF TypeInv, RowTyped, ProcsTyped, Rows
<1>1. ASSUME NEW p \in Proc, Start(p) PROVE Sound'
  <2>1. row.status = "absent" /\ row = NoRow /\ \A q \in Proc : pc[q] = "idle"
    BY <1>1 DEF Start, GateInv, AbsentIsIdle
  <2>2. PICK o \in Orchs, seeded \in BOOLEAN, d \in Repos \cup {None} :
          /\ row' = [NoRow EXCEPT !.status = "composing", !.delivery = d]
          /\ pc' = [pc EXCEPT ![p] = IF seeded THEN "seed" ELSE "draft"]
          /\ lv' = [lv EXCEPT ![p] = [NoLocals EXCEPT !.op = "start", !.orch = o]]
    BY <1>1 DEF Start, Goto
  <2>3. /\ row.version = 0 /\ row'.version = 0 /\ row'.status = "composing"
        /\ row'.approval = None /\ row'.code = None
    BY <2>1, <2>2 DEF NoRow
  <2>4. pc'[p] \in {"seed", "draft"} /\ lv'[p].ver = 0
    BY <1>0, <2>2 DEF NoLocals, ProcsTyped
  <2>5. \A q \in Proc \ {p} : pc'[q] = "idle" /\ lv'[q] = lv[q]
    BY <1>0, <2>1, <2>2, GoesOn
  <2>6. HandlerSound(p)'
    BY <2>3, <2>4 DEF HandlerSound, NeedsApproval, NeedsCode, HoldsFiles, KnowsRow
  <2>7. ASSUME NEW q \in Proc \ {p} PROVE HandlerSound(q)'
    BY <2>3, <2>5 DEF Sound, HandlerSound, NeedsApproval, NeedsCode, HoldsFiles, KnowsRow,
       PlainLabels
  <2>8. RowSound'
    BY <2>3 DEF RowSound
  <2>9. QED
    BY <2>6, <2>7, <2>8 DEF Sound
<1>2. ASSUME NEW p \in Proc, Approve(p) PROVE Sound'
  <2>1. /\ pc' = [pc EXCEPT ![p] = "mint"] /\ UNCHANGED row
        /\ lv' = [lv EXCEPT ![p] = [NoLocals EXCEPT !.op = "approve", !.ver = row.version]]
        /\ row.status = "awaiting_spec_approval" /\ row.spec # None
    BY <1>2 DEF Approve, Goto
  <2>2. pc'[p] = "mint" /\ lv'[p].ver = row.version
    BY <1>0, <2>1 DEF NoLocals, ProcsTyped
  <2>3. HandlerSound(p)'
    BY <1>0, <2>1, <2>2 DEF HandlerSound, NeedsApproval, NeedsCode, HoldsFiles, KnowsRow
  <2>4. QED
    BY <2>1, <2>3, MoveSound
<1>3. ASSUME NEW p \in Proc, Run(p) PROVE Sound'
  <2>1. /\ pc' = [pc EXCEPT ![p] = "run"] /\ UNCHANGED row
        /\ lv' = [lv EXCEPT ![p] = [NoLocals EXCEPT !.op = "run", !.orch = OrchFor]]
    BY <1>3 DEF Run, Goto
  <2>2. pc'[p] = "run" /\ lv'[p].ver = 0
    BY <1>0, <2>1 DEF NoLocals, ProcsTyped
  <2>3. HandlerSound(p)'
    BY <1>0, <2>1, <2>2 DEF HandlerSound, NeedsApproval, NeedsCode, HoldsFiles, KnowsRow,
       PlainLabels
  <2>4. QED
    BY <2>1, <2>3, MoveSound
<1>4. ASSUME NEW p \in Proc, Cancel(p) PROVE Sound'
  <2>1. /\ pc' = [pc EXCEPT ![p] = "cancel"] /\ UNCHANGED row
        /\ lv' = [lv EXCEPT ![p] = [NoLocals EXCEPT !.op = "cancel", !.ver = row.version]]
        /\ row.status # "cancelled"
    BY <1>4 DEF Cancel, Plain, Goto, CancelImmune
  <2>2. pc'[p] = "cancel" /\ lv'[p].ver = row.version
    BY <1>0, <2>1 DEF NoLocals, ProcsTyped
  <2>3. HandlerSound(p)'
    BY <1>0, <2>1, <2>2 DEF HandlerSound, NeedsApproval, NeedsCode, HoldsFiles, KnowsRow
  <2>4. QED
    BY <2>1, <2>3, MoveSound
<1>5. ASSUME NEW p \in Proc, ResolveSpec(p) PROVE Sound'
  <2>1. /\ pc' = [pc EXCEPT ![p] = "reopen"] /\ UNCHANGED row
        /\ lv' = [lv EXCEPT ![p] = [NoLocals EXCEPT !.op = "reopen", !.ver = row.version]]
        /\ row.status # "cancelled"
    BY <1>5 DEF ResolveSpec, Plain, Goto
  <2>2. pc'[p] = "reopen" /\ lv'[p].ver = row.version
    BY <1>0, <2>1 DEF NoLocals, ProcsTyped
  <2>3. HandlerSound(p)'
    BY <1>0, <2>1, <2>2 DEF HandlerSound, NeedsApproval, NeedsCode, HoldsFiles, KnowsRow
  <2>4. QED
    BY <2>1, <2>3, MoveSound
<1>6. ASSUME NEW p \in Proc, Reverify(p) PROVE Sound'
  <2>1. /\ pc' = [pc EXCEPT ![p] = "docs"] /\ UNCHANGED row
        /\ lv' = [lv EXCEPT ![p] = [NoLocals EXCEPT !.op = "verify", !.files = row.code,
                                                    !.delivery = row.delivery]]
        /\ row.approval # None
        /\ row.status \in {"verify_failed", "awaiting_critic_resolution"}
    BY <1>6 DEF Reverify, SpecApproved, Goto
  <2>2. row.code # None
    BY <2>1 DEF Sound, RowSound
  <2>3. pc'[p] = "docs" /\ lv'[p].ver = 0 /\ lv'[p].files = row.code
    BY <1>0, <2>1 DEF NoLocals, ProcsTyped
  <2>4. HandlerSound(p)'
    BY <1>0, <2>1, <2>2, <2>3 DEF HandlerSound, NeedsApproval, NeedsCode, HoldsFiles, KnowsRow,
       PlainLabels
  <2>5. QED
    BY <2>1, <2>4, MoveSound
<1>7. ASSUME NEW p \in Proc, Confirm(p) PROVE Sound'
  <2>1. /\ pc' = [pc EXCEPT ![p] = "confirm"] /\ UNCHANGED row
        /\ lv' = [lv EXCEPT ![p] = [NoLocals EXCEPT !.op = "confirm"]]
    BY <1>7 DEF Confirm, Goto
  <2>2. pc'[p] = "confirm" /\ lv'[p].ver = 0
    BY <1>0, <2>1 DEF NoLocals, ProcsTyped
  <2>3. HandlerSound(p)'
    BY <1>0, <2>1, <2>2 DEF HandlerSound, NeedsApproval, NeedsCode, HoldsFiles, KnowsRow,
       PlainLabels
  <2>4. QED
    BY <2>1, <2>3, MoveSound
<1>8. ASSUME NEW p \in Proc, Chat(p) PROVE Sound'
  <2>1. /\ pc' = [pc EXCEPT ![p] = "chat"] /\ UNCHANGED row
        /\ lv' = [lv EXCEPT ![p] = [lv[p] EXCEPT !.ver = row.version]]
    BY <1>0, <1>8 DEF Chat, Goto, ProcsTyped
  <2>2. pc'[p] = "chat" /\ lv'[p].ver = row.version
    BY <1>0, <2>1 DEF Locals, ProcsTyped
  <2>3. HandlerSound(p)'
    BY <1>0, <2>1, <2>2 DEF HandlerSound, NeedsApproval, NeedsCode, HoldsFiles, KnowsRow,
       PlainLabels
  <2>4. QED
    BY <2>1, <2>3, MoveSound
<1>9. ASSUME NEW p \in Proc, SeedSpec(p) PROVE Sound'
  <2>1. PICK s \in Specs :
          Commit(p, [row EXCEPT !.spec = s, !.status = "awaiting_spec_approval"])
    BY <1>9 DEF SeedSpec
  <2> DEFINE r == [row EXCEPT !.spec = s, !.status = "awaiting_spec_approval"]
  <2>2. /\ r \in Rows /\ r.spec = s /\ r.approval = row.approval /\ r.code = row.code
        /\ r.status = "awaiting_spec_approval"
    <3>1. r \in Rows
      BY <1>0, RowWith DEF Statuses
    <3>2. QED
      BY <1>0, <3>1 DEF Rows
  <2>3. row.approval = None /\ row.code = None
    <3>1. row.version = 0
      BY <1>9, <2>1 DEF SeedSpec, Commit, Sound, HandlerSound
    <3>2. QED
      BY <3>1 DEF Sound, RowSound
  <2>4. /\ pc' = [pc EXCEPT ![p] = "mint"]
        /\ lv' = [lv EXCEPT ![p] = [lv[p] EXCEPT !.ver = row'.version]]
    BY <1>9, <1>0 DEF SeedSpec, Goto, ProcsTyped
  <2>5. /\ pc'[p] = "mint" /\ lv'[p].ver = row'.version
        /\ \A q \in Proc \ {p} : pc'[q] = pc[q] /\ lv'[q] = lv[q]
    BY <1>0, <2>4 DEF Locals, ProcsTyped
  <2>6. row'.spec # None /\ row'.status = "awaiting_spec_approval"
    BY <2>1, <2>2, CommitColumns, NoneIsFresh
  <2>7. HandlerSound(p)'
    BY <1>0, <2>5, <2>6 DEF HandlerSound, NeedsApproval, NeedsCode, HoldsFiles, KnowsRow
  <2>8. QED
    BY <2>1, <2>2, <2>3, <2>5, <2>7, SoundCommit
<1>10. ASSUME NEW p \in Proc, DraftSpec(p) PROVE Sound'
  <2>1. row.approval = None /\ row.code = None
    <3>1. row.version = lv[p].ver /\ lv[p].ver = 0
      BY <1>10 DEF DraftSpec, Commit, Sound, HandlerSound
    <3>2. QED
      BY <3>1 DEF Sound, RowSound
  <2>2. PICK r \in Rows : Commit(p, r) /\ r.approval = None /\ r.code = None
    <3>1. CASE Commit(p, [row EXCEPT !.status = "composing"])
      <4>1. [row EXCEPT !.status = "composing"] \in Rows
        BY <1>0, RowWith DEF Statuses
      <4>2. /\ [row EXCEPT !.status = "composing"].approval = None
            /\ [row EXCEPT !.status = "composing"].code = None
        BY <1>0, <2>1 DEF Rows
      <4>3. QED
        BY <3>1, <4>1, <4>2
    <3>2. ASSUME NEW s \in Specs,
                 NEW status \in {"awaiting_spec_approval", "awaiting_critic_resolution"},
                 Commit(p, [row EXCEPT !.spec = s, !.status = status])
          PROVE  \E r \in Rows : Commit(p, r) /\ r.approval = None /\ r.code = None
      <4>1. [row EXCEPT !.spec = s, !.status = status] \in Rows
        BY <1>0, RowWith DEF Statuses
      <4>2. /\ [row EXCEPT !.spec = s, !.status = status].approval = None
            /\ [row EXCEPT !.spec = s, !.status = status].code = None
        BY <1>0, <2>1 DEF Rows
      <4>3. QED
        BY <3>2, <4>1, <4>2
    <3>3. QED
      BY <1>10, <3>1, <3>2 DEF DraftSpec
  <2>3. /\ pc'[p] \in {"idle", "catch"} /\ lv'[p] = NoLocals
        /\ \A q \in Proc \ {p} : pc'[q] = pc[q] /\ lv'[q] = lv[q]
    BY <1>0, <1>10, ReturnGoes DEF DraftSpec, ReturnFromStart
  <2>4. HandlerSound(p)'
    BY <1>0, <2>3, GoneIsSound
  <2>5. QED
    BY <2>1, <2>2, <2>3, <2>4, SoundCommit
<1>11. ASSUME NEW p \in Proc, DraftFails(p) PROVE Sound'
  BY <1>11, ReturnSound DEF DraftFails
<1>12. ASSUME NEW p \in Proc, MintApproval(p) PROVE Sound'
  <2> DEFINE r == [row EXCEPT !.approval = row.spec]
  <2>1. Commit(p, r) /\ r \in Rows
    BY <1>0, <1>12 DEF MintApproval, Rows
  <2>2. r.approval = row.spec /\ r.spec = row.spec /\ r.code = row.code /\ r.status = row.status
    BY <1>0 DEF Rows
  <2>3. row.spec # None /\ row.status = "awaiting_spec_approval"
    BY <1>12 DEF MintApproval, Commit, Sound, HandlerSound, KnowsRow
  <2>4. /\ pc' = [pc EXCEPT ![p] = "open"]
        /\ lv' = [lv EXCEPT ![p] = [lv[p] EXCEPT !.ver = row'.version]]
    BY <1>12, <1>0 DEF MintApproval, Goto, ProcsTyped
  <2>5. /\ pc'[p] = "open" /\ lv'[p].ver = row'.version
        /\ \A q \in Proc \ {p} : pc'[q] = pc[q] /\ lv'[q] = lv[q]
    BY <1>0, <2>4 DEF Locals, ProcsTyped
  <2>6. row'.status = "awaiting_spec_approval"
    BY <2>1, <2>2, <2>3, CommitColumns
  <2>7. HandlerSound(p)'
    BY <1>0, <2>5, <2>6 DEF HandlerSound, NeedsApproval, NeedsCode, HoldsFiles, KnowsRow
  <2>8. QED
    BY <2>1, <2>2, <2>3, <2>5, <2>7, SoundCommit
<1>13. ASSUME NEW p \in Proc, OpenBuild(p) PROVE Sound'
  <2> DEFINE r == [row EXCEPT !.status = "building"]
  <2>1. Commit(p, r) /\ r \in Rows
    BY <1>0, <1>13, RowWith DEF OpenBuild, Statuses
  <2>2. r.approval = row.approval /\ r.spec = row.spec /\ r.code = row.code /\ r.status = "building"
    BY <1>0 DEF Rows
  <2>3. CASE Goto(p, "kick") /\ UNCHANGED lv
    <3>1. /\ pc'[p] = "kick" /\ lv'[p] = lv[p]
          /\ \A q \in Proc \ {p} : pc'[q] = pc[q] /\ lv'[q] = lv[q]
      BY <1>0, <2>3 DEF Goto, ProcsTyped
    <3>2. lv[p].ver <= row.version /\ row'.version = row.version + 1 /\ lv[p].ver \in Nat
      BY <1>0, <2>1, LocalFields DEF Commit, Rows, Sound, HandlerSound
    <3>3. HandlerSound(p)'
      BY <1>0, <3>1, <3>2 DEF HandlerSound, NeedsApproval, NeedsCode, HoldsFiles, KnowsRow,
         PlainLabels
    <3>4. QED
      BY <2>1, <2>2, <3>1, <3>3, SoundCommit DEF Sound, RowSound
  <2>4. CASE Return(p)
    BY <2>1, <2>2, <2>4, ReturnFromWriteSound
  <2>5. QED
    BY <1>13, <2>3, <2>4 DEF OpenBuild
<1>14. ASSUME NEW p \in Proc, KickRun(p) PROVE Sound'
  <2>1. UNCHANGED row /\ {p, Kick} \in SUBSET Proc
    BY <1>14, KickIsProc DEF KickRun
  <2>2. \A q \in Proc \ {p, Kick} : pc'[q] = pc[q] /\ lv'[q] = lv[q]
    BY <1>0, <1>14 DEF KickRun, ProcsTyped
  <2>3. pc[p] = "kick" /\ pc[Kick] = "idle" /\ p # Kick
    BY <1>14 DEF KickRun
  <2>4. pc'[p] = "idle" /\ lv'[p] = NoLocals
    BY <1>0, <1>14, <2>3, KickIsProc DEF KickRun, ProcsTyped
  <2>5. \/ pc'[Kick] = "catch" /\ lv'[Kick] = lv[Kick]
        \/ pc'[Kick] = "run" /\ lv'[Kick].ver = 0
    BY <1>0, <1>14, <2>3, KickIsProc DEF KickRun, ProcsTyped, NoLocals
  <2>6. HandlerSound(p)'
    BY <1>0, <2>4, GoneIsSound
  <2>7. HandlerSound(Kick)'
    BY <1>0, <2>1, <2>5, KickIsProc DEF Sound, HandlerSound, NeedsApproval, NeedsCode,
       HoldsFiles, KnowsRow, PlainLabels
  <2>8. QED
    BY <2>1, <2>2, <2>6, <2>7, SoundUntouched
<1>15. ASSUME NEW p \in Proc, ReadFresh(p) PROVE Sound'
  <2>1. CASE row.status = "cancelled"
    BY <1>15, <2>1, ReturnSound DEF ReadFresh
  <2>2. CASE row.status # "cancelled"
    <3>1. /\ pc' = [pc EXCEPT ![p] = "write"] /\ UNCHANGED row /\ pc[p] = "read"
          /\ lv' = [lv EXCEPT ![p] = [lv[p] EXCEPT !.ver = row.version]]
      BY <1>0, <1>15, <2>2 DEF ReadFresh, Goto, ProcsTyped
    <3>2. /\ pc'[p] = "write" /\ lv'[p].ver = row.version /\ lv'[p].patch = lv[p].patch
          /\ lv'[p].files = lv[p].files
      BY <1>0, <3>1 DEF Locals, ProcsTyped
    <3>3. HandlerSound(p)'
      BY <1>0, <2>2, <3>1, <3>2 DEF Sound, HandlerSound, NeedsApproval, NeedsCode, HoldsFiles,
         KnowsRow
    <3>4. QED
      BY <3>1, <3>3, MoveSound
  <2>3. QED
    BY <2>1, <2>2
<1>16. ASSUME NEW p \in Proc, WriteFresh(p) PROVE Sound'
  <2> DEFINE r == Patched(lv[p])
  <2>1. /\ Commit(p, r) /\ pc[p] = "write" /\ r \in Rows
        /\ lv[p].patch \in Patches \ {"none"}
    BY <1>0, <1>16, PatchedTyped, LocalFields DEF WriteFresh, TypeInv, ProcsTyped, PatchInHand
  <2>2. /\ row.approval # None
        /\ NeedsCode(p) => row.code # None
        /\ HoldsFiles(p) => lv[p].files # None
    BY <2>1 DEF Sound, HandlerSound, NeedsApproval
  <2>3. r.approval = row.approval /\ r.spec = row.spec
    <3>1. CASE lv[p].patch \in {"code", "readme", "park", "verified", "unverified"}
      BY <1>0, <3>1 DEF Patched, Rows
    <3>2. CASE lv[p].patch \in {"gate", "pushFailed", "done"}
      BY <1>0, <3>2 DEF Patched, Rows
    <3>3. QED
      BY <2>1, <3>1, <3>2 DEF Patches
  <2>4. r.code # None
    <3>1. CASE lv[p].patch \in {"code", "readme", "park"}
      BY <1>0, <2>1, <2>2, <3>1 DEF Patched, Rows, HoldsFiles
    <3>2. CASE lv[p].patch \in {"verified", "unverified", "gate", "pushFailed", "done"}
      <4>1. row.code # None
        BY <2>1, <2>2, <3>2 DEF NeedsCode
      <4>2. r.code = row.code
        BY <1>0, <3>2 DEF Patched, Rows
      <4>3. QED
        BY <4>1, <4>2
    <3>3. QED
      BY <2>1, <3>1, <3>2 DEF Patches
  <2>5. row'.code # None /\ row'.approval # None
    BY <2>1, <2>2, <2>3, <2>4, CommitColumns
  <2>6. lv[p].ver <= row.version /\ row'.version = row.version + 1 /\ lv[p].ver \in Nat
    BY <1>0, <2>1, LocalFields DEF Commit, Rows, Sound, HandlerSound
  <2>7. /\ HandlerSound(p)'
        /\ \A q \in Proc \ {p} : pc'[q] = pc[q] /\ lv'[q] = lv[q]
    <3>1. CASE lv[p].patch \in {"code", "readme"}
      <4>1. /\ pc'[p] \in {"docs", "trace"} /\ lv'[p].files = lv[p].files
            /\ lv'[p].ver = lv[p].ver
            /\ \A q \in Proc \ {p} : pc'[q] = pc[q] /\ lv'[q] = lv[q]
        BY <1>0, <1>16, <3>1 DEF WriteFresh, Goto, ProcsTyped, Locals
      <4>2. lv[p].files # None
        BY <2>1, <2>2, <3>1 DEF HoldsFiles
      <4>3. QED
        BY <1>0, <2>5, <2>6, <4>1, <4>2 DEF HandlerSound, NeedsApproval, NeedsCode, HoldsFiles,
           KnowsRow, PlainLabels
    <3>2. CASE lv[p].patch = "verified"
      <4>1. /\ pc'[p] = "pin" /\ lv'[p] = lv[p]
            /\ \A q \in Proc \ {p} : pc'[q] = pc[q] /\ lv'[q] = lv[q]
        BY <1>0, <1>16, <3>2 DEF WriteFresh, Goto, ProcsTyped
      <4>2. QED
        BY <1>0, <2>5, <2>6, <4>1 DEF HandlerSound, NeedsApproval, NeedsCode, HoldsFiles,
           KnowsRow, PlainLabels
    <3>3. CASE lv[p].patch \in {"park", "gate", "unverified", "pushFailed", "done"}
      <4>1. Return(p)
        BY <1>16, <3>3 DEF WriteFresh
      <4>2. QED
        BY <1>0, <4>1, ReturnGoes, GoneIsSound
    <3>4. QED
      BY <2>1, <3>1, <3>2, <3>3 DEF Patches
  <2>8. QED
    BY <2>1, <2>2, <2>3, <2>4, <2>7, SoundCommit DEF Sound, RowSound
<1>17. ASSUME NEW p \in Proc, RetryFresh(p) PROVE Sound'
  <2>1. CASE Throw(p)
    BY <1>17, <2>1, ReturnSound DEF RetryFresh
  <2>2. CASE Goto(p, "read") /\ lv' = [lv EXCEPT ![p].retry = @ + 1]
    <3>1. /\ pc' = [pc EXCEPT ![p] = "read"] /\ UNCHANGED row /\ pc[p] = "write"
          /\ lv' = [lv EXCEPT ![p] = [lv[p] EXCEPT !.retry = @ + 1]]
      BY <1>0, <1>17, <2>2 DEF RetryFresh, Goto, ProcsTyped
    <3>2. /\ pc'[p] = "read" /\ lv'[p].ver = lv[p].ver /\ lv'[p].patch = lv[p].patch
          /\ lv'[p].files = lv[p].files
      BY <1>0, <3>1 DEF Locals, ProcsTyped
    <3>3. HandlerSound(p)'
      BY <3>1, <3>2 DEF Sound, HandlerSound, NeedsApproval, NeedsCode, HoldsFiles, KnowsRow,
         PlainLabels
    <3>4. QED
      BY <3>1, <3>3, MoveSound
  <2>3. QED
    BY <1>17, <2>1, <2>2 DEF RetryFresh
<1>18. ASSUME NEW p \in Proc, BeginRun(p) PROVE Sound'
  <2>1. CASE Throw(p)
    BY <1>18, <2>1, ReturnSound DEF BeginRun
  <2>2. CASE SpecApproved /\ Goto(p, "produce") /\ UNCHANGED lv
    <3>1. /\ pc'[p] = "produce" /\ lv'[p] = lv[p] /\ row.approval # None /\ UNCHANGED row
          /\ \A q \in Proc \ {p} : pc'[q] = pc[q] /\ lv'[q] = lv[q]
      BY <1>0, <1>18, <2>2 DEF BeginRun, Goto, ProcsTyped, SpecApproved
    <3>2. HandlerSound(p)' /\ {p} \in SUBSET Proc
      BY <3>1 DEF Sound, HandlerSound, NeedsApproval, NeedsCode, HoldsFiles, KnowsRow,
         PlainLabels
    <3>3. QED
      BY <3>1, <3>2, SoundUntouched
  <2>3. QED
    BY <1>18, <2>1, <2>2 DEF BeginRun
<1>19. ASSUME NEW p \in Proc, Produce(p) PROVE Sound'
  <2>1. /\ pc[p] = "produce" /\ UNCHANGED row /\ row.approval # None
        /\ lv[p].ver <= row.version
    BY <1>19 DEF Produce, Sound, HandlerSound, NeedsApproval
  <2>2. ASSUME NEW candidate \in Codes, NEW patch \in {"code", "park"},
               pc' = [pc EXCEPT ![p] = "read"],
               lv' = [lv EXCEPT ![p].files = candidate, ![p].patch = patch]
        PROVE  Sound'
    <3>1. lv' = [lv EXCEPT ![p] = [lv[p] EXCEPT !.files = candidate, !.patch = patch]]
      BY <1>0, <2>2 DEF ProcsTyped
    <3>2. /\ pc'[p] = "read" /\ lv'[p].ver = lv[p].ver /\ lv'[p].patch = patch
          /\ lv'[p].files = candidate /\ candidate # None
      BY <1>0, <2>2, <3>1, NoneIsFresh DEF Locals, ProcsTyped
    <3>3. HandlerSound(p)'
      BY <2>1, <3>2 DEF HandlerSound, NeedsApproval, NeedsCode, HoldsFiles, KnowsRow,
         PlainLabels
    <3>4. QED
      BY <2>1, <2>2, <3>1, <3>3, MoveSound
  <2>3. CASE lv' = [lv EXCEPT ![p].iter = @ + 1] /\ UNCHANGED pc
    <3>1. /\ pc'[p] = "produce" /\ lv'[p].ver = lv[p].ver
          /\ \A q \in Proc \ {p} : pc'[q] = pc[q] /\ lv'[q] = lv[q]
      BY <1>0, <2>1, <2>3 DEF Locals, ProcsTyped
    <3>2. HandlerSound(p)' /\ {p} \in SUBSET Proc
      BY <2>1, <3>1 DEF HandlerSound, NeedsApproval, NeedsCode, HoldsFiles, KnowsRow,
         PlainLabels
    <3>3. QED
      BY <2>1, <3>1, <3>2, SoundUntouched
  <2>4. QED
    BY <1>19, <2>2, <2>3 DEF Produce
<1>20. ASSUME NEW p \in Proc, AgentFails(p) PROVE Sound'
  BY <1>20, ReturnSound DEF AgentFails
<1>21. ASSUME NEW p \in Proc, CatchRead(p) PROVE Sound'
  <2>1. CASE row.status = "building"
    <3>1. /\ pc' = [pc EXCEPT ![p] = "fail"] /\ UNCHANGED row
          /\ lv' = [lv EXCEPT ![p] = [lv[p] EXCEPT !.ver = row.version]]
      BY <1>0, <1>21, <2>1 DEF CatchRead, Goto, ProcsTyped
    <3>2. pc'[p] = "fail" /\ lv'[p].ver = row.version
      BY <1>0, <3>1 DEF Locals, ProcsTyped
    <3>3. HandlerSound(p)'
      BY <1>0, <2>1, <3>1, <3>2 DEF HandlerSound, NeedsApproval, NeedsCode, HoldsFiles, KnowsRow
    <3>4. QED
      BY <3>1, <3>3, MoveSound
  <2>2. CASE row.status # "building"
    <3>1. /\ pc'[p] = "idle" /\ lv'[p] = lv[p] /\ UNCHANGED row
          /\ \A q \in Proc \ {p} : pc'[q] = pc[q] /\ lv'[q] = lv[q]
      BY <1>0, <1>21, <2>2 DEF CatchRead, Goto, ProcsTyped
    <3>2. HandlerSound(p)' /\ {p} \in SUBSET Proc
      BY <3>1 DEF Sound, HandlerSound, NeedsApproval, NeedsCode, HoldsFiles, KnowsRow,
         PlainLabels
    <3>3. QED
      BY <3>1, <3>2, SoundUntouched
  <2>3. QED
    BY <2>1, <2>2
<1>22. ASSUME NEW p \in Proc, FailRun(p) PROVE Sound'
  <2> DEFINE r == [row EXCEPT !.status = "failed"]
  <2>1. Commit(p, r) /\ Return(p) /\ r \in Rows
    BY <1>0, <1>22, RowWith DEF FailRun, Statuses
  <2>2. r.approval = row.approval /\ r.spec = row.spec /\ r.code = row.code /\ r.status = "failed"
    BY <1>0 DEF Rows
  <2>3. QED
    BY <2>1, <2>2, ReturnFromWriteSound
<1>23. ASSUME NEW p \in Proc, WriteDocs(p) PROVE Sound'
  <2>1. /\ pc[p] = "docs" /\ UNCHANGED row /\ row.approval # None /\ row.code # None
        /\ lv[p].files # None /\ lv[p].ver <= row.version
    BY <1>23 DEF WriteDocs, Sound, HandlerSound, NeedsApproval, NeedsCode, HoldsFiles
  <2>2. CASE Goto(p, "trace") /\ UNCHANGED lv
    <3>1. /\ pc'[p] = "trace" /\ lv'[p] = lv[p]
          /\ \A q \in Proc \ {p} : pc'[q] = pc[q] /\ lv'[q] = lv[q]
      BY <1>0, <2>2 DEF Goto, ProcsTyped
    <3>2. HandlerSound(p)' /\ {p} \in SUBSET Proc
      BY <2>1, <3>1 DEF HandlerSound, NeedsApproval, NeedsCode, HoldsFiles, KnowsRow,
         PlainLabels
    <3>3. QED
      BY <2>1, <3>1, <3>2, SoundUntouched
  <2>3. ASSUME NEW bundled \in Codes, pc' = [pc EXCEPT ![p] = "read"],
               lv' = [lv EXCEPT ![p].files = bundled, ![p].patch = "readme", ![p].retry = 0]
        PROVE  Sound'
    <3>1. lv' = [lv EXCEPT ![p] = [lv[p] EXCEPT !.files = bundled, !.patch = "readme",
                                                !.retry = 0]]
      BY <1>0, <2>3 DEF ProcsTyped
    <3>2. /\ pc'[p] = "read" /\ lv'[p].ver = lv[p].ver /\ lv'[p].patch = "readme"
          /\ lv'[p].files = bundled /\ bundled # None
      BY <1>0, <2>3, <3>1, NoneIsFresh DEF Locals, ProcsTyped
    <3>3. HandlerSound(p)'
      BY <2>1, <3>2 DEF HandlerSound, NeedsApproval, NeedsCode, HoldsFiles, KnowsRow,
         PlainLabels
    <3>4. QED
      BY <2>1, <2>3, <3>1, <3>3, MoveSound
  <2>4. QED
    BY <1>23, <2>2, <2>3 DEF WriteDocs
<1>24. ASSUME NEW p \in Proc, Trace(p) PROVE Sound'
  <2>1. UNCHANGED row /\ row.approval # None /\ row.code # None /\ lv[p].files # None
    BY <1>24 DEF Trace, Sound, HandlerSound, NeedsApproval, NeedsCode, HoldsFiles
  <2>2. Resilient(p, "verified") \/ Resilient(p, "unverified")
    BY <1>24 DEF Trace
  <2>3. QED
    BY <2>1, <2>2, ResilientSound DEF Patches
<1>25. ASSUME NEW p \in Proc, PinDelivery(p) PROVE Sound'
  <2>1. /\ UNCHANGED row /\ row.approval # None /\ row.code # None /\ lv[p].ver <= row.version
    BY <1>25 DEF PinDelivery, Sound, HandlerSound, NeedsApproval, NeedsCode
  <2>2. PICK d : /\ pc' = [pc EXCEPT ![p] = "read"]
                 /\ lv' = [lv EXCEPT ![p].delivery = d, ![p].patch = "gate", ![p].retry = 0]
    BY <1>25 DEF PinDelivery
  <2>3. lv' = [lv EXCEPT ![p] = [lv[p] EXCEPT !.delivery = d, !.patch = "gate", !.retry = 0]]
    BY <1>0, <2>2 DEF ProcsTyped
  <2>4. pc'[p] = "read" /\ lv'[p].ver = lv[p].ver /\ lv'[p].patch = "gate"
    BY <1>0, <2>2, <2>3 DEF Locals, ProcsTyped
  <2>5. HandlerSound(p)'
    BY <2>1, <2>4 DEF HandlerSound, NeedsApproval, NeedsCode, HoldsFiles, KnowsRow, PlainLabels
  <2>6. QED
    BY <2>1, <2>2, <2>3, <2>5, MoveSound
<1>26. ASSUME NEW p \in Proc, CancelWrite(p) PROVE Sound'
  <2> DEFINE r == [row EXCEPT !.status = "cancelled"]
  <2>1. Commit(p, r) /\ Return(p) /\ r \in Rows
    BY <1>0, <1>26, RowWith DEF CancelWrite, Statuses
  <2>2. r.approval = row.approval /\ r.spec = row.spec /\ r.code = row.code /\ r.status = "cancelled"
    BY <1>0 DEF Rows
  <2>3. QED
    BY <2>1, <2>2, ReturnFromWriteSound
<1>27. ASSUME NEW p \in Proc, ReopenSpec(p) PROVE Sound'
  <2> DEFINE r == [row EXCEPT !.status = "awaiting_spec_approval"]
  <2>1. Commit(p, r) /\ Return(p) /\ r \in Rows
    BY <1>0, <1>27, RowWith DEF ReopenSpec, Statuses
  <2>2. /\ r.approval = row.approval /\ r.spec = row.spec /\ r.code = row.code
        /\ r.status = "awaiting_spec_approval"
    BY <1>0 DEF Rows
  <2>3. QED
    BY <2>1, <2>2, ReturnFromWriteSound
<1>28. ASSUME NEW p \in Proc, VersionConflict(p) PROVE Sound'
  BY <1>28, ReturnSound DEF VersionConflict
<1>29. ASSUME NEW p \in Proc, MintPush(p) PROVE Sound'
  <2>1. CASE Return(p)
    BY <1>29, <2>1, ReturnSound DEF MintPush
  <2>2. CASE /\ PushApproved /\ Goto(p, "dest")
             /\ lv' = [lv EXCEPT ![p].files = row.code, ![p].to = row.delivery]
    <3>1. /\ UNCHANGED row /\ row.code # None /\ row.approval # None
          /\ lv[p].ver <= row.version
      BY <1>29, <2>2 DEF MintPush, PushApproved, Sound, RowSound, HandlerSound
    <3>2. /\ lv' = [lv EXCEPT ![p] = [lv[p] EXCEPT !.files = row.code, !.to = row.delivery]]
          /\ pc' = [pc EXCEPT ![p] = "dest"]
      BY <1>0, <2>2 DEF Goto, ProcsTyped
    <3>3. pc'[p] = "dest" /\ lv'[p].ver = lv[p].ver
      BY <1>0, <3>2 DEF Locals, ProcsTyped
    <3>4. HandlerSound(p)'
      BY <3>1, <3>3 DEF HandlerSound, NeedsApproval, NeedsCode, HoldsFiles, KnowsRow,
         PlainLabels
    <3>5. QED
      BY <3>1, <3>2, <3>4, MoveSound
  <2>3. QED
    BY <1>29, <2>1, <2>2 DEF MintPush
<1>30. ASSUME NEW p \in Proc, Destination(p) PROVE Sound'
  <2>1. UNCHANGED row /\ row.approval # None /\ row.code # None /\ lv[p].ver <= row.version
    BY <1>30 DEF Destination, Sound, HandlerSound, NeedsApproval, NeedsCode
  <2>2. /\ \/ pc'[p] = "createRepo"
           \/ pc'[p] = "read" /\ lv'[p].patch = "pushFailed"
        /\ lv'[p].ver = lv[p].ver
        /\ \A q \in Proc \ {p} : pc'[q] = pc[q] /\ lv'[q] = lv[q]
    BY <1>0, <1>30 DEF Destination, Goto, Locals, ProcsTyped
  <2>3. HandlerSound(p)' /\ {p} \in SUBSET Proc
    BY <2>1, <2>2 DEF HandlerSound, NeedsApproval, NeedsCode, HoldsFiles, KnowsRow, PlainLabels
  <2>4. QED
    BY <2>1, <2>2, <2>3, SoundUntouched
<1>31. ASSUME NEW p \in Proc, CreateRepo(p) PROVE Sound'
  <2>1. UNCHANGED row /\ row.approval # None /\ row.code # None /\ lv[p].ver <= row.version
    BY <1>31 DEF CreateRepo, Sound, HandlerSound, NeedsApproval, NeedsCode
  <2>2. /\ pc'[p] = "pushFiles" /\ lv'[p] = lv[p]
        /\ \A q \in Proc \ {p} : pc'[q] = pc[q] /\ lv'[q] = lv[q]
    BY <1>0, <1>31 DEF CreateRepo, Goto, ProcsTyped
  <2>3. HandlerSound(p)' /\ {p} \in SUBSET Proc
    BY <2>1, <2>2 DEF HandlerSound, NeedsApproval, NeedsCode, HoldsFiles, KnowsRow, PlainLabels
  <2>4. QED
    BY <2>1, <2>2, <2>3, SoundUntouched
<1>32. ASSUME NEW p \in Proc, PushFiles(p) PROVE Sound'
  <2>1. UNCHANGED row /\ row.approval # None /\ row.code # None /\ Resilient(p, "done")
    BY <1>32 DEF PushFiles, Sound, HandlerSound, NeedsApproval, NeedsCode
  <2>2. QED
    BY <2>1, ResilientSound DEF Patches
<1>33. ASSUME NEW p \in Proc, PushFails(p) PROVE Sound'
  <2>1. UNCHANGED row /\ row.approval # None /\ row.code # None /\ Resilient(p, "pushFailed")
    BY <1>33 DEF PushFails, Sound, HandlerSound, NeedsApproval, NeedsCode
  <2>2. QED
    BY <2>1, ResilientSound DEF Patches
<1>34. ASSUME NEW p \in Proc, AppendTurn(p) PROVE Sound'
  BY <1>0, <1>34, ReturnFromWriteSound DEF AppendTurn, Sound, RowSound
<1>35. ASSUME NEW p \in Proc, ReReadTurn(p) PROVE Sound'
  <2>1. CASE Return(p)
    BY <1>35, <2>1, ReturnSound DEF ReReadTurn
  <2>2. CASE /\ lv' = [lv EXCEPT ![p].ver = row.version, ![p].retry = 1]
             /\ UNCHANGED pc
    <3>1. /\ UNCHANGED row /\ pc'[p] = "chat" /\ lv'[p].ver = row.version
          /\ \A q \in Proc \ {p} : pc'[q] = pc[q] /\ lv'[q] = lv[q]
      BY <1>0, <1>35, <2>2 DEF ReReadTurn, Locals, ProcsTyped
    <3>2. HandlerSound(p)' /\ {p} \in SUBSET Proc
      BY <1>0, <3>1 DEF HandlerSound, NeedsApproval, NeedsCode, HoldsFiles, KnowsRow,
         PlainLabels
    <3>3. QED
      BY <3>1, <3>2, SoundUntouched
  <2>3. QED
    BY <1>35, <2>1, <2>2 DEF ReReadTurn
<1>36. CASE EvictBound
  BY <1>36 DEF EvictBound, Sound, RowSound, HandlerSound, NeedsApproval, NeedsCode, HoldsFiles,
     KnowsRow
<1>37. CASE Crash
  <2>1. UNCHANGED row /\ \A q \in Proc : pc'[q] = "idle" /\ lv'[q] = NoLocals
    BY <1>37 DEF Crash
  <2>2. \A q \in Proc : HandlerSound(q)'
    BY <1>0, <2>1, GoneIsSound
  <2>3. QED
    BY <2>1, <2>2 DEF Sound, RowSound
<1>38. CASE UNCHANGED vars
  BY <1>38 DEF vars, Sound, RowSound, HandlerSound, NeedsApproval, NeedsCode, HoldsFiles,
     KnowsRow
<1>39. QED
  BY <1>1, <1>2, <1>3, <1>4, <1>5, <1>6, <1>7, <1>8, <1>9, <1>10, <1>11, <1>12,
     <1>13, <1>14, <1>15, <1>16, <1>17, <1>18, <1>19, <1>20, <1>21, <1>22, <1>23,
     <1>24, <1>25, <1>26, <1>27, <1>28, <1>29, <1>30, <1>31, <1>32, <1>33, <1>34,
     <1>35, <1>36, <1>37, <1>38
     DEF Next, Request, Continue

LEMMA SoundInit == Init => Sound
  BY ProcsDisjoint DEF Init, Sound, RowSound, HandlerSound, NeedsApproval, NeedsCode,
     HoldsFiles, KnowsRow, PlainLabels, NoRow, NoLocals

LEMMA SoundInvariant == Spec => []Sound
  BY TypeInvariant, GateInvariant, SoundInit, SoundStep, PTL DEF Spec

-----------------------------------------------------------------------------
(* Code needs an approval, and a cancel is final                           *)

\* Gate 1: however handlers, restarts and recoveries interleave, no code exists and Proto
\* never runs before a human approved the very spec the session carries.
THEOREM CodeIsApproved == Spec => []CodeNeedsApproval
<1>1. Sound => CodeNeedsApproval
  BY DEF Sound, RowSound, HandlerSound, NeedsApproval, CodeNeedsApproval
<1>2. QED
  BY <1>1, SoundInvariant, PTL

\* Who writes the row: the request that creates it, a chat turn, and a handler at one of
\* its write labels, at the version it read.
LEMMA RowWriters ==
  ASSUME [Next]_vars, row' # row
  PROVE  \E p \in Proc :
           \/ Start(p)
           \/ AppendTurn(p)
           \/ pc[p] \in PlainLabels \cup {"write"} /\ lv[p].ver = row.version
<1>1. PICK p \in Proc : Request(p) \/ Continue(p)
  BY DEF Next, EvictBound, Crash, vars
<1>2. CASE Request(p)
  BY <1>2 DEF Request, Approve, Run, Cancel, ResolveSpec, Plain, Reverify, Confirm, Chat
<1>3. ASSUME pc[p] \notin PlainLabels \cup {"write"}, ~AppendTurn(p), Continue(p)
      PROVE  row' = row
  BY <1>3 DEF Continue, SeedSpec, DraftSpec, DraftFails, MintApproval, OpenBuild, KickRun,
     ReadFresh, WriteFresh, RetryFresh, BeginRun, Produce, AgentFails, CatchRead, FailRun,
     WriteDocs, Trace, PinDelivery, CancelWrite, ReopenSpec, VersionConflict, MintPush,
     Destination, CreateRepo, PushFiles, PushFails, ReReadTurn, PlainLabels
<1>4. ASSUME pc[p] \in PlainLabels \cup {"write"}, ~AppendTurn(p), Continue(p)
      PROVE  lv[p].ver = row.version
  BY <1>4 DEF Continue, SeedSpec, DraftSpec, DraftFails, MintApproval, OpenBuild, KickRun,
     ReadFresh, WriteFresh, RetryFresh, BeginRun, Produce, AgentFails, CatchRead, FailRun,
     WriteDocs, Trace, PinDelivery, CancelWrite, ReopenSpec, VersionConflict, MintPush,
     Destination, CreateRepo, PushFiles, PushFails, ReReadTurn, PlainLabels, Commit
<1>5. QED
  BY <1>1, <1>2, <1>3, <1>4

\* A step from a cancelled row leaves it cancelled: a writer at the row's own version
\* would know that nobody cancelled it.
LEMMA CancelStep ==
  ASSUME TypeInv, Sound, [Next]_vars, row.status = "cancelled"
  PROVE  row'.status = "cancelled"
<1>1. SUFFICES ASSUME row' # row PROVE row'.status = "cancelled"
  OBVIOUS
<1>2. PICK p \in Proc :
        \/ Start(p)
        \/ AppendTurn(p)
        \/ pc[p] \in PlainLabels \cup {"write"} /\ lv[p].ver = row.version
  BY <1>1, RowWriters
<1>3. ~Start(p)
  BY DEF Start
<1>4. ~(pc[p] \in PlainLabels \cup {"write"} /\ lv[p].ver = row.version)
  BY DEF Sound, HandlerSound, KnowsRow
<1>5. row \in Rows
  BY DEF TypeInv, RowTyped
<1>6. QED
  BY <1>2, <1>3, <1>4, <1>5, CommitColumns DEF AppendTurn

\* A cancelled session is never resurrected, whoever was at work when it was cancelled.
THEOREM CancelIsFinal == Spec => CancelledIsFinal
<1>1. TypeInv /\ Sound /\ [Next]_vars => [row.status = "cancelled" => row'.status = "cancelled"]_vars
  BY CancelStep
<1>2. QED
  BY <1>1, TypeInvariant, SoundInvariant, PTL DEF Spec, CancelledIsFinal

-----------------------------------------------------------------------------
(* The handlers implement the gates                                        *)

ConfirmLabels == {"dest", "createRepo", "pushFiles"}

\* The file sets of the outstanding ApprovedPush capabilities.
Held == {lv[p].files : p \in Confirmed}

\* What moves no gate, moves no gate of the abstract specification.
LEMMA GatesStutter ==
  ASSUME row'.approval = row.approval, row'.code = row.code, row'.token = row.token,
         UNCHANGED <<passed, pushes>>, Held' = Held
  PROVE  UNCHANGED Gates!gates
  BY DEF Gates!gates, Held

LEMMA GatesDrop ==
  ASSUME row'.approval = row.approval, row'.code = row.code, row'.token = row.token,
         UNCHANGED <<passed, pushes>>, Held' \subseteq Held
  PROVE  Gates!Next
  BY DEF Gates!Next, Gates!DropPush, Held

\* A handler that confirms nothing before and after holds nothing.
LEMMA HeldApart ==
  ASSUME NEW p \in Proc, \A q \in Proc \ {p} : pc'[q] = pc[q] /\ lv'[q] = lv[q],
         pc[p] \notin ConfirmLabels, pc'[p] \notin ConfirmLabels
  PROVE  Held' = Held
  BY DEF Held, Confirmed, ConfirmLabels

\* One that goes on confirming keeps what it holds, one that ends its confirmation
\* drops it.
LEMMA HeldOn ==
  ASSUME NEW p \in Proc, \A q \in Proc \ {p} : pc'[q] = pc[q] /\ lv'[q] = lv[q],
         pc[p] \in ConfirmLabels, pc'[p] \in ConfirmLabels, lv'[p].files = lv[p].files
  PROVE  Held' = Held
  <1>1. Confirmed' = Confirmed
    BY DEF Confirmed, ConfirmLabels
  <1>2. \A q \in Confirmed : lv'[q].files = lv[q].files
    BY DEF Confirmed
  <1>3. QED
    BY <1>1, <1>2 DEF Held

LEMMA HeldDropped ==
  ASSUME NEW p \in Proc, \A q \in Proc \ {p} : pc'[q] = pc[q] /\ lv'[q] = lv[q],
         pc'[p] \notin ConfirmLabels
  PROVE  Held' \subseteq Held
  BY DEF Held, Confirmed, ConfirmLabels

\* The steps that leave the columns of the gates, the tests and GitHub's files alone,
\* and the capabilities too.
LEMMA QuietRequests ==
  ASSUME ProcsTyped, NEW p \in Proc,
         \/ Approve(p) \/ Run(p) \/ Cancel(p) \/ ResolveSpec(p) \/ Reverify(p)
         \/ Confirm(p) \/ Chat(p)
  PROVE  UNCHANGED Gates!gates
<1>1. UNCHANGED <<row, passed, pushes>>
  BY DEF Approve, Run, Cancel, ResolveSpec, Plain, Reverify, Confirm, Chat, github
<1>2. pc[p] = "idle"
  BY DEF Approve, Run, Cancel, ResolveSpec, Plain, Reverify, Confirm, Chat, Issue
<1>3. PICK label \in {"mint", "run", "cancel", "reopen", "docs", "confirm", "chat"} :
        \E l : pc' = [pc EXCEPT ![p] = label] /\ lv' = [lv EXCEPT ![p] = l]
  <2>1. CASE Chat(p)
    <3>1. lv' = [lv EXCEPT ![p] = [lv[p] EXCEPT !.ver = row.version]]
      BY <2>1 DEF Chat, ProcsTyped
    <3>2. QED
      BY <2>1, <3>1 DEF Chat, Goto
  <2>2. CASE Approve(p)
    BY <2>2 DEF Approve, Goto
  <2>3. CASE Run(p)
    BY <2>3 DEF Run, Goto
  <2>4. CASE Cancel(p)
    BY <2>4 DEF Cancel, Plain, Goto
  <2>5. CASE ResolveSpec(p)
    BY <2>5 DEF ResolveSpec, Plain, Goto
  <2>6. CASE Reverify(p)
    BY <2>6 DEF Reverify, Goto
  <2>7. CASE Confirm(p)
    BY <2>7 DEF Confirm, Goto
  <2>8. QED
    BY <2>1, <2>2, <2>3, <2>4, <2>5, <2>6, <2>7
<1>4. /\ pc'[p] = label
      /\ \A q \in Proc \ {p} : pc'[q] = pc[q] /\ lv'[q] = lv[q]
  BY <1>3 DEF ProcsTyped
<1>5. Held' = Held
  BY <1>2, <1>4, HeldApart DEF ConfirmLabels
<1>6. QED
  BY <1>1, <1>5, GatesStutter

\* A handler outside the push gate that returns or throws.
LEMMA QuietReturn ==
  ASSUME ProcsTyped, NEW p \in Proc, Return(p) \/ Throw(p), pc[p] \notin ConfirmLabels,
         row'.approval = row.approval, row'.code = row.code, row'.token = row.token,
         UNCHANGED <<passed, pushes>>
  PROVE  UNCHANGED Gates!gates
  BY ReturnGoes, HeldApart, GatesStutter DEF ConfirmLabels

\* The same of one that goes on to another label of its own.
LEMMA QuietMove ==
  ASSUME NEW p \in Proc, \A q \in Proc \ {p} : pc'[q] = pc[q] /\ lv'[q] = lv[q],
         pc[p] \notin ConfirmLabels, pc'[p] \notin ConfirmLabels,
         row'.approval = row.approval, row'.code = row.code, row'.token = row.token,
         UNCHANGED <<passed, pushes>>
  PROVE  UNCHANGED Gates!gates
  BY HeldApart, GatesStutter

\* One more push is one more file set that GitHub received.
LEMMA FilesOfOneMore ==
  ASSUME NEW S, NEW y
  PROVE  {x.files : x \in S \cup {y}} = {x.files : x \in S} \cup {y.files}
  OBVIOUS

\* Every step of a handler, of the eviction and of a crash is a step of one gate or none.
LEMMA GatesStep ==
  ASSUME TypeInv, GateInv, Sound, [Next]_vars
  PROVE  [Gates!Next]_Gates!gates
<1>0. /\ ProcsTyped /\ row \in Rows /\ \A q \in Proc : lv[q] \in Locals
  BY DEF TypeInv, RowTyped, ProcsTyped
<1>1. ASSUME NEW p \in Proc, Start(p) PROVE UNCHANGED Gates!gates
  <2>1. row.status = "absent" /\ row = NoRow /\ pc[p] = "idle"
    BY <1>1 DEF Start, GateInv, AbsentIsIdle
  <2>2. PICK seeded \in BOOLEAN, d \in Repos \cup {None} :
          /\ row' = [NoRow EXCEPT !.status = "composing", !.delivery = d]
          /\ pc' = [pc EXCEPT ![p] = IF seeded THEN "seed" ELSE "draft"]
    BY <1>1 DEF Start, Goto
  <2>3. row'.approval = row.approval /\ row'.code = row.code /\ row'.token = row.token
    BY <2>1, <2>2 DEF NoRow
  <2>4. /\ pc'[p] \in {"seed", "draft"}
        /\ \A q \in Proc \ {p} : pc'[q] = pc[q] /\ lv'[q] = lv[q]
    BY <1>0, <1>1, <2>2 DEF Start, ProcsTyped
  <2>5. UNCHANGED <<passed, pushes>>
    BY <1>1 DEF Start
  <2>6. QED
    BY <2>1, <2>3, <2>4, <2>5, QuietMove DEF ConfirmLabels
<1>2. ASSUME NEW p \in Proc, Approve(p) \/ Run(p) \/ Cancel(p) \/ ResolveSpec(p)
                               \/ Reverify(p) \/ Confirm(p) \/ Chat(p)
      PROVE  UNCHANGED Gates!gates
  BY <1>0, <1>2, QuietRequests
<1>3. ASSUME NEW p \in Proc, SeedSpec(p) PROVE UNCHANGED Gates!gates
  <2>1. PICK s \in Specs :
          Commit(p, [row EXCEPT !.spec = s, !.status = "awaiting_spec_approval"])
    BY <1>3 DEF SeedSpec
  <2>2. row'.approval = row.approval /\ row'.code = row.code /\ row'.token = row.token
    BY <1>0, <2>1 DEF Commit, Rows
  <2>3. /\ pc[p] = "seed" /\ pc'[p] = "mint" /\ UNCHANGED <<passed, pushes>>
        /\ \A q \in Proc \ {p} : pc'[q] = pc[q] /\ lv'[q] = lv[q]
    BY <1>0, <1>3 DEF SeedSpec, Goto, ProcsTyped, github
  <2>4. QED
    BY <2>2, <2>3, QuietMove DEF ConfirmLabels
<1>4. ASSUME NEW p \in Proc, DraftSpec(p) PROVE UNCHANGED Gates!gates
  <2>1. row'.approval = row.approval /\ row'.code = row.code /\ row'.token = row.token
    BY <1>0, <1>4 DEF DraftSpec, Commit, Rows
  <2>2. pc[p] = "draft" /\ Return(p) /\ UNCHANGED <<passed, pushes>>
    BY <1>4 DEF DraftSpec, ReturnFromStart, github
  <2>3. QED
    BY <1>0, <2>1, <2>2, QuietReturn DEF ConfirmLabels
<1>5. ASSUME NEW p \in Proc, DraftFails(p) \/ AgentFails(p) \/ VersionConflict(p)
      PROVE  UNCHANGED Gates!gates
  <2>1. (Return(p) \/ Throw(p)) /\ UNCHANGED <<row, passed, pushes>>
    BY <1>5 DEF DraftFails, AgentFails, VersionConflict, github
  <2>2. pc[p] \notin ConfirmLabels
    BY <1>5 DEF DraftFails, AgentFails, VersionConflict, ConfirmLabels
  <2>3. QED
    BY <1>0, <2>1, <2>2, QuietReturn
<1>6. ASSUME NEW p \in Proc, MintApproval(p) PROVE Gates!Next
  <2>1. row.spec # None /\ row.spec \in Specs
    BY <1>0, <1>6, RowFields DEF MintApproval, Commit, Sound, HandlerSound, KnowsRow, RowTyped
  <2>2. row'.approval = row.spec /\ row'.code = row.code /\ row'.token = row.token
    BY <1>0, <1>6 DEF MintApproval, Commit, Rows
  <2>3. /\ pc[p] = "mint" /\ pc'[p] = "open" /\ UNCHANGED <<passed, pushes>>
        /\ \A q \in Proc \ {p} : pc'[q] = pc[q] /\ lv'[q] = lv[q]
    BY <1>0, <1>6 DEF MintApproval, Goto, ProcsTyped, github
  <2>4. Held' = Held
    BY <2>3, HeldApart DEF ConfirmLabels
  <2>5. QED
    BY <2>1, <2>2, <2>3, <2>4 DEF Gates!Next, Gates!ApproveSpec, Held
<1>7. ASSUME NEW p \in Proc, OpenBuild(p) PROVE UNCHANGED Gates!gates
  <2>1. row'.approval = row.approval /\ row'.code = row.code /\ row'.token = row.token
    BY <1>0, <1>7 DEF OpenBuild, Commit, Rows
  <2>2. pc[p] = "open" /\ UNCHANGED <<passed, pushes>>
    BY <1>7 DEF OpenBuild, github
  <2>3. CASE Return(p)
    BY <1>0, <2>1, <2>2, <2>3, QuietReturn DEF ConfirmLabels
  <2>4. CASE Goto(p, "kick") /\ UNCHANGED lv
    <3>1. pc'[p] = "kick" /\ \A q \in Proc \ {p} : pc'[q] = pc[q] /\ lv'[q] = lv[q]
      BY <1>0, <2>4 DEF Goto, ProcsTyped
    <3>2. QED
      BY <2>1, <2>2, <3>1, QuietMove DEF ConfirmLabels
  <2>5. QED
    BY <1>7, <2>3, <2>4 DEF OpenBuild
<1>8. ASSUME NEW p \in Proc, KickRun(p) PROVE UNCHANGED Gates!gates
  <2>1. /\ UNCHANGED <<row, passed, pushes>> /\ pc[p] = "kick" /\ pc[Kick] = "idle"
        /\ p # Kick /\ Kick \in Proc
    BY <1>8, KickIsProc DEF KickRun, github
  <2>2. /\ \A q \in Proc \ {p, Kick} : pc'[q] = pc[q] /\ lv'[q] = lv[q]
        /\ pc'[p] = "idle" /\ pc'[Kick] \in {"catch", "run"}
    BY <1>0, <1>8, <2>1 DEF KickRun, ProcsTyped
  <2>3. Confirmed' = Confirmed /\ \A q \in Confirmed : lv'[q].files = lv[q].files
    BY <2>1, <2>2 DEF Confirmed
  <2>4. Held' = Held
    BY <2>3 DEF Held
  <2>5. QED
    BY <2>1, <2>4, GatesStutter
<1>9. ASSUME NEW p \in Proc, ReadFresh(p) \/ RetryFresh(p) \/ BeginRun(p) \/ Produce(p)
                               \/ CatchRead(p) \/ WriteDocs(p) \/ PinDelivery(p)
                               \/ ReReadTurn(p)
      PROVE  UNCHANGED Gates!gates
  <2>1. UNCHANGED <<row, passed, pushes>> /\ pc[p] \notin ConfirmLabels
    BY <1>9 DEF ReadFresh, RetryFresh, BeginRun, Produce, CatchRead, WriteDocs, PinDelivery,
       ReReadTurn, github, ConfirmLabels
  <2>2. /\ pc'[p] \notin ConfirmLabels
        /\ \A q \in Proc \ {p} : pc'[q] = pc[q] /\ lv'[q] = lv[q]
    <3>1. CASE ReadFresh(p)
      BY <1>0, <3>1, ReturnGoes DEF ReadFresh, Goto, ProcsTyped, ConfirmLabels
    <3>2. CASE RetryFresh(p)
      BY <1>0, <3>2, ReturnGoes DEF RetryFresh, Goto, ProcsTyped, ConfirmLabels
    <3>3. CASE BeginRun(p)
      BY <1>0, <3>3, ReturnGoes DEF BeginRun, Goto, ProcsTyped, ConfirmLabels
    <3>4. CASE Produce(p)
      BY <1>0, <3>4 DEF Produce, ProcsTyped, ConfirmLabels
    <3>5. CASE CatchRead(p)
      BY <1>0, <3>5 DEF CatchRead, Goto, ProcsTyped, ConfirmLabels
    <3>6. CASE WriteDocs(p)
      BY <1>0, <3>6 DEF WriteDocs, Goto, ProcsTyped, ConfirmLabels
    <3>7. CASE PinDelivery(p)
      BY <1>0, <3>7 DEF PinDelivery, ProcsTyped, ConfirmLabels
    <3>8. CASE ReReadTurn(p)
      BY <1>0, <3>8, ReturnGoes DEF ReReadTurn, ProcsTyped, ConfirmLabels
    <3>9. QED
      BY <1>9, <3>1, <3>2, <3>3, <3>4, <3>5, <3>6, <3>7, <3>8
  <2>3. QED
    BY <2>1, <2>2, QuietMove
<1>10. ASSUME NEW p \in Proc, WriteFresh(p) PROVE [Gates!Next]_Gates!gates
  <2> DEFINE r == Patched(lv[p])
  <2>1. /\ Commit(p, r) /\ pc[p] = "write" /\ r \in Rows /\ UNCHANGED <<passed, pushes>>
        /\ lv[p].patch \in Patches \ {"none"} /\ lv[p].files \in Codes \cup {None}
    BY <1>0, <1>10, PatchedTyped, LocalFields DEF WriteFresh, TypeInv, ProcsTyped, PatchInHand,
       github
  <2>2. row'.approval = r.approval /\ row'.code = r.code /\ row'.token = r.token
    BY <2>1, CommitColumns
  <2>3. /\ pc'[p] \notin ConfirmLabels
        /\ \A q \in Proc \ {p} : pc'[q] = pc[q] /\ lv'[q] = lv[q]
    <3>1. CASE lv[p].patch \in {"code", "readme"}
      BY <1>0, <1>10, <3>1 DEF WriteFresh, Goto, ProcsTyped, ConfirmLabels
    <3>2. CASE lv[p].patch = "verified"
      BY <1>0, <1>10, <3>2 DEF WriteFresh, Goto, ProcsTyped, ConfirmLabels
    <3>3. CASE lv[p].patch \in {"park", "gate", "unverified", "pushFailed", "done"}
      <4>1. Return(p)
        BY <1>10, <3>3 DEF WriteFresh
      <4>2. QED
        BY <1>0, <4>1, ReturnGoes DEF ConfirmLabels
    <3>4. QED
      BY <2>1, <3>1, <3>2, <3>3 DEF Patches
  <2>4. Held' = Held
    BY <2>1, <2>3, HeldApart DEF ConfirmLabels
  <2>5. CASE lv[p].patch \in {"code", "readme", "park"}
    <3>1. r.approval = row.approval /\ r.code = lv[p].files /\ r.token = row.token
      BY <1>0, <2>5 DEF Patched, Rows
    <3>2. row.approval # None /\ lv[p].files \in Codes
      BY <2>1, <2>5 DEF Sound, HandlerSound, NeedsApproval, HoldsFiles
    <3>3. QED
      BY <2>1, <2>2, <2>4, <3>1, <3>2 DEF Gates!Next, Gates!WriteCode, Held
  <2>6. CASE lv[p].patch = "verified"
    <3>1. r.approval = row.approval /\ r.code = row.code /\ r.token = lv[p].files
      BY <1>0, <2>6 DEF Patched, Rows
    <3>2. lv[p].files \in passed
      BY <2>1, <2>6 DEF GateInv, HandlerGated, NeedsPass
    <3>3. QED
      BY <2>1, <2>2, <2>4, <3>1, <3>2 DEF Gates!Next, Gates!RecordToken, Held
  <2>7. CASE lv[p].patch \in {"unverified", "gate", "pushFailed", "done"}
    <3>1. r.approval = row.approval /\ r.code = row.code /\ r.token = row.token
      BY <1>0, <2>7 DEF Patched, Rows
    <3>2. UNCHANGED Gates!gates
      BY <2>1, <2>2, <2>4, <3>1, GatesStutter
    <3>3. QED
      BY <3>2
  <2>8. QED
    BY <2>1, <2>5, <2>6, <2>7 DEF Patches
<1>11. ASSUME NEW p \in Proc, FailRun(p) \/ CancelWrite(p) \/ ReopenSpec(p) \/ AppendTurn(p)
       PROVE  UNCHANGED Gates!gates
  <2>1. row'.approval = row.approval /\ row'.code = row.code /\ row'.token = row.token
    BY <1>0, <1>11 DEF FailRun, CancelWrite, ReopenSpec, AppendTurn, Commit, Rows
  <2>2. Return(p) /\ UNCHANGED <<passed, pushes>> /\ pc[p] \notin ConfirmLabels
    BY <1>11 DEF FailRun, CancelWrite, ReopenSpec, AppendTurn, github, ConfirmLabels
  <2>3. QED
    BY <1>0, <2>1, <2>2, QuietReturn
<1>12. ASSUME NEW p \in Proc, Trace(p) PROVE [Gates!Next]_Gates!gates
  <2>1. /\ UNCHANGED <<row, pushes>> /\ pc[p] = "trace" /\ pc'[p] = "read"
        /\ \A q \in Proc \ {p} : pc'[q] = pc[q] /\ lv'[q] = lv[q]
    BY <1>0, <1>12, ResilientMoves DEF Trace, Patches, github
  <2>2. Held' = Held
    BY <2>1, HeldApart DEF ConfirmLabels
  <2>3. row.approval # None /\ lv[p].files \in Codes
    BY <1>0, <2>1, LocalFields DEF Sound, HandlerSound, NeedsApproval, HoldsFiles
  <2>4. CASE UNCHANGED passed
    <3>1. UNCHANGED Gates!gates
      BY <2>1, <2>2, <2>4, GatesStutter
    <3>2. QED
      BY <3>1
  <2>5. CASE passed' = passed \cup {lv[p].files}
    BY <2>1, <2>2, <2>3, <2>5 DEF Gates!Next, Gates!PassTests, Held
  <2>6. QED
    BY <1>12, <2>4, <2>5 DEF Trace
<1>13. ASSUME NEW p \in Proc, MintPush(p) PROVE [Gates!Next]_Gates!gates
  <2>1. UNCHANGED <<row, passed, pushes>> /\ pc[p] = "confirm"
    BY <1>13 DEF MintPush, github
  <2>2. CASE Return(p)
    <3>1. UNCHANGED Gates!gates
      BY <1>0, <2>1, <2>2, QuietReturn DEF ConfirmLabels
    <3>2. QED
      BY <3>1
  <2>3. CASE /\ PushApproved /\ Goto(p, "dest")
             /\ lv' = [lv EXCEPT ![p].files = row.code, ![p].to = row.delivery]
    <3>1. /\ pc'[p] = "dest" /\ lv'[p].files = row.code
          /\ \A q \in Proc \ {p} : pc'[q] = pc[q] /\ lv'[q] = lv[q]
      BY <1>0, <2>3 DEF Goto, ProcsTyped, Locals
    <3>2. Confirmed' = Confirmed \cup {p} /\ p \notin Confirmed
      BY <2>1, <3>1 DEF Confirmed
    <3>3. \A q \in Confirmed : lv'[q].files = lv[q].files
      BY <3>1, <3>2 DEF Confirmed
    <3>4. Held' = Held \cup {row.code}
      BY <3>1, <3>2, <3>3 DEF Held
    <3>5. row.token # None /\ row.token = row.code
      BY <2>3 DEF PushApproved
    <3>6. QED
      BY <2>1, <3>4, <3>5 DEF Gates!Next, Gates!MintPush, Held
  <2>4. QED
    BY <1>13, <2>2, <2>3 DEF MintPush
<1>14. ASSUME NEW p \in Proc, Destination(p) \/ CreateRepo(p) PROVE [Gates!Next]_Gates!gates
  <2>1. /\ UNCHANGED <<row, passed, pushes>> /\ pc[p] \in ConfirmLabels
        /\ lv'[p].files = lv[p].files
        /\ \A q \in Proc \ {p} : pc'[q] = pc[q] /\ lv'[q] = lv[q]
    <3>1. CASE Destination(p)
      BY <1>0, <3>1 DEF Destination, Goto, ProcsTyped, Locals, github, ConfirmLabels
    <3>2. CASE CreateRepo(p)
      BY <1>0, <3>2 DEF CreateRepo, MakeRepo, Goto, ProcsTyped, ConfirmLabels
    <3>3. QED
      BY <1>14, <3>1, <3>2
  <2>2. CASE pc'[p] \in ConfirmLabels
    <3>1. UNCHANGED Gates!gates
      BY <2>1, <2>2, HeldOn, GatesStutter
    <3>2. QED
      BY <3>1
  <2>3. CASE pc'[p] \notin ConfirmLabels
    BY <2>1, <2>3, HeldDropped, GatesDrop
  <2>4. QED
    BY <2>2, <2>3
<1>15. ASSUME NEW p \in Proc, PushFiles(p) \/ PushFails(p) PROVE Gates!Next
  <2>1. /\ UNCHANGED <<row, passed>> /\ pc[p] \in ConfirmLabels /\ pc'[p] = "read"
        /\ \A q \in Proc \ {p} : pc'[q] = pc[q] /\ lv'[q] = lv[q]
    BY <1>0, <1>15, ResilientMoves DEF PushFiles, PushFails, Patches, ConfirmLabels
  <2>2. Held' \subseteq Held
    BY <2>1, HeldDropped DEF ConfirmLabels
  <2>3. pushes' = pushes \/ SendFiles(p)
    BY <1>15 DEF PushFiles, PushFails, MakeRepo, github
  <2>4. CASE pushes' = pushes
    BY <2>1, <2>2, <2>4, GatesDrop
  <2>5. CASE SendFiles(p)
    <3>1. lv[p].files \in Held
      BY <2>1 DEF Held, Confirmed, ConfirmLabels
    <3>2. {x.files : x \in pushes'} = {x.files : x \in pushes} \cup {lv[p].files}
      <4> DEFINE y == [files |-> lv[p].files, to |-> lv[p].to]
      <4>1. pushes' = pushes \cup {y}
        BY <2>5 DEF SendFiles
      <4>2. y.files = lv[p].files
        OBVIOUS
      <4> HIDE DEF y
      <4>3. QED
        BY <4>1, <4>2, FilesOfOneMore
    <3>3. QED
      BY <2>1, <2>2, <3>1, <3>2 DEF Gates!Next, Gates!Push, Held
  <2>6. QED
    BY <2>3, <2>4, <2>5
<1>16. CASE EvictBound
  BY <1>16 DEF EvictBound, Gates!gates, Confirmed, github
<1>17. CASE Crash
  <2>1. UNCHANGED <<row, passed, pushes>> /\ \A q \in Proc : pc'[q] = "idle"
    BY <1>17 DEF Crash, github
  <2>2. Held' \subseteq Held
    BY <2>1 DEF Held, Confirmed
  <2>3. QED
    BY <2>1, <2>2, GatesDrop
<1>18. CASE UNCHANGED vars
  BY <1>18 DEF vars, Gates!gates, Confirmed
<1>19. QED
  BY <1>1, <1>2, <1>3, <1>4, <1>5, <1>6, <1>7, <1>8, <1>9, <1>10, <1>11, <1>12, <1>13,
     <1>14, <1>15, <1>16, <1>17, <1>18
     DEF Next, Request, Continue

LEMMA GatesInit == Init => Gates!Init
  BY DEF Init, Gates!Init, NoRow, Confirmed

\* The handlers, the resilient writes, the recoveries and the crashes together implement
\* the four gates: nothing they do, in whatever order, is more than one gate step.
THEOREM GatesAreImplemented == Spec => ImplementsGates
<1>1. TypeInv /\ GateInv /\ Sound /\ [Next]_vars => [Gates!Next]_Gates!gates
  BY GatesStep
<1>2. QED
  BY <1>1, GatesInit, TypeInvariant, GateInvariant, SoundInvariant, PTL
     DEF Spec, ImplementsGates, Gates!Spec

-----------------------------------------------------------------------------
(* Delivery, as long as the session is built by one handler at a time      *)
(*                                                                         *)
(* Nothing in the code keeps two recoveries of a session apart, and then   *)
(* the slower one writes over what the faster one delivered.  That is all  *)
(* it takes: whenever the handlers that produce and verify files do not    *)
(* overlap, the row at the push gate and past it stays as it was tested,   *)
(* whatever requests, confirmations, cancels, chat turns and restarts come *)
(* in between.                                                             *)

Gated == {"awaiting_push_confirm", "push_failed", "done"}
Late  == Gated \cup {"cancelled"}

\* The handlers that produce, verify and store files, and those that deliver them.
Builds(q) ==
  \/ pc[q] \in {"produce", "docs", "trace", "pin"}
  \/ pc[q] \in {"read", "write"} /\ lv[q].patch \notin {"none", "pushFailed", "done"}

Delivers(q) ==
  \/ pc[q] \in ConfirmLabels
  \/ pc[q] \in {"read", "write"} /\ lv[q].patch \in {"pushFailed", "done"}

BuildsApart == \A p, q \in Proc : Builds(p) /\ Builds(q) => p = q

\* A builder works before the gate.  Once its files are stored they are the row's, and so
\* is the delivery it read with them; once they are verified the row's token covers them.
Verifies(q) ==
  \/ pc[q] \in {"docs", "trace", "pin"}
  \/ pc[q] \in {"read", "write"} /\ lv[q].patch \in {"verified", "gate", "unverified"}

BuildHolds(q) ==
  /\ Builds(q) => row.status \notin Gated /\ pushes = {}
  /\ Verifies(q) => /\ lv[q].files = row.code
                    /\ row.delivery # None => lv[q].delivery = row.delivery
  /\ pc[q] = "pin" \/ (pc[q] \in {"read", "write"} /\ lv[q].patch = "gate") =>
       row.token = row.code

\* A confirmation under way has the row's files, and derives no destination when the row
\* has one; the row is still at the gate, or was cancelled.
DeliveryHolds(q) ==
  /\ Delivers(q) \/ pc[q] = "confirm" => lv[q].op = "confirm"
  /\ Delivers(q) => row.status \in Late \ {"done"}
  /\ pc[q] \in ConfirmLabels => lv[q].files = row.code
  /\ pc[q] = "dest" => lv[q].to = row.delivery
  /\ Delivers(q) /\ pc[q] # "dest" /\ lv[q].delivery # None => row.delivery = None

\* A plain write at the row's own version is no surprise to the row.
KnowsStatus(q) ==
  lv[q].ver = row.version =>
    /\ pc[q] \in {"seed", "draft", "mint", "open", "reopen", "fail"} => row.status \notin Late
    /\ pc[q] = "cancel" => row.status # "done"

HandlerAligned(q) == BuildHolds(q) /\ DeliveryHolds(q) /\ KnowsStatus(q)

RowAligned ==
  /\ GateMatchesCode
  /\ pushes # {} => row.status \in Late
  /\ \A x \in pushes : x.files = row.code

Aligned ==
  /\ RowAligned /\ \A q \in Proc : HandlerAligned(q)
  /\ \A p, q \in Proc : ~(Builds(p) /\ Delivers(q))

\* A step that leaves the row and GitHub's files alone: who starts to build does so before
\* the gate, who starts to deliver does so at it.
LEMMA AlignedUntouched ==
  ASSUME Aligned, UNCHANGED <<row, pushes>>, NEW moved \in SUBSET Proc,
         \A q \in Proc \ moved : pc'[q] = pc[q] /\ lv'[q] = lv[q],
         \A q \in moved : HandlerAligned(q)',
         \A q \in moved : /\ Builds(q)' => Builds(q) \/ row.status \notin Late
                          /\ Delivers(q)' => Delivers(q) \/ row.status \in Gated
  PROVE  Aligned'
<1>1. RowAligned'
  BY DEF Aligned, RowAligned, GateMatchesCode
<1>2. ASSUME NEW q \in Proc PROVE HandlerAligned(q)'
  BY <1>2 DEF Aligned, HandlerAligned, BuildHolds, DeliveryHolds, KnowsStatus, Builds,
     Verifies, Delivers
<1>3. \A q \in Proc : /\ Builds(q)' => Builds(q) \/ row.status \notin Late
                      /\ Delivers(q)' => Delivers(q) \/ row.status \in Gated
  BY DEF Builds, Delivers
<1>4. /\ \A q \in Proc : Builds(q) => row.status \notin Gated
      /\ \A q \in Proc : Delivers(q) => row.status \in Late
  BY DEF Aligned, HandlerAligned, BuildHolds, DeliveryHolds
<1>5. \A p, q \in Proc : ~(Builds(p)' /\ Delivers(q)')
  BY <1>3, <1>4 DEF Aligned, Late
<1>6. QED
  BY <1>1, <1>2, <1>5 DEF Aligned

\* The same of one handler that moves on, ...
LEMMA AlignedMove ==
  ASSUME Aligned, UNCHANGED <<row, pushes>>, NEW p \in Proc,
         \A q \in Proc \ {p} : pc'[q] = pc[q] /\ lv'[q] = lv[q],
         HandlerAligned(p)',
         Builds(p)' => Builds(p) \/ row.status \notin Late,
         Delivers(p)' => Delivers(p) \/ row.status \in Gated
  PROVE  Aligned'
<1>1. {p} \in SUBSET Proc
  OBVIOUS
<1>2. QED
  BY <1>1, AlignedUntouched

\* ... and of one that returns, throws or waits, of which nothing is asked.
Resting == {"idle", "catch", "kick", "run", "chat"}

LEMMA RestingIsAligned ==
  ASSUME NEW q, pc'[q] \in Resting
  PROVE  HandlerAligned(q)' /\ ~Builds(q)' /\ ~Delivers(q)'
BY DEF Resting, HandlerAligned, BuildHolds, DeliveryHolds, KnowsStatus, Builds, Verifies,
   Delivers, ConfirmLabels

LEMMA AlignedRest ==
  ASSUME Aligned, UNCHANGED <<row, pushes>>, NEW p \in Proc, pc'[p] \in Resting,
         \A q \in Proc \ {p} : pc'[q] = pc[q] /\ lv'[q] = lv[q]
  PROVE  Aligned'
BY RestingIsAligned, AlignedMove

LEMMA AlignedReturn ==
  ASSUME TypeInv, Aligned, UNCHANGED <<row, pushes>>, NEW p \in Proc, Return(p) \/ Throw(p)
  PROVE  Aligned'
BY ReturnGoes, AlignedRest DEF TypeInv, Resting

\* A commit leaves the other handlers behind the row.
LEMMA AlignedCommit ==
  ASSUME TypeInv, Sound, Aligned, NEW p \in Proc, NEW r \in Rows, Commit(p, r),
         UNCHANGED pushes,
         \A q \in Proc \ {p} : pc'[q] = pc[q] /\ lv'[q] = lv[q],
         HandlerAligned(p)', RowAligned', ~Delivers(p)',
         Builds(p)' => \A q \in Proc : ~Delivers(q),
         \A q \in Proc \ {p} :
           /\ Builds(q) => /\ r.status \notin Gated /\ r.code = row.code
                           /\ r.token = row.token /\ r.delivery = row.delivery
           /\ Delivers(q) => /\ r.status \in Late \ {"done"} /\ r.code = row.code
                             /\ r.delivery = row.delivery
  PROVE  Aligned'
<1>1. /\ row'.status = r.status /\ row'.code = r.code /\ row'.token = r.token
      /\ row'.delivery = r.delivery
  BY CommitColumns
<1>2. row'.version = row.version + 1 /\ row.version \in Nat
  BY RowFields DEF Commit, Rows, TypeInv
<1>3. ASSUME NEW q \in Proc \ {p} PROVE HandlerAligned(q)'
  <2>1. lv[q].ver \in Nat /\ lv[q].ver <= row.version
    BY LocalFields DEF TypeInv, ProcsTyped, Sound, HandlerSound
  <2>2. KnowsStatus(q)'
    BY <1>2, <2>1 DEF KnowsStatus
  <2>3. HandlerAligned(q) /\ (Verifies(q) => Builds(q))
    BY DEF Aligned, Verifies, Builds
  <2>4. BuildHolds(q)'
    BY <1>1, <2>3 DEF HandlerAligned, BuildHolds, Builds, Verifies
  <2>5. DeliveryHolds(q)'
    BY <1>1, <2>3 DEF HandlerAligned, DeliveryHolds, Delivers, ConfirmLabels
  <2>6. QED
    BY <2>2, <2>4, <2>5 DEF HandlerAligned
<1>4. \A q, s \in Proc : ~(Builds(q)' /\ Delivers(s)')
  BY DEF Aligned, Builds, Delivers
<1>5. QED
  BY <1>3, <1>4 DEF Aligned

\* A plain write moves the status, and not to the gate: it cancels, or the row was not at
\* the gate yet.
LEMMA AlignedPlain ==
  ASSUME TypeInv, Sound, Aligned, NEW p \in Proc, NEW r \in Rows, Commit(p, r),
         UNCHANGED pushes, r.code = row.code, r.token = row.token, r.delivery = row.delivery,
         r.status \notin Gated, r.status = "cancelled" \/ row.status \notin Late,
         \A q \in Proc \ {p} : pc'[q] = pc[q] /\ lv'[q] = lv[q],
         pc'[p] \in Resting \cup {"mint", "open"},
         pc'[p] \in {"mint", "open"} => r.status \notin Late
  PROVE  Aligned'
<1>1. row'.status = r.status /\ row'.code = row.code /\ row'.token = row.token
  BY CommitColumns
<1>2. HandlerAligned(p)' /\ ~Builds(p)' /\ ~Delivers(p)'
  BY <1>1 DEF Resting, HandlerAligned, BuildHolds, DeliveryHolds, KnowsStatus, Builds,
     Verifies, Delivers, ConfirmLabels
<1>3. RowAligned'
  BY <1>1 DEF Aligned, RowAligned, GateMatchesCode, Gated, Late
<1>4. \A q \in Proc : Delivers(q) => r.status \in Late \ {"done"}
  BY DEF Aligned, HandlerAligned, DeliveryHolds, Late, Gated
<1>5. QED
  BY <1>2, <1>3, <1>4, AlignedCommit

\* A confirmation that calls GitHub, whatever becomes of the call.
LEMMA AlignedCall ==
  ASSUME TypeInv, Aligned, NEW p \in Proc, pc[p] \in {"createRepo", "pushFiles"},
         UNCHANGED row, NEW patch \in {"pushFailed", "done"}, Resilient(p, patch),
         pushes' \in {pushes, pushes \cup {[files |-> lv[p].files, to |-> lv[p].to]}}
  PROVE  Aligned'
<1>1. ProcsTyped /\ lv[p] \in Locals /\ patch \in Patches
  BY DEF TypeInv, ProcsTyped, Patches
<1>2. /\ pc'[p] = "read" /\ lv'[p].patch = patch /\ lv'[p].op = lv[p].op
      /\ lv'[p].delivery = lv[p].delivery
      /\ \A q \in Proc \ {p} : pc'[q] = pc[q] /\ lv'[q] = lv[q]
  BY <1>1 DEF Resilient, ProcsTyped, Locals
<1>3. Delivers(p) /\ HandlerAligned(p) /\ lv[p].files = row.code /\ row.status \in Late
  BY DEF Aligned, HandlerAligned, DeliveryHolds, Delivers, ConfirmLabels
<1>4. \A q \in Proc : ~Builds(q) /\ ~Verifies(q)
  BY <1>3 DEF Aligned, Builds, Verifies
<1>5. HandlerAligned(p)' /\ ~Builds(p)'
  BY <1>2, <1>3 DEF HandlerAligned, BuildHolds, DeliveryHolds, KnowsStatus, Builds, Verifies,
     Delivers, ConfirmLabels
<1>6. ASSUME NEW q \in Proc \ {p} PROVE HandlerAligned(q)' /\ ~Builds(q)'
  <2>1. HandlerAligned(q) /\ ~Builds(q)' /\ ~Verifies(q)'
    BY <1>2, <1>4 DEF Aligned, Builds, Verifies
  <2>2. BuildHolds(q)'
    BY <2>1 DEF BuildHolds, Builds
  <2>3. DeliveryHolds(q)' /\ KnowsStatus(q)'
    BY <1>2, <2>1 DEF HandlerAligned, DeliveryHolds, KnowsStatus, Delivers
  <2>4. QED
    BY <2>1, <2>2, <2>3 DEF HandlerAligned
<1>7. RowAligned'
  BY <1>3 DEF Aligned, RowAligned, GateMatchesCode
<1>8. QED
  BY <1>5, <1>6, <1>7 DEF Aligned

\* The resilient writer: of two builders there is one, a builder meets no confirmation, and
\* a confirmation meets no other.
LEMMA AlignedWrite ==
  ASSUME TypeInv, TypeInv', GuardInv, Sound, Aligned, BuildsApart, NEW p \in Proc, WriteFresh(p)
  PROVE  Aligned'
<1> DEFINE r == Patched(lv[p])
<1>0. ProcsTyped /\ row \in Rows /\ lv[p] \in Locals
  BY DEF TypeInv, RowTyped, ProcsTyped
<1>1. /\ Commit(p, r) /\ pc[p] = "write" /\ r \in Rows /\ UNCHANGED pushes
      /\ lv[p].patch \in Patches \ {"none"}
  BY <1>0, PatchedTyped, LocalFields DEF WriteFresh, TypeInv, ProcsTyped, PatchInHand, github
<1>2. HandlerAligned(p) /\ HandlerSound(p) /\ lv[p].ver = row.version
  BY <1>1 DEF Aligned, Sound, Commit
<1>3. /\ row'.status = r.status /\ row'.code = r.code /\ row'.token = r.token
      /\ row'.delivery = r.delivery
  BY <1>1, CommitColumns
<1>4. CASE lv[p].patch \in {"code", "readme", "park", "verified", "gate", "unverified"}
  <2>1. Builds(p)
    BY <1>1, <1>4 DEF Builds
  <2>2. pushes = {} /\ \A q \in Proc : ~Delivers(q)
    BY <1>2, <2>1 DEF Aligned, HandlerAligned, BuildHolds
  <2>3. \A q \in Proc \ {p} : ~Builds(q)
    BY <2>1 DEF BuildsApart
  <2>4. /\ HandlerAligned(p)' /\ ~Delivers(p)'
        /\ \A q \in Proc \ {p} : pc'[q] = pc[q] /\ lv'[q] = lv[q]
        /\ row'.status \in Gated => row'.token = row'.code
    <3>1. CASE lv[p].patch \in {"code", "readme"}
      <4>1. /\ pc'[p] \in {"docs", "trace"} /\ lv'[p].files = lv[p].files
            /\ lv'[p].delivery = row.delivery
            /\ \A q \in Proc \ {p} : pc'[q] = pc[q] /\ lv'[q] = lv[q]
        BY <1>0, <3>1 DEF WriteFresh, Goto, ProcsTyped, Locals
      <4>2. /\ row'.code = lv[p].files /\ row'.delivery = row.delivery
            /\ row'.status = row.status /\ row'.status \notin Gated
        <5>1. /\ r.code = lv[p].files /\ r.delivery = row.delivery /\ r.status = row.status
          BY <1>0, <3>1 DEF Patched, Rows
        <5>2. QED
          BY <1>2, <1>3, <2>1, <5>1 DEF HandlerAligned, BuildHolds
      <4>3. HandlerAligned(p)' /\ ~Delivers(p)'
        BY <1>1, <2>2, <4>1, <4>2 DEF HandlerAligned, BuildHolds, DeliveryHolds, KnowsStatus,
           Builds, Verifies, Delivers, ConfirmLabels
      <4>4. QED
        BY <4>1, <4>2, <4>3
    <3>2. CASE lv[p].patch = "verified"
      <4>1. /\ pc'[p] = "pin" /\ lv'[p] = lv[p]
            /\ \A q \in Proc \ {p} : pc'[q] = pc[q] /\ lv'[q] = lv[q]
        BY <1>0, <3>2 DEF WriteFresh, Goto, ProcsTyped
      <4>2. Verifies(p)
        BY <1>1, <3>2 DEF Verifies
      <4>3. /\ row'.code = row.code /\ row'.delivery = row.delivery /\ row'.token = lv[p].files
            /\ row'.status = row.status /\ row'.status \notin Gated
        <5>1. /\ r.code = row.code /\ r.delivery = row.delivery /\ r.token = lv[p].files
              /\ r.status = row.status
          BY <1>0, <3>2 DEF Patched, Rows
        <5>2. QED
          BY <1>2, <1>3, <2>1, <5>1 DEF HandlerAligned, BuildHolds
      <4>4. HandlerAligned(p)' /\ ~Delivers(p)'
        BY <1>1, <1>2, <2>2, <4>1, <4>2, <4>3 DEF HandlerAligned, BuildHolds, DeliveryHolds,
           KnowsStatus, Builds, Verifies, Delivers, ConfirmLabels
      <4>5. QED
        BY <4>1, <4>3, <4>4
    <3>3. CASE lv[p].patch \in {"park", "gate", "unverified"}
      <4>1. Return(p)
        BY <3>3 DEF WriteFresh
      <4>2. pc'[p] \in Resting /\ \A q \in Proc \ {p} : pc'[q] = pc[q] /\ lv'[q] = lv[q]
        BY <1>0, <4>1, ReturnGoes DEF Resting
      <4>3. row'.status \in Gated => row'.token = row'.code
        <5>1. CASE lv[p].patch = "gate"
          <6>1. r.token = row.token /\ r.code = row.code
            BY <1>0, <5>1 DEF Patched, Rows
          <6>2. row.token = row.code
            BY <1>1, <1>2, <5>1 DEF HandlerAligned, BuildHolds
          <6>3. QED
            BY <1>3, <6>1, <6>2
        <5>2. CASE lv[p].patch \in {"park", "unverified"}
          <6>1. r.status \in {"awaiting_critic_resolution", "verify_failed"}
            BY <1>0, <5>2 DEF Patched, Rows
          <6>2. QED
            BY <1>3, <6>1 DEF Gated
        <5>3. QED
          BY <3>3, <5>1, <5>2
      <4>4. QED
        BY <4>2, <4>3, RestingIsAligned
    <3>4. QED
      BY <1>4, <3>1, <3>2, <3>3
  <2>5. RowAligned'
    BY <1>1, <2>2, <2>4 DEF RowAligned, GateMatchesCode, Gated
  <2>6. QED
    BY <1>1, <2>2, <2>3, <2>4, <2>5, AlignedCommit
<1>5. CASE lv[p].patch \in {"pushFailed", "done"}
  <2>1. Delivers(p) /\ lv[p].op = "confirm"
    BY <1>1, <1>2, <1>5 DEF Delivers, HandlerAligned, DeliveryHolds
  <2>2. \A q \in Proc : ~Builds(q)
    BY <2>1 DEF Aligned
  <2>3. \A q \in Proc \ {p} : ~Delivers(q)
    BY <2>1 DEF Aligned, HandlerAligned, DeliveryHolds, GuardInv, Exclusive
  <2>4. row.status \in Gated /\ row.token = row.code
    BY <1>1, <1>2, <2>1 DEF Aligned, HandlerAligned, DeliveryHolds, HandlerSound, KnowsRow,
       Late, Gated, RowAligned, GateMatchesCode
  <2>5. r.code = row.code /\ r.token = row.token /\ r.status \in {"push_failed", "done"}
    BY <1>0, <1>5 DEF Patched, Rows
  <2>6. pc'[p] \in Resting /\ \A q \in Proc \ {p} : pc'[q] = pc[q] /\ lv'[q] = lv[q]
    BY <1>0, <1>5, ReturnGoes DEF WriteFresh, Resting
  <2>7. RowAligned'
    BY <1>1, <1>3, <2>4, <2>5 DEF Aligned, RowAligned, GateMatchesCode, Late, Gated
  <2>8. QED
    BY <1>1, <2>2, <2>3, <2>6, <2>7, RestingIsAligned, AlignedCommit
<1>6. QED
  BY <1>1, <1>4, <1>5 DEF Patches

LEMMA AlignedStep ==
  TypeInv /\ TypeInv' /\ GateInv /\ GuardInv /\ Sound /\ BuildsApart /\ Aligned /\ [Next]_vars
    => Aligned'
<1> SUFFICES ASSUME TypeInv, TypeInv', GateInv, GuardInv, Sound, BuildsApart, Aligned,
                    [Next]_vars
             PROVE  Aligned'
  OBVIOUS
<1>0. /\ ProcsTyped /\ row \in Rows /\ row.version \in Nat
      /\ \A q \in Proc : lv[q] \in Locals /\ HandlerAligned(q)
      /\ row.status \notin Late => pushes = {}
  BY RowFields DEF TypeInv, RowTyped, ProcsTyped, Aligned, RowAligned
<1>1. ASSUME NEW p \in Proc, Start(p) PROVE Aligned'
  <2>1. row.status = "absent" /\ row = NoRow /\ \A q \in Proc : pc[q] = "idle"
    BY <1>1 DEF Start, GateInv, AbsentIsIdle
  <2>2. PICK o \in Orchs, seeded \in BOOLEAN, d \in Repos \cup {None} :
          /\ row' = [NoRow EXCEPT !.status = "composing", !.delivery = d]
          /\ pc' = [pc EXCEPT ![p] = IF seeded THEN "seed" ELSE "draft"]
          /\ lv' = [lv EXCEPT ![p] = [NoLocals EXCEPT !.op = "start", !.orch = o]]
          /\ UNCHANGED pushes
    BY <1>1 DEF Start, Goto
  <2>3. row'.status = "composing" /\ pushes' = {}
    BY <1>0, <2>1, <2>2 DEF NoRow, Late, Gated
  <2>4. pc'[p] \in {"seed", "draft"} /\ \A q \in Proc \ {p} : pc'[q] = "idle"
    BY <1>0, <2>1, <2>2 DEF ProcsTyped
  <2>5. \A q \in Proc : ~Builds(q)' /\ ~Delivers(q)' /\ ~Verifies(q)'
    BY <2>4 DEF Builds, Delivers, Verifies, ConfirmLabels
  <2>6. \A q \in Proc : HandlerAligned(q)'
    BY <2>3, <2>4, <2>5 DEF HandlerAligned, BuildHolds, DeliveryHolds, KnowsStatus, Late, Gated,
       ConfirmLabels
  <2>7. RowAligned'
    BY <2>3 DEF RowAligned, GateMatchesCode
  <2>8. QED
    BY <2>5, <2>6, <2>7 DEF Aligned
<1>2. ASSUME NEW p \in Proc, Approve(p) \/ Cancel(p) \/ ResolveSpec(p) PROVE Aligned'
  <2>1. PICK label \in {"mint", "cancel", "reopen"}, l \in Locals :
          /\ pc' = [pc EXCEPT ![p] = label] /\ lv' = [lv EXCEPT ![p] = l]
          /\ UNCHANGED <<row, pushes>>
          /\ label \in {"mint", "reopen"} => row.status \notin Late
          /\ label = "cancel" => row.status # "done"
    <3>0. \A k \in Ops : [NoLocals EXCEPT !.op = k, !.ver = row.version] \in Locals
      BY <1>0, FreshLocals DEF Orchs
    <3>1. CASE Approve(p)
      <4>1. [NoLocals EXCEPT !.op = "approve", !.ver = row.version] \in Locals
        BY <3>0 DEF Ops
      <4>2. row.status \notin Late /\ UNCHANGED <<row, pushes>>
        BY <3>1 DEF Approve, Late, Gated, github
      <4>3. QED
        BY <3>1, <4>1, <4>2 DEF Approve, Goto
    <3>2. CASE Cancel(p)
      <4>1. [NoLocals EXCEPT !.op = "cancel", !.ver = row.version] \in Locals
        BY <3>0 DEF Ops
      <4>2. row.status # "done" /\ UNCHANGED <<row, pushes>>
        BY <3>2 DEF Cancel, Plain, CancelImmune, github
      <4>3. QED
        BY <3>2, <4>1, <4>2 DEF Cancel, Plain, Goto
    <3>3. CASE ResolveSpec(p)
      <4>1. [NoLocals EXCEPT !.op = "reopen", !.ver = row.version] \in Locals
        BY <3>0 DEF Ops
      <4>2. row.status \notin Late /\ UNCHANGED <<row, pushes>>
        BY <3>3 DEF ResolveSpec, Plain, Late, Gated, github
      <4>3. QED
        BY <3>3, <4>1, <4>2 DEF ResolveSpec, Plain, Goto
    <3>4. QED
      BY <1>2, <3>1, <3>2, <3>3
  <2>2. /\ pc'[p] = label
        /\ \A q \in Proc \ {p} : pc'[q] = pc[q] /\ lv'[q] = lv[q]
    BY <1>0, <2>1, GoesOn
  <2>3. HandlerAligned(p)' /\ ~Builds(p)' /\ ~Delivers(p)'
    BY <2>1, <2>2 DEF HandlerAligned, BuildHolds, DeliveryHolds, KnowsStatus, Builds, Verifies,
       Delivers, ConfirmLabels
  <2>4. QED
    BY <2>1, <2>2, <2>3, AlignedMove
<1>3. ASSUME NEW p \in Proc, Run(p) \/ Chat(p) \/ ReReadTurn(p) PROVE Aligned'
  <2>1. UNCHANGED <<row, pushes>>
    BY <1>3 DEF Run, Chat, ReReadTurn, github
  <2>2. pc'[p] \in Resting /\ \A q \in Proc \ {p} : pc'[q] = pc[q] /\ lv'[q] = lv[q]
    <3>1. CASE Run(p)
      BY <1>0, <3>1 DEF Run, Goto, ProcsTyped, Resting
    <3>2. CASE Chat(p)
      BY <1>0, <3>2 DEF Chat, Goto, ProcsTyped, Resting
    <3>3. CASE ReReadTurn(p)
      BY <1>0, <3>3, ReturnGoes DEF ReReadTurn, ProcsTyped, Resting
    <3>4. QED
      BY <1>3, <3>1, <3>2, <3>3
  <2>3. QED
    BY <2>1, <2>2, AlignedRest
<1>4. ASSUME NEW p \in Proc, Reverify(p) PROVE Aligned'
  <2>1. /\ pc' = [pc EXCEPT ![p] = "docs"] /\ UNCHANGED <<row, pushes>>
        /\ lv' = [lv EXCEPT ![p] = [NoLocals EXCEPT !.op = "verify", !.files = row.code,
                                                    !.delivery = row.delivery]]
        /\ row.status \notin Late
    BY <1>4 DEF Reverify, Goto, Late, Gated, github
  <2>2. /\ pc'[p] = "docs" /\ lv'[p].files = row.code /\ lv'[p].delivery = row.delivery
        /\ \A q \in Proc \ {p} : pc'[q] = pc[q] /\ lv'[q] = lv[q]
    BY <1>0, <2>1 DEF NoLocals, ProcsTyped
  <2>3. HandlerAligned(p)' /\ ~Delivers(p)'
    BY <1>0, <2>1, <2>2 DEF HandlerAligned, BuildHolds, DeliveryHolds, KnowsStatus, Builds,
       Verifies, Delivers, ConfirmLabels, Late
  <2>4. QED
    BY <2>1, <2>2, <2>3, AlignedMove
<1>5. ASSUME NEW p \in Proc, Confirm(p) PROVE Aligned'
  <2>1. /\ pc' = [pc EXCEPT ![p] = "confirm"] /\ UNCHANGED <<row, pushes>>
        /\ lv' = [lv EXCEPT ![p] = [NoLocals EXCEPT !.op = "confirm"]]
    BY <1>5 DEF Confirm, Goto, github
  <2>2. /\ pc'[p] = "confirm" /\ lv'[p].op = "confirm"
        /\ \A q \in Proc \ {p} : pc'[q] = pc[q] /\ lv'[q] = lv[q]
    BY <1>0, <2>1 DEF NoLocals, ProcsTyped
  <2>3. HandlerAligned(p)' /\ ~Builds(p)' /\ ~Delivers(p)'
    BY <2>2 DEF HandlerAligned, BuildHolds, DeliveryHolds, KnowsStatus, Builds, Verifies,
       Delivers, ConfirmLabels
  <2>4. QED
    BY <2>1, <2>2, <2>3, AlignedMove
<1>6. ASSUME NEW p \in Proc, SeedSpec(p) PROVE Aligned'
  <2>1. PICK s \in Specs :
          Commit(p, [row EXCEPT !.spec = s, !.status = "awaiting_spec_approval"])
    BY <1>6 DEF SeedSpec
  <2> DEFINE r == [row EXCEPT !.spec = s, !.status = "awaiting_spec_approval"]
  <2>2. /\ r \in Rows /\ r.code = row.code /\ r.token = row.token
        /\ r.delivery = row.delivery /\ r.status = "awaiting_spec_approval"
    <3>1. r \in Rows
      BY <1>0, RowWith DEF Statuses
    <3>2. QED
      BY <1>0, <3>1 DEF Rows
  <2>3. row.status \notin Late
    BY <1>0, <1>6, <2>1 DEF SeedSpec, Commit, HandlerAligned, KnowsStatus
  <2>4. pc'[p] = "mint" /\ \A q \in Proc \ {p} : pc'[q] = pc[q] /\ lv'[q] = lv[q]
    BY <1>0, <1>6 DEF SeedSpec, Goto, ProcsTyped
  <2>5. UNCHANGED pushes
    BY <1>6 DEF SeedSpec, github
  <2>6. QED
    BY <2>1, <2>2, <2>3, <2>4, <2>5, AlignedPlain DEF Late, Gated
<1>7. ASSUME NEW p \in Proc, DraftSpec(p) PROVE Aligned'
  <2>1. row.status \notin Late
    BY <1>0, <1>7 DEF DraftSpec, Commit, HandlerAligned, KnowsStatus
  <2>2. PICK r \in Rows :
          /\ Commit(p, r) /\ r.code = row.code /\ r.token = row.token
          /\ r.delivery = row.delivery /\ r.status \notin Late
    <3>1. CASE Commit(p, [row EXCEPT !.status = "composing"])
      <4>1. [row EXCEPT !.status = "composing"] \in Rows
        BY <1>0, RowWith DEF Statuses
      <4>2. QED
        BY <1>0, <3>1, <4>1 DEF Rows, Late, Gated
    <3>2. ASSUME NEW s \in Specs,
                 NEW status \in {"awaiting_spec_approval", "awaiting_critic_resolution"},
                 Commit(p, [row EXCEPT !.spec = s, !.status = status])
          PROVE  \E r \in Rows : /\ Commit(p, r) /\ r.code = row.code /\ r.token = row.token
                                 /\ r.delivery = row.delivery /\ r.status \notin Late
      <4>1. [row EXCEPT !.spec = s, !.status = status] \in Rows
        BY <1>0, RowWith DEF Statuses
      <4>2. QED
        BY <1>0, <3>2, <4>1 DEF Rows, Late, Gated
    <3>3. QED
      BY <1>7, <3>1, <3>2 DEF DraftSpec
  <2>3. /\ pc'[p] \in Resting /\ \A q \in Proc \ {p} : pc'[q] = pc[q] /\ lv'[q] = lv[q]
        /\ UNCHANGED pushes
    BY <1>0, <1>7, ReturnGoes DEF DraftSpec, ReturnFromStart, Resting, github
  <2>4. QED
    BY <2>1, <2>2, <2>3, AlignedPlain DEF Late, Resting
<1>8. ASSUME NEW p \in Proc, MintApproval(p) PROVE Aligned'
  <2> DEFINE r == [row EXCEPT !.approval = row.spec]
  <2>1. Commit(p, r) /\ r \in Rows
    BY <1>0, <1>8 DEF MintApproval, Rows
  <2>2. /\ r.code = row.code /\ r.token = row.token /\ r.delivery = row.delivery
        /\ r.status = row.status
    BY <1>0 DEF Rows
  <2>3. row.status \notin Late
    BY <1>0, <1>8 DEF MintApproval, Commit, HandlerAligned, KnowsStatus
  <2>4. /\ pc'[p] = "open" /\ \A q \in Proc \ {p} : pc'[q] = pc[q] /\ lv'[q] = lv[q]
        /\ UNCHANGED pushes
    BY <1>0, <1>8 DEF MintApproval, Goto, ProcsTyped, github
  <2>5. QED
    BY <2>1, <2>2, <2>3, <2>4, AlignedPlain DEF Late
<1>9. ASSUME NEW p \in Proc, OpenBuild(p) PROVE Aligned'
  <2> DEFINE r == [row EXCEPT !.status = "building"]
  <2>1. Commit(p, r) /\ r \in Rows /\ UNCHANGED pushes
    BY <1>0, <1>9, RowWith DEF OpenBuild, Statuses, github
  <2>2. /\ r.code = row.code /\ r.token = row.token /\ r.delivery = row.delivery
        /\ r.status = "building"
    BY <1>0 DEF Rows
  <2>3. row.status \notin Late
    BY <1>0, <1>9 DEF OpenBuild, Commit, HandlerAligned, KnowsStatus
  <2>4. /\ pc'[p] \in Resting /\ \A q \in Proc \ {p} : pc'[q] = pc[q] /\ lv'[q] = lv[q]
    <3>1. CASE Goto(p, "kick") /\ UNCHANGED lv
      BY <1>0, <3>1 DEF Goto, ProcsTyped, Resting
    <3>2. CASE Return(p)
      BY <1>0, <3>2, ReturnGoes DEF Resting
    <3>3. QED
      BY <1>9, <3>1, <3>2 DEF OpenBuild
  <2>5. QED
    BY <2>1, <2>2, <2>3, <2>4, AlignedPlain DEF Late, Gated, Resting
<1>10. ASSUME NEW p \in Proc, CancelWrite(p) \/ ReopenSpec(p) \/ FailRun(p) PROVE Aligned'
  <2>1. PICK status \in {"cancelled", "awaiting_spec_approval", "failed"} :
          /\ Commit(p, [row EXCEPT !.status = status]) /\ Return(p) /\ UNCHANGED pushes
          /\ status = "cancelled" \/ row.status \notin Late
    <3>1. CASE CancelWrite(p)
      BY <3>1 DEF CancelWrite, github
    <3>2. CASE ReopenSpec(p)
      BY <1>0, <3>2 DEF ReopenSpec, Commit, HandlerAligned, KnowsStatus, github
    <3>3. CASE FailRun(p)
      BY <1>0, <3>3 DEF FailRun, Commit, HandlerAligned, KnowsStatus, github
    <3>4. QED
      BY <1>10, <3>1, <3>2, <3>3
  <2> DEFINE r == [row EXCEPT !.status = status]
  <2>2. r \in Rows
    BY <1>0, RowWith DEF Statuses
  <2>3. /\ r.code = row.code /\ r.token = row.token /\ r.delivery = row.delivery
        /\ r.status = status
    BY <1>0 DEF Rows
  <2>4. pc'[p] \in Resting /\ \A q \in Proc \ {p} : pc'[q] = pc[q] /\ lv'[q] = lv[q]
    BY <1>0, <2>1, ReturnGoes DEF Resting
  <2>5. QED
    BY <2>1, <2>2, <2>3, <2>4, AlignedPlain DEF Gated, Resting
<1>11. ASSUME NEW p \in Proc, DraftFails(p) \/ AgentFails(p) \/ VersionConflict(p) PROVE Aligned'
  BY <1>11, AlignedReturn DEF DraftFails, AgentFails, VersionConflict, github
<1>12. ASSUME NEW p \in Proc, KickRun(p) PROVE Aligned'
  <2>1. /\ UNCHANGED <<row, pushes>> /\ {p, Kick} \in SUBSET Proc
        /\ \A q \in Proc \ {p, Kick} : pc'[q] = pc[q] /\ lv'[q] = lv[q]
    BY <1>0, <1>12, KickIsProc DEF KickRun, ProcsTyped, github
  <2>2. pc'[p] \in Resting /\ pc'[Kick] \in Resting
    BY <1>0, <1>12, KickIsProc DEF KickRun, ProcsTyped, Resting
  <2>3. \A q \in {p, Kick} : HandlerAligned(q)' /\ ~Builds(q)' /\ ~Delivers(q)'
    BY <2>2, RestingIsAligned
  <2>4. QED
    BY <2>1, <2>3, AlignedUntouched
<1>13. ASSUME NEW p \in Proc, ReadFresh(p) PROVE Aligned'
  <2>1. CASE row.status = "cancelled"
    BY <1>13, <2>1, AlignedReturn DEF ReadFresh, github
  <2>2. CASE row.status # "cancelled"
    <3>1. /\ pc' = [pc EXCEPT ![p] = "write"] /\ UNCHANGED <<row, pushes>> /\ pc[p] = "read"
          /\ lv' = [lv EXCEPT ![p] = [lv[p] EXCEPT !.ver = row.version]]
      BY <1>0, <1>13, <2>2 DEF ReadFresh, Goto, ProcsTyped, github
    <3>2. /\ pc'[p] = "write" /\ lv'[p].patch = lv[p].patch /\ lv'[p].files = lv[p].files
          /\ lv'[p].op = lv[p].op /\ lv'[p].delivery = lv[p].delivery
          /\ \A q \in Proc \ {p} : pc'[q] = pc[q] /\ lv'[q] = lv[q]
      BY <1>0, <3>1 DEF Locals, ProcsTyped
    <3>3. (Builds(p)' <=> Builds(p)) /\ (Delivers(p)' <=> Delivers(p))
          /\ (Verifies(p)' <=> Verifies(p))
      BY <3>1, <3>2 DEF Builds, Delivers, Verifies, ConfirmLabels
    <3>4. HandlerAligned(p)'
      BY <1>0, <3>1, <3>2, <3>3 DEF HandlerAligned, BuildHolds, DeliveryHolds, KnowsStatus,
         ConfirmLabels
    <3>5. QED
      BY <3>1, <3>2, <3>3, <3>4, AlignedMove
  <2>3. QED
    BY <2>1, <2>2
<1>14. ASSUME NEW p \in Proc, RetryFresh(p) PROVE Aligned'
  <2>1. CASE Throw(p)
    BY <1>14, <2>1, AlignedReturn DEF RetryFresh, github
  <2>2. CASE Goto(p, "read") /\ lv' = [lv EXCEPT ![p].retry = @ + 1]
    <3>1. /\ pc' = [pc EXCEPT ![p] = "read"] /\ UNCHANGED <<row, pushes>> /\ pc[p] = "write"
          /\ lv' = [lv EXCEPT ![p] = [lv[p] EXCEPT !.retry = @ + 1]]
      BY <1>0, <1>14, <2>2 DEF RetryFresh, Goto, ProcsTyped, github
    <3>2. /\ pc'[p] = "read" /\ lv'[p].patch = lv[p].patch /\ lv'[p].files = lv[p].files
          /\ lv'[p].op = lv[p].op /\ lv'[p].delivery = lv[p].delivery
          /\ \A q \in Proc \ {p} : pc'[q] = pc[q] /\ lv'[q] = lv[q]
      BY <1>0, <3>1 DEF Locals, ProcsTyped
    <3>3. (Builds(p)' <=> Builds(p)) /\ (Delivers(p)' <=> Delivers(p))
          /\ (Verifies(p)' <=> Verifies(p))
      BY <3>1, <3>2 DEF Builds, Delivers, Verifies, ConfirmLabels
    <3>4. HandlerAligned(p)'
      BY <1>0, <3>1, <3>2, <3>3 DEF HandlerAligned, BuildHolds, DeliveryHolds, KnowsStatus,
         ConfirmLabels
    <3>5. QED
      BY <3>1, <3>2, <3>3, <3>4, AlignedMove
  <2>3. QED
    BY <1>14, <2>1, <2>2 DEF RetryFresh
<1>15. ASSUME NEW p \in Proc, BeginRun(p) PROVE Aligned'
  <2>1. CASE Throw(p)
    BY <1>15, <2>1, AlignedReturn DEF BeginRun, github
  <2>2. CASE row.status = "building" /\ Goto(p, "produce") /\ UNCHANGED lv
    <3>1. /\ pc'[p] = "produce" /\ UNCHANGED <<row, pushes>> /\ row.status \notin Late
          /\ \A q \in Proc \ {p} : pc'[q] = pc[q] /\ lv'[q] = lv[q]
      BY <1>0, <1>15, <2>2 DEF BeginRun, Goto, ProcsTyped, Late, Gated, github
    <3>2. HandlerAligned(p)' /\ ~Delivers(p)'
      BY <1>0, <3>1 DEF HandlerAligned, BuildHolds, DeliveryHolds, KnowsStatus, Builds,
         Verifies, Delivers, ConfirmLabels, Late
    <3>3. QED
      BY <3>1, <3>2, AlignedMove
  <2>3. QED
    BY <1>15, <2>1, <2>2 DEF BeginRun
<1>16. ASSUME NEW p \in Proc, Produce(p) PROVE Aligned'
  <2>1. pc[p] = "produce" /\ UNCHANGED <<row, pushes>> /\ Builds(p)
    BY <1>16 DEF Produce, Builds, github
  <2>2. /\ \/ pc'[p] = "read" /\ lv'[p].patch \in {"code", "park"}
           \/ pc'[p] = "produce"
        /\ \A q \in Proc \ {p} : pc'[q] = pc[q] /\ lv'[q] = lv[q]
    <3>1. ASSUME NEW candidate \in Codes, NEW patch \in {"code", "park"},
                 pc' = [pc EXCEPT ![p] = "read"],
                 lv' = [lv EXCEPT ![p].files = candidate, ![p].patch = patch]
          PROVE  /\ pc'[p] = "read" /\ lv'[p].patch \in {"code", "park"}
                 /\ \A q \in Proc \ {p} : pc'[q] = pc[q] /\ lv'[q] = lv[q]
      <4>1. lv' = [lv EXCEPT ![p] = [lv[p] EXCEPT !.files = candidate, !.patch = patch]]
        BY <1>0, <3>1 DEF ProcsTyped
      <4>2. QED
        BY <1>0, <3>1, <4>1 DEF ProcsTyped, Locals
    <3>2. CASE lv' = [lv EXCEPT ![p].iter = @ + 1] /\ UNCHANGED pc
      BY <1>0, <2>1, <3>2 DEF ProcsTyped
    <3>3. QED
      BY <1>16, <3>1, <3>2 DEF Produce
  <2>3. HandlerAligned(p)' /\ ~Delivers(p)'
    BY <1>0, <2>1, <2>2 DEF HandlerAligned, BuildHolds, DeliveryHolds, KnowsStatus, Builds,
       Verifies, Delivers, ConfirmLabels
  <2>4. QED
    BY <2>1, <2>2, <2>3, AlignedMove
<1>17. ASSUME NEW p \in Proc, CatchRead(p) PROVE Aligned'
  <2>1. UNCHANGED <<row, pushes>> /\ \A q \in Proc \ {p} : pc'[q] = pc[q] /\ lv'[q] = lv[q]
    BY <1>0, <1>17 DEF CatchRead, Goto, ProcsTyped, github
  <2>2. CASE row.status = "building"
    <3>1. pc'[p] = "fail"
      BY <1>0, <1>17, <2>2 DEF CatchRead, Goto, ProcsTyped
    <3>2. HandlerAligned(p)' /\ ~Builds(p)' /\ ~Delivers(p)'
      BY <2>1, <2>2, <3>1 DEF HandlerAligned, BuildHolds, DeliveryHolds, KnowsStatus, Builds,
         Verifies, Delivers, ConfirmLabels, Late, Gated
    <3>3. QED
      BY <2>1, <3>2, AlignedMove
  <2>3. CASE row.status # "building"
    <3>1. pc'[p] \in Resting
      BY <1>0, <1>17, <2>3 DEF CatchRead, Goto, ProcsTyped, Resting
    <3>2. QED
      BY <2>1, <3>1, AlignedRest
  <2>4. QED
    BY <2>2, <2>3
<1>18. ASSUME NEW p \in Proc, WriteDocs(p) PROVE Aligned'
  <2>1. pc[p] = "docs" /\ UNCHANGED <<row, pushes>> /\ Builds(p) /\ Verifies(p)
    BY <1>18 DEF WriteDocs, Builds, Verifies, github
  <2>2. /\ \/ pc'[p] = "trace" /\ lv'[p] = lv[p]
           \/ pc'[p] = "read" /\ lv'[p].patch = "readme"
        /\ \A q \in Proc \ {p} : pc'[q] = pc[q] /\ lv'[q] = lv[q]
    <3>1. CASE Goto(p, "trace") /\ UNCHANGED lv
      BY <1>0, <3>1 DEF Goto, ProcsTyped
    <3>2. ASSUME NEW bundled \in Codes, pc' = [pc EXCEPT ![p] = "read"],
                 lv' = [lv EXCEPT ![p].files = bundled, ![p].patch = "readme", ![p].retry = 0]
          PROVE  /\ pc'[p] = "read" /\ lv'[p].patch = "readme"
                 /\ \A q \in Proc \ {p} : pc'[q] = pc[q] /\ lv'[q] = lv[q]
      <4>1. lv' = [lv EXCEPT ![p] = [lv[p] EXCEPT !.files = bundled, !.patch = "readme",
                                                  !.retry = 0]]
        BY <1>0, <3>2 DEF ProcsTyped
      <4>2. QED
        BY <1>0, <3>2, <4>1 DEF ProcsTyped, Locals
    <3>3. QED
      BY <1>18, <3>1, <3>2 DEF WriteDocs
  <2>3. HandlerAligned(p)' /\ ~Delivers(p)'
    BY <1>0, <2>1, <2>2 DEF HandlerAligned, BuildHolds, DeliveryHolds, KnowsStatus, Builds,
       Verifies, Delivers, ConfirmLabels
  <2>4. QED
    BY <2>1, <2>2, <2>3, AlignedMove
<1>19. ASSUME NEW p \in Proc, Trace(p) PROVE Aligned'
  <2>1. pc[p] = "trace" /\ UNCHANGED <<row, pushes>> /\ Builds(p) /\ Verifies(p)
    BY <1>19 DEF Trace, Resilient, github, Builds, Verifies
  <2>2. PICK patch \in {"verified", "unverified"} : Resilient(p, patch)
    BY <1>19 DEF Trace
  <2>3. /\ pc'[p] = "read" /\ lv'[p].patch = patch /\ lv'[p].files = lv[p].files
        /\ lv'[p].delivery = lv[p].delivery
        /\ \A q \in Proc \ {p} : pc'[q] = pc[q] /\ lv'[q] = lv[q]
    BY <1>0, <2>2 DEF Resilient, ProcsTyped, Locals
  <2>4. HandlerAligned(p)' /\ ~Delivers(p)'
    BY <1>0, <2>1, <2>3 DEF HandlerAligned, BuildHolds, DeliveryHolds, KnowsStatus, Builds,
       Verifies, Delivers, ConfirmLabels
  <2>5. QED
    BY <2>1, <2>3, <2>4, AlignedMove
<1>20. ASSUME NEW p \in Proc, PinDelivery(p) PROVE Aligned'
  <2>1. pc[p] = "pin" /\ UNCHANGED <<row, pushes>> /\ Builds(p) /\ Verifies(p)
    BY <1>20 DEF PinDelivery, Builds, Verifies, github
  <2>2. PICK d \in IF lv[p].delivery # None THEN {lv[p].delivery} ELSE Derived :
          /\ pc' = [pc EXCEPT ![p] = "read"]
          /\ lv' = [lv EXCEPT ![p].delivery = d, ![p].patch = "gate", ![p].retry = 0]
    BY <1>20 DEF PinDelivery
  <2>3. lv' = [lv EXCEPT ![p] = [lv[p] EXCEPT !.delivery = d, !.patch = "gate", !.retry = 0]]
    BY <1>0, <2>2 DEF ProcsTyped
  <2>4. /\ pc'[p] = "read" /\ lv'[p].patch = "gate" /\ lv'[p].files = lv[p].files
        /\ lv'[p].delivery = d
        /\ \A q \in Proc \ {p} : pc'[q] = pc[q] /\ lv'[q] = lv[q]
    BY <1>0, <2>2, <2>3 DEF ProcsTyped, Locals
  <2>5. row.delivery # None => d = row.delivery
    BY <1>0, <2>1, <2>2 DEF HandlerAligned, BuildHolds
  <2>6. HandlerAligned(p)' /\ ~Delivers(p)'
    BY <1>0, <2>1, <2>4, <2>5 DEF HandlerAligned, BuildHolds, DeliveryHolds, KnowsStatus,
       Builds, Verifies, Delivers, ConfirmLabels
  <2>7. QED
    BY <2>1, <2>4, <2>6, AlignedMove
<1>21. ASSUME NEW p \in Proc, MintPush(p) PROVE Aligned'
  <2>1. CASE Return(p)
    BY <1>21, <2>1, AlignedReturn DEF MintPush, github
  <2>2. CASE /\ row.status \in {"awaiting_push_confirm", "push_failed"} /\ Goto(p, "dest")
             /\ lv' = [lv EXCEPT ![p].files = row.code, ![p].to = row.delivery]
    <3>1. /\ UNCHANGED <<row, pushes>> /\ pc[p] = "confirm" /\ row.status \in Gated
          /\ row.status # "done"
      BY <1>21, <2>2 DEF MintPush, Gated, github
    <3>2. /\ lv' = [lv EXCEPT ![p] = [lv[p] EXCEPT !.files = row.code, !.to = row.delivery]]
          /\ pc' = [pc EXCEPT ![p] = "dest"]
      BY <1>0, <2>2 DEF Goto, ProcsTyped
    <3>3. /\ pc'[p] = "dest" /\ lv'[p].op = lv[p].op /\ lv'[p].files = row.code
          /\ lv'[p].to = row.delivery
          /\ \A q \in Proc \ {p} : pc'[q] = pc[q] /\ lv'[q] = lv[q]
      BY <1>0, <3>2 DEF Locals, ProcsTyped
    <3>4. HandlerAligned(p)' /\ ~Builds(p)'
      BY <1>0, <3>1, <3>3 DEF HandlerAligned, BuildHolds, DeliveryHolds, KnowsStatus, Builds,
         Verifies, Delivers, ConfirmLabels, Late
    <3>5. QED
      BY <3>1, <3>3, <3>4, AlignedMove
  <2>3. QED
    BY <1>21, <2>1, <2>2 DEF MintPush
<1>22. ASSUME NEW p \in Proc, Destination(p) PROVE Aligned'
  <2>1. pc[p] = "dest" /\ UNCHANGED <<row, pushes>> /\ Delivers(p)
    BY <1>22 DEF Destination, Delivers, ConfirmLabels, github
  <2>2. PICK d \in IF lv[p].to # None THEN {None} ELSE Derived :
          \/ /\ pc' = [pc EXCEPT ![p] = "createRepo"]
             /\ lv' = [lv EXCEPT ![p].delivery = d, ![p].to = IF @ = None THEN d ELSE @]
          \/ /\ pc' = [pc EXCEPT ![p] = "read"]
             /\ lv' = [lv EXCEPT ![p].delivery = d, ![p].patch = "pushFailed"]
    BY <1>22 DEF Destination, Goto
  <2>3. PICK l : /\ lv' = [lv EXCEPT ![p] = l]
                 /\ \/ l = [lv[p] EXCEPT !.delivery = d, !.to = IF @ = None THEN d ELSE @]
                       /\ pc' = [pc EXCEPT ![p] = "createRepo"]
                    \/ l = [lv[p] EXCEPT !.delivery = d, !.patch = "pushFailed"]
                       /\ pc' = [pc EXCEPT ![p] = "read"]
    <3>1. lv \in [Proc -> Locals]
      BY <1>0 DEF ProcsTyped
    <3>2. QED
      BY <2>2, <3>1
  <2>4. /\ lv'[p].op = lv[p].op /\ lv'[p].files = lv[p].files /\ lv'[p].delivery = d
        /\ \/ pc'[p] = "createRepo"
           \/ pc'[p] = "read" /\ lv'[p].patch = "pushFailed"
        /\ \A q \in Proc \ {p} : pc'[q] = pc[q] /\ lv'[q] = lv[q]
    BY <1>0, <2>3 DEF ProcsTyped, Locals
  <2>5. d # None => row.delivery = None
    BY <1>0, <2>1, <2>2 DEF HandlerAligned, DeliveryHolds
  <2>6. HandlerAligned(p)' /\ ~Builds(p)'
    BY <1>0, <2>1, <2>4, <2>5 DEF HandlerAligned, BuildHolds, DeliveryHolds, KnowsStatus,
       Builds, Verifies, Delivers, ConfirmLabels
  <2>7. QED
    BY <2>1, <2>4, <2>6, AlignedMove
<1>23. ASSUME NEW p \in Proc, CreateRepo(p) PROVE Aligned'
  <2>1. pc[p] = "createRepo" /\ UNCHANGED <<row, pushes>> /\ Delivers(p)
    BY <1>23 DEF CreateRepo, MakeRepo, Delivers, ConfirmLabels
  <2>2. /\ pc'[p] = "pushFiles" /\ lv'[p] = lv[p]
        /\ \A q \in Proc \ {p} : pc'[q] = pc[q] /\ lv'[q] = lv[q]
    BY <1>0, <1>23 DEF CreateRepo, Goto, ProcsTyped
  <2>3. HandlerAligned(p)' /\ ~Builds(p)'
    BY <1>0, <2>1, <2>2 DEF HandlerAligned, BuildHolds, DeliveryHolds, KnowsStatus, Builds,
       Verifies, Delivers, ConfirmLabels
  <2>4. QED
    BY <2>1, <2>2, <2>3, AlignedMove
<1>24. ASSUME NEW p \in Proc, PushFiles(p) PROVE Aligned'
  BY <1>24, AlignedCall DEF PushFiles, SendFiles
<1>25. ASSUME NEW p \in Proc, PushFails(p) PROVE Aligned'
  BY <1>25, AlignedCall DEF PushFails, SendFiles, MakeRepo, github
<1>26. ASSUME NEW p \in Proc, AppendTurn(p) PROVE Aligned'
  <2>1. Commit(p, row) /\ UNCHANGED pushes
    BY <1>26 DEF AppendTurn, github
  <2>2. pc'[p] \in Resting /\ \A q \in Proc \ {p} : pc'[q] = pc[q] /\ lv'[q] = lv[q]
    BY <1>0, <1>26, ReturnGoes DEF AppendTurn, Resting
  <2>3. row'.status = row.status /\ row'.code = row.code /\ row'.token = row.token
    BY <1>0, <2>1, CommitColumns
  <2>4. RowAligned'
    BY <2>1, <2>3 DEF Aligned, RowAligned, GateMatchesCode
  <2>5. /\ \A q \in Proc : Builds(q) => row.status \notin Gated
        /\ \A q \in Proc : Delivers(q) => row.status \in Late \ {"done"}
    BY <1>0 DEF HandlerAligned, BuildHolds, DeliveryHolds
  <2>6. QED
    BY <1>0, <2>1, <2>2, <2>4, <2>5, RestingIsAligned, AlignedCommit
<1>27. CASE EvictBound
  <2>1. UNCHANGED <<row, pushes, pc, lv>> /\ {} \in SUBSET Proc
    BY <1>27 DEF EvictBound, github
  <2>2. QED
    BY <2>1, AlignedUntouched
<1>28. CASE Crash
  <2>1. UNCHANGED <<row, pushes>> /\ \A q \in Proc : pc'[q] \in Resting
    BY <1>28 DEF Crash, Resting, github
  <2>2. \A q \in Proc : HandlerAligned(q)' /\ ~Builds(q)' /\ ~Delivers(q)'
    BY <2>1, RestingIsAligned
  <2>3. QED
    BY <2>1, <2>2, AlignedUntouched
<1>29. CASE UNCHANGED vars
  <2>1. UNCHANGED <<row, pushes, pc, lv>> /\ {} \in SUBSET Proc
    BY <1>29 DEF vars
  <2>2. QED
    BY <2>1, AlignedUntouched
<1>30. ASSUME NEW p \in Proc, WriteFresh(p) PROVE Aligned'
  BY <1>30, AlignedWrite
<1>31. QED
  BY <1>1, <1>2, <1>3, <1>4, <1>5, <1>6, <1>7, <1>8, <1>9, <1>10, <1>11, <1>12, <1>13, <1>14,
     <1>15, <1>16, <1>17, <1>18, <1>19, <1>20, <1>21, <1>22, <1>23, <1>24, <1>25, <1>26,
     <1>27, <1>28, <1>29, <1>30
     DEF Next, Request, Continue

LEMMA AlignedInit == Init => Aligned
BY DEF Init, Aligned, RowAligned, HandlerAligned, BuildHolds, DeliveryHolds, KnowsStatus,
   Builds, Verifies, Delivers, ConfirmLabels, GateMatchesCode, NoRow, NoLocals

LEMMA AlignedInvariant == Spec /\ []BuildsApart => []Aligned
BY TypeInvariant, GateInvariant, GuardInvariant, SoundInvariant, AlignedInit, AlignedStep, PTL
   DEF Spec

\* Once the push gate shows, the token covers the very files the row holds, so that no
\* confirmation is refused for files that changed behind the gate (confirmPush,
\* mintPushApproval).
THEOREM GateKeepsItsCode == Spec /\ []BuildsApart => []GateMatchesCode
<1>1. Aligned => GateMatchesCode
  BY DEF Aligned, RowAligned
<1>2. QED
  BY <1>1, AlignedInvariant, PTL

\* However often a push fails, is answered too late or is confirmed again, and whatever
\* restarts in between, GitHub receives one file set (confirmPush, pushArtifact).
THEOREM OneFileSetIsPushed == Spec /\ []BuildsApart => []OneArtifact
<1>1. Aligned => OneArtifact
  BY DEF Aligned, RowAligned, OneArtifact
<1>2. QED
  BY <1>1, AlignedInvariant, PTL

\* What a step does to a row that was delivered, or that has a destination.
LEMMA DeliveredStep ==
  ASSUME TypeInv, GateInv, Sound, Aligned, [Next]_vars
  PROVE  /\ row.status = "done" => row'.status = "done"
         /\ row.delivery # None => row'.delivery = row.delivery
<1>1. SUFFICES ASSUME row' # row
               PROVE  /\ row.status = "done" => row'.status = "done"
                      /\ row.delivery # None => row'.delivery = row.delivery
  OBVIOUS
<1>2. row \in Rows /\ ProcsTyped
  BY DEF TypeInv, RowTyped
<1>3. PICK p \in Proc : Request(p) \/ Continue(p)
  BY <1>1 DEF Next, EvictBound, Crash, vars
<1>4. HandlerAligned(p) /\ HandlerSound(p)
  BY DEF Aligned, Sound
<1>5. CASE Start(p)
  BY <1>5 DEF Start, GateInv, AbsentIsIdle, NoRow
<1>6. ASSUME NEW r \in Rows, Commit(p, r), r.delivery = row.delivery,
             r.status = row.status \/ row.status # "done"
      PROVE  /\ row.status = "done" => row'.status = "done"
             /\ row.delivery # None => row'.delivery = row.delivery
  BY <1>6, CommitColumns
<1>7. CASE AppendTurn(p)
  BY <1>2, <1>6, <1>7 DEF AppendTurn
<1>8. CASE WriteFresh(p)
  <2> DEFINE r == Patched(lv[p])
  <2>1. /\ Commit(p, r) /\ pc[p] = "write" /\ r \in Rows
        /\ lv[p].patch \in Patches \ {"none"} /\ lv[p].ver = row.version
    BY <1>2, <1>8, PatchedTyped, LocalFields
       DEF WriteFresh, TypeInv, ProcsTyped, PatchInHand, Commit
  <2>2. Builds(p) \/ Delivers(p)
    BY <2>1 DEF Builds, Delivers
  <2>3. row.status # "done"
    BY <1>4, <2>2 DEF HandlerAligned, BuildHolds, DeliveryHolds, Gated
  <2>4. row.delivery # None => r.delivery = row.delivery
    <3>1. CASE lv[p].patch \in {"code", "readme", "park", "verified", "unverified"}
      BY <1>2, <3>1 DEF Patched, Rows
    <3>2. CASE lv[p].patch = "gate"
      <4>1. Verifies(p)
        BY <2>1, <3>2 DEF Verifies
      <4>2. row.delivery # None => lv[p].delivery = row.delivery
        BY <1>4, <4>1 DEF HandlerAligned, BuildHolds
      <4>3. QED
        BY <1>2, <3>2, <4>2 DEF Patched, Rows
    <3>3. CASE lv[p].patch \in {"pushFailed", "done"}
      <4>1. lv[p].delivery # None => row.delivery = None
        BY <1>4, <2>1, <3>3 DEF HandlerAligned, DeliveryHolds, Delivers
      <4>2. QED
        BY <1>2, <3>3, <4>1 DEF Patched, Rows
    <3>4. QED
      BY <2>1, <3>1, <3>2, <3>3 DEF Patches
  <2>5. QED
    BY <2>1, <2>3, <2>4, CommitColumns
<1>9. CASE pc[p] \in PlainLabels /\ lv[p].ver = row.version
  <2>1. row.status # "done"
    BY <1>4, <1>9 DEF HandlerAligned, KnowsStatus, PlainLabels, Late, Gated
  <2>2. row'.delivery = row.delivery
    <3>1. PICK r : Commit(p, r) /\ r.delivery = row.delivery /\ r \in Rows
      <4>1. PICK st \in Statuses, s \in Specs \cup {None} :
              \/ Commit(p, [row EXCEPT !.status = st])
              \/ Commit(p, [row EXCEPT !.spec = s, !.status = st])
              \/ Commit(p, [row EXCEPT !.approval = s])
        <5>1. row.spec \in Specs \cup {None} /\ "composing" \in Statuses
          BY RowFields DEF TypeInv, Statuses
        <5>2. QED
          BY <1>1, <1>3, <1>9, <5>1 DEF Request, Continue, SeedSpec, DraftSpec, DraftFails,
             MintApproval, OpenBuild, KickRun, ReadFresh, WriteFresh, RetryFresh, BeginRun,
             Produce, AgentFails, CatchRead, FailRun, WriteDocs, Trace, PinDelivery,
             CancelWrite, ReopenSpec, VersionConflict, MintPush, Destination, CreateRepo,
             PushFiles, PushFails, AppendTurn, ReReadTurn, PlainLabels, Statuses,
             Start, Approve, Run, Cancel, ResolveSpec, Plain, Reverify, Confirm, Chat, Issue
      <4>2. /\ [row EXCEPT !.status = st] \in Rows
            /\ [row EXCEPT !.spec = s, !.status = st] \in Rows
            /\ [row EXCEPT !.approval = s] \in Rows
        BY <1>2, RowWith
      <4>3. QED
        BY <1>2, <4>1, <4>2 DEF Rows
    <3>2. QED
      BY <3>1, CommitColumns
  <2>3. QED
    BY <2>1, <2>2
<1>10. Start(p) \/ AppendTurn(p) \/ WriteFresh(p)
         \/ (pc[p] \in PlainLabels /\ lv[p].ver = row.version)
  <2>1. CASE Request(p)
    BY <1>1, <2>1 DEF Request, Approve, Run, Cancel, ResolveSpec, Plain, Reverify, Confirm, Chat
  <2>2. ASSUME pc[p] \notin PlainLabels, ~AppendTurn(p), ~WriteFresh(p), Continue(p)
        PROVE  row' = row
    BY <2>2 DEF Continue, SeedSpec, DraftSpec, DraftFails, MintApproval, OpenBuild, KickRun,
       ReadFresh, RetryFresh, BeginRun, Produce, AgentFails, CatchRead, FailRun,
       WriteDocs, Trace, PinDelivery, CancelWrite, ReopenSpec, VersionConflict, MintPush,
       Destination, CreateRepo, PushFiles, PushFails, ReReadTurn, PlainLabels
  <2>3. ASSUME pc[p] \in PlainLabels, ~AppendTurn(p), Continue(p)
        PROVE  lv[p].ver = row.version
    BY <1>1, <2>3 DEF Continue, SeedSpec, DraftSpec, DraftFails, MintApproval, OpenBuild,
       KickRun, ReadFresh, WriteFresh, RetryFresh, BeginRun, Produce, AgentFails, CatchRead,
       FailRun, WriteDocs, Trace, PinDelivery, CancelWrite, ReopenSpec, VersionConflict,
       MintPush, Destination, CreateRepo, PushFiles, PushFails, ReReadTurn, PlainLabels, Commit
  <2>4. QED
    BY <1>1, <1>3, <2>1, <2>2, <2>3
<1>11. QED
  BY <1>5, <1>7, <1>8, <1>9, <1>10

\* A delivered session stays delivered: nothing that was under way when it was pushed, and
\* no later request, takes it back.
THEOREM DeliveredIsFinal == Spec /\ []BuildsApart => DoneIsFinal
<1>1. TypeInv /\ GateInv /\ Sound /\ Aligned /\ [Next]_vars
        => [row.status = "done" => row'.status = "done"]_vars
  BY DeliveredStep
<1>2. QED
  BY <1>1, TypeInvariant, GateInvariant, SoundInvariant, AlignedInvariant, PTL
     DEF Spec, DoneIsFinal

\* A destination, once pinned, is the session's for good (resolveDelivery).
THEOREM PinIsKept == Spec /\ []BuildsApart => DeliveryIsPinned
<1>1. TypeInv /\ GateInv /\ Sound /\ Aligned /\ [Next]_vars
        => [row.delivery # None => row'.delivery = row.delivery]_vars
  BY DeliveredStep
<1>2. QED
  BY <1>1, TypeInvariant, GateInvariant, SoundInvariant, AlignedInvariant, PTL
     DEF Spec, DeliveryIsPinned

-----------------------------------------------------------------------------
(* When the builders of a session do not overlap                           *)
(*                                                                         *)
(* With the shared orchestrator alone, the in-flight guard keeps the runs  *)
(* apart, and the status keeps them apart from the recoveries: a run works *)
(* on a row that is building, a recovery on one that a run left behind.    *)
(* Two recoveries are what nothing keeps apart.  So where they do not      *)
(* meet, and a single client at a time is enough, no builders overlap, and *)
(* the theorems of the section before need no other hypothesis.            *)

RunBuilds(q) == Builds(q) /\ lv[q].op = "run"
Recovers(q)  == Builds(q) /\ lv[q].op = "verify"

RecoveriesApart == \A p, q \in Proc : Recovers(p) /\ Recovers(q) => p = q

RunPhase     == {"building", "failed", "cancelled"}
RecoverPhase == {"awaiting_critic_resolution", "verify_failed", "cancelled"}

\* What the status says about the builders, what a handler remembers of itself, and what a
\* plain writer at the row's own version knows of the status.
HandlerPhased(q) ==
  /\ RunBuilds(q) => row.status \in RunPhase
  /\ Recovers(q) => row.status \in RecoverPhase
  /\ Builds(q) => lv[q].op \in {"run", "verify"}
  /\ pc[q] = "run" => lv[q].op = "run"
  /\ lv[q].op = "verify" => q \in Clients
  /\ lv[q].ver = row.version =>
       /\ pc[q] = "open" => row.status = "awaiting_spec_approval"
       /\ pc[q] = "reopen" => row.approval = None
       /\ pc[q] = "fail" => row.status = "building"

Phased ==
  /\ \A q \in Proc : HandlerPhased(q)
  /\ \A p, q \in Proc : ~(RunBuilds(p) /\ Recovers(q))

\* Where the recoveries do not meet, no builders do.
LEMMA BuildersPart ==
  ASSUME Workflows = {}, ProcsTyped, GuardInv, Phased, RecoveriesApart
  PROVE  BuildsApart
<1>1. \A q \in Proc : lv[q].orch = Shared
  BY DEF ProcsTyped, Locals, Orchs
<1>2. \A q \in Proc : Builds(q) => RunBuilds(q) \/ Recovers(q)
  BY DEF Phased, HandlerPhased, RunBuilds, Recovers
<1>3. \A p, q \in Proc : RunBuilds(p) /\ RunBuilds(q) => p = q
  BY <1>1 DEF RunBuilds, GuardInv, Exclusive
<1>4. QED
  BY <1>2, <1>3 DEF Phased, RecoveriesApart, BuildsApart

\* No one builds a session whose spec awaits its approval, or was not approved yet.
LEMMA UnapprovedIsUnbuilt ==
  ASSUME Sound, Phased, row.status = "awaiting_spec_approval" \/ row.approval = None
  PROVE  \A q \in Proc : ~Builds(q)
<1>1. \A q \in Proc : Builds(q) => NeedsApproval(q)
  BY DEF Builds, NeedsApproval
<1>2. \A q \in Proc : Builds(q) => row.status # "awaiting_spec_approval"
  BY DEF Phased, HandlerPhased, RunBuilds, Recovers, RunPhase, RecoverPhase
<1>3. QED
  BY <1>1, <1>2 DEF Sound, HandlerSound

\* A step that leaves the row alone: a run begins on a row that is building, a recovery
\* on one that a run left behind, and nobody else begins to build.
LEMMA PhasedUntouched ==
  ASSUME Phased, UNCHANGED row, NEW moved \in SUBSET Proc,
         \A q \in Proc \ moved : pc'[q] = pc[q] /\ lv'[q] = lv[q],
         \A q \in moved : HandlerPhased(q)',
         \A q \in moved :
           /\ RunBuilds(q)' => RunBuilds(q) \/ row.status = "building"
           /\ Recovers(q)' => Recovers(q) \/ row.status \in RecoverPhase \ {"cancelled"}
  PROVE  Phased'
<1>1. ASSUME NEW q \in Proc PROVE HandlerPhased(q)'
  BY <1>1 DEF Phased, HandlerPhased, RunBuilds, Recovers, Builds
<1>2. \A q \in Proc :
        /\ RunBuilds(q)' => RunBuilds(q) \/ row.status = "building"
        /\ Recovers(q)' => Recovers(q) \/ row.status \in RecoverPhase \ {"cancelled"}
  BY DEF RunBuilds, Recovers, Builds
<1>3. \A q \in Proc : /\ RunBuilds(q) => row.status \in RunPhase
                      /\ Recovers(q) => row.status \in RecoverPhase
  BY DEF Phased, HandlerPhased
<1>4. \A p, q \in Proc : ~(RunBuilds(p)' /\ Recovers(q)')
  BY <1>2, <1>3 DEF Phased, RunPhase, RecoverPhase
<1>5. QED
  BY <1>1, <1>4 DEF Phased

\* One handler that goes on, neither to build nor to a plain write that has to know the
\* row, unless it built before.
LEMMA PhasedMove ==
  ASSUME Phased, UNCHANGED row, NEW p \in Proc,
         \A q \in Proc \ {p} : pc'[q] = pc[q] /\ lv'[q] = lv[q],
         pc'[p] \notin {"run", "open", "reopen", "fail"},
         Builds(p)' => Builds(p) /\ lv'[p].op = lv[p].op,
         lv'[p].op = "verify" => lv[p].op = "verify"
  PROVE  Phased'
<1>1. HandlerPhased(p)' /\ {p} \in SUBSET Proc
  BY DEF Phased, HandlerPhased, RunBuilds, Recovers
<1>2. /\ RunBuilds(p)' => RunBuilds(p)
      /\ Recovers(p)' => Recovers(p)
  BY DEF RunBuilds, Recovers
<1>3. QED
  BY <1>1, <1>2, PhasedUntouched

LEMMA PhasedReturn ==
  ASSUME TypeInv, Phased, UNCHANGED row, NEW p \in Proc, Return(p) \/ Throw(p)
  PROVE  Phased'
<1>1. /\ pc'[p] \in {"idle", "catch"} /\ lv'[p] = NoLocals
      /\ \A q \in Proc \ {p} : pc'[q] = pc[q] /\ lv'[q] = lv[q]
  BY ReturnGoes DEF TypeInv
<1>2. QED
  BY <1>1, PhasedMove DEF Builds, NoLocals

\* A commit leaves the other handlers behind the row; it keeps the status, cancels, gives
\* up a build, or meets no other builder.
LEMMA PhasedCommit ==
  ASSUME TypeInv, Sound, Phased, NEW p \in Proc, NEW r \in Rows, Commit(p, r),
         \A q \in Proc \ {p} : pc'[q] = pc[q] /\ lv'[q] = lv[q],
         \/ r.status \in {row.status, "cancelled"}
         \/ r.status = "failed" /\ row.status = "building"
         \/ \A q \in Proc \ {p} : ~Builds(q),
         Builds(p)' => Builds(p) /\ lv'[p].op = lv[p].op /\ r.status = row.status,
         pc'[p] = "open" => r.status = "awaiting_spec_approval",
         pc'[p] \notin {"run", "reopen", "fail"},
         lv'[p].op = "verify" => lv[p].op = "verify"
  PROVE  Phased'
<1>1. row'.status = r.status
  BY CommitColumns
<1>2. row'.version = row.version + 1 /\ row.version \in Nat
  BY RowFields DEF Commit, Rows, TypeInv
<1>3. ASSUME NEW q \in Proc \ {p} PROVE HandlerPhased(q)'
  <2>1. lv[q].ver \in Nat /\ lv[q].ver <= row.version
    BY LocalFields DEF TypeInv, ProcsTyped, Sound, HandlerSound
  <2>2. lv'[q].ver # row'.version
    BY <1>2, <2>1
  <2>3. HandlerPhased(q) /\ (Builds(q)' <=> Builds(q))
    BY DEF Phased, Builds
  <2>4. QED
    BY <1>1, <2>2, <2>3 DEF HandlerPhased, RunBuilds, Recovers, RunPhase, RecoverPhase
<1>4. HandlerPhased(p)'
  BY <1>1 DEF Phased, HandlerPhased, RunBuilds, Recovers
<1>5. \A q \in Proc : /\ RunBuilds(q)' => RunBuilds(q)
                      /\ Recovers(q)' => Recovers(q)
  BY DEF RunBuilds, Recovers, Builds
<1>6. QED
  BY <1>3, <1>4, <1>5 DEF Phased

\* The resilient writer: a builder that settles the status is the last one, and a
\* confirmation meets none.
LEMMA PhasedWrite ==
  ASSUME TypeInv, TypeInv', Sound, Aligned, Phased, BuildsApart, NEW p \in Proc, WriteFresh(p)
  PROVE  Phased'
<1> DEFINE r == Patched(lv[p])
<1>0. ProcsTyped /\ row \in Rows /\ lv[p] \in Locals
  BY DEF TypeInv, RowTyped, ProcsTyped
<1>1. /\ Commit(p, r) /\ pc[p] = "write" /\ r \in Rows /\ lv[p].patch \in Patches \ {"none"}
  BY <1>0, PatchedTyped, LocalFields DEF WriteFresh, TypeInv, ProcsTyped, PatchInHand
<1>2. CASE lv[p].patch \in {"code", "readme", "verified"}
  <2>1. Builds(p) /\ r.status = row.status
    BY <1>0, <1>1, <1>2 DEF Builds, Patched, Rows
  <2>2. /\ pc'[p] \in {"docs", "trace", "pin"} /\ lv'[p].op = lv[p].op
        /\ \A q \in Proc \ {p} : pc'[q] = pc[q] /\ lv'[q] = lv[q]
    BY <1>0, <1>2 DEF WriteFresh, Goto, ProcsTyped, Locals
  <2>3. QED
    BY <1>1, <2>1, <2>2, PhasedCommit
<1>3. CASE lv[p].patch \in {"park", "gate", "unverified", "pushFailed", "done"}
  <2>1. \A q \in Proc \ {p} : ~Builds(q)
    <3>1. Builds(p) \/ Delivers(p)
      BY <1>1, <1>3 DEF Builds, Delivers
    <3>2. QED
      BY <3>1 DEF BuildsApart, Aligned
  <2>2. /\ pc'[p] \in {"idle", "catch"} /\ lv'[p] = NoLocals
        /\ \A q \in Proc \ {p} : pc'[q] = pc[q] /\ lv'[q] = lv[q]
    BY <1>0, <1>3, ReturnGoes DEF WriteFresh
  <2>3. QED
    BY <1>1, <2>1, <2>2, PhasedCommit DEF Builds, NoLocals
<1>4. QED
  BY <1>1, <1>2, <1>3 DEF Patches

LEMMA PhasedStep ==
  TypeInv /\ TypeInv' /\ GateInv /\ GuardInv /\ Sound /\ Aligned /\ BuildsApart /\ Phased
    /\ [Next]_vars => Phased'
<1> SUFFICES ASSUME TypeInv, TypeInv', GateInv, GuardInv, Sound, Aligned, BuildsApart, Phased,
                    [Next]_vars
             PROVE  Phased'
  OBVIOUS
<1>0. /\ ProcsTyped /\ row \in Rows /\ row.version \in Nat
      /\ \A q \in Proc : lv[q] \in Locals /\ HandlerPhased(q) /\ HandlerSound(q)
  BY RowFields DEF TypeInv, RowTyped, ProcsTyped, Phased, Sound
<1>1. ASSUME NEW p \in Proc, Start(p) PROVE Phased'
  <2>1. \A q \in Proc : pc[q] = "idle"
    BY <1>1 DEF Start, GateInv, AbsentIsIdle
  <2>2. PICK o \in Orchs, seeded \in BOOLEAN :
          /\ pc' = [pc EXCEPT ![p] = IF seeded THEN "seed" ELSE "draft"]
          /\ lv' = [lv EXCEPT ![p] = [NoLocals EXCEPT !.op = "start", !.orch = o]]
    BY <1>1 DEF Start, Goto
  <2>3. \A q \in Proc : pc'[q] \in {"idle", "seed", "draft"}
    BY <1>0, <2>1, <2>2 DEF ProcsTyped
  <2>4. \A q \in Proc : lv'[q].op = "verify" => lv[q].op = "verify"
    BY <1>0, <2>2 DEF ProcsTyped, NoLocals
  <2>5. \A q \in Proc : ~Builds(q)' /\ HandlerPhased(q)'
    BY <1>0, <2>3, <2>4 DEF HandlerPhased, Builds, RunBuilds, Recovers
  <2>6. QED
    BY <2>5 DEF Phased, RunBuilds
<1>2. ASSUME NEW p \in Proc, Approve(p) \/ Cancel(p) PROVE Phased'
  <2>1. PICK label \in {"mint", "cancel"}, k \in {"approve", "cancel"} :
          /\ pc' = [pc EXCEPT ![p] = label] /\ UNCHANGED row
          /\ lv' = [lv EXCEPT ![p] = [NoLocals EXCEPT !.op = k, !.ver = row.version]]
    BY <1>2 DEF Approve, Cancel, Plain, Goto
  <2>2. /\ pc'[p] = label /\ lv'[p].op = k
        /\ \A q \in Proc \ {p} : pc'[q] = pc[q] /\ lv'[q] = lv[q]
    BY <1>0, <2>1 DEF NoLocals, ProcsTyped
  <2>3. QED
    BY <2>1, <2>2, PhasedMove DEF Builds
<1>3. ASSUME NEW p \in Proc, ResolveSpec(p) PROVE Phased'
  <2>1. /\ pc' = [pc EXCEPT ![p] = "reopen"] /\ UNCHANGED row /\ row.approval = None
        /\ lv' = [lv EXCEPT ![p] = [NoLocals EXCEPT !.op = "reopen", !.ver = row.version]]
    BY <1>3 DEF ResolveSpec, Plain, Goto
  <2>2. /\ pc'[p] = "reopen" /\ lv'[p].op = "reopen"
        /\ \A q \in Proc \ {p} : pc'[q] = pc[q] /\ lv'[q] = lv[q]
    BY <1>0, <2>1 DEF NoLocals, ProcsTyped
  <2>3. HandlerPhased(p)' /\ ~Builds(p)' /\ {p} \in SUBSET Proc
    BY <2>1, <2>2 DEF HandlerPhased, RunBuilds, Recovers, Builds
  <2>4. QED
    BY <2>1, <2>2, <2>3, PhasedUntouched DEF RunBuilds, Recovers
<1>4. ASSUME NEW p \in Proc, Run(p) PROVE Phased'
  <2>1. /\ pc' = [pc EXCEPT ![p] = "run"] /\ UNCHANGED row
        /\ lv' = [lv EXCEPT ![p] = [NoLocals EXCEPT !.op = "run", !.orch = OrchFor]]
    BY <1>4 DEF Run, Goto
  <2>2. /\ pc'[p] = "run" /\ lv'[p].op = "run"
        /\ \A q \in Proc \ {p} : pc'[q] = pc[q] /\ lv'[q] = lv[q]
    BY <1>0, <2>1 DEF NoLocals, ProcsTyped
  <2>3. HandlerPhased(p)' /\ ~Builds(p)' /\ {p} \in SUBSET Proc
    BY <2>2 DEF HandlerPhased, RunBuilds, Recovers, Builds
  <2>4. QED
    BY <2>1, <2>2, <2>3, PhasedUntouched DEF RunBuilds, Recovers
<1>5. ASSUME NEW p \in Proc, Chat(p) PROVE Phased'
  <2>1. /\ pc' = [pc EXCEPT ![p] = "chat"] /\ UNCHANGED row
        /\ lv' = [lv EXCEPT ![p] = [lv[p] EXCEPT !.ver = row.version]]
    BY <1>0, <1>5 DEF Chat, Goto, ProcsTyped
  <2>2. /\ pc'[p] = "chat" /\ lv'[p].op = lv[p].op
        /\ \A q \in Proc \ {p} : pc'[q] = pc[q] /\ lv'[q] = lv[q]
    BY <1>0, <2>1 DEF ProcsTyped, Locals
  <2>3. QED
    BY <2>1, <2>2, PhasedMove DEF Builds
<1>6. ASSUME NEW p \in Proc, Reverify(p) PROVE Phased'
  <2>1. /\ pc' = [pc EXCEPT ![p] = "docs"] /\ UNCHANGED row /\ p \in Clients
        /\ lv' = [lv EXCEPT ![p] = [NoLocals EXCEPT !.op = "verify", !.files = row.code,
                                                    !.delivery = row.delivery]]
        /\ row.status \in RecoverPhase \ {"cancelled"}
    BY <1>6 DEF Reverify, Goto, Issue, RecoverPhase
  <2>2. /\ pc'[p] = "docs" /\ lv'[p].op = "verify"
        /\ \A q \in Proc \ {p} : pc'[q] = pc[q] /\ lv'[q] = lv[q]
    BY <1>0, <2>1 DEF NoLocals, ProcsTyped
  <2>3. HandlerPhased(p)' /\ ~RunBuilds(p)' /\ {p} \in SUBSET Proc
    BY <2>1, <2>2 DEF HandlerPhased, RunBuilds, Recovers, Builds
  <2>4. QED
    BY <2>1, <2>2, <2>3, PhasedUntouched
<1>7. ASSUME NEW p \in Proc, Confirm(p) PROVE Phased'
  <2>1. /\ pc' = [pc EXCEPT ![p] = "confirm"] /\ UNCHANGED row
        /\ lv' = [lv EXCEPT ![p] = [NoLocals EXCEPT !.op = "confirm"]]
    BY <1>7 DEF Confirm, Goto
  <2>2. /\ pc'[p] = "confirm" /\ lv'[p].op = "confirm"
        /\ \A q \in Proc \ {p} : pc'[q] = pc[q] /\ lv'[q] = lv[q]
    BY <1>0, <2>1 DEF NoLocals, ProcsTyped
  <2>3. QED
    BY <2>1, <2>2, PhasedMove DEF Builds
<1>8. ASSUME NEW p \in Proc, SeedSpec(p) PROVE Phased'
  <2>1. PICK s \in Specs :
          Commit(p, [row EXCEPT !.spec = s, !.status = "awaiting_spec_approval"])
    BY <1>8 DEF SeedSpec
  <2> DEFINE r == [row EXCEPT !.spec = s, !.status = "awaiting_spec_approval"]
  <2>2. r \in Rows
    BY <1>0, RowWith DEF Statuses
  <2>3. row.approval = None
    BY <1>0, <1>8, <2>1 DEF SeedSpec, Commit, HandlerSound, Sound, RowSound
  <2>4. /\ pc'[p] = "mint" /\ lv'[p].op = lv[p].op
        /\ \A q \in Proc \ {p} : pc'[q] = pc[q] /\ lv'[q] = lv[q]
    BY <1>0, <1>8 DEF SeedSpec, Goto, ProcsTyped, Locals
  <2>5. QED
    BY <2>1, <2>2, <2>3, <2>4, UnapprovedIsUnbuilt, PhasedCommit DEF Builds
<1>9. ASSUME NEW p \in Proc, DraftSpec(p) PROVE Phased'
  <2>1. PICK r \in Rows : Commit(p, r)
    <3>1. CASE Commit(p, [row EXCEPT !.status = "composing"])
      <4>1. [row EXCEPT !.status = "composing"] \in Rows
        BY <1>0, RowWith DEF Statuses
      <4>2. QED
        BY <3>1, <4>1
    <3>2. ASSUME NEW s \in Specs,
                 NEW status \in {"awaiting_spec_approval", "awaiting_critic_resolution"},
                 Commit(p, [row EXCEPT !.spec = s, !.status = status])
          PROVE  \E r \in Rows : Commit(p, r)
      <4>1. [row EXCEPT !.spec = s, !.status = status] \in Rows
        BY <1>0, RowWith DEF Statuses
      <4>2. QED
        BY <3>2, <4>1
    <3>3. QED
      BY <1>9, <3>1, <3>2 DEF DraftSpec
  <2>2. row.approval = None
    BY <1>0, <1>9, <2>1 DEF DraftSpec, Commit, HandlerSound, Sound, RowSound
  <2>3. /\ pc'[p] \in {"idle", "catch"} /\ lv'[p] = NoLocals
        /\ \A q \in Proc \ {p} : pc'[q] = pc[q] /\ lv'[q] = lv[q]
    BY <1>0, <1>9, ReturnGoes DEF DraftSpec, ReturnFromStart
  <2>4. QED
    BY <2>1, <2>2, <2>3, UnapprovedIsUnbuilt, PhasedCommit DEF Builds, NoLocals
<1>10. ASSUME NEW p \in Proc, MintApproval(p) PROVE Phased'
  <2> DEFINE r == [row EXCEPT !.approval = row.spec]
  <2>1. Commit(p, r) /\ r \in Rows /\ r.status = row.status
    BY <1>0, <1>10 DEF MintApproval, Rows
  <2>2. row.status = "awaiting_spec_approval"
    BY <1>0, <1>10 DEF MintApproval, Commit, HandlerSound, KnowsRow
  <2>3. /\ pc'[p] = "open" /\ lv'[p].op = lv[p].op
        /\ \A q \in Proc \ {p} : pc'[q] = pc[q] /\ lv'[q] = lv[q]
    BY <1>0, <1>10 DEF MintApproval, Goto, ProcsTyped, Locals
  <2>4. QED
    BY <2>1, <2>2, <2>3, PhasedCommit DEF Builds
<1>11. ASSUME NEW p \in Proc, OpenBuild(p) PROVE Phased'
  <2> DEFINE r == [row EXCEPT !.status = "building"]
  <2>1. Commit(p, r) /\ r \in Rows
    BY <1>0, <1>11, RowWith DEF OpenBuild, Statuses
  <2>2. row.status = "awaiting_spec_approval"
    BY <1>0, <1>11 DEF OpenBuild, Commit, HandlerPhased
  <2>3. /\ pc'[p] \in {"kick", "idle", "catch"} /\ lv'[p] \in {lv[p], NoLocals}
        /\ \A q \in Proc \ {p} : pc'[q] = pc[q] /\ lv'[q] = lv[q]
    <3>1. CASE Goto(p, "kick") /\ UNCHANGED lv
      BY <1>0, <3>1 DEF Goto, ProcsTyped
    <3>2. CASE Return(p)
      BY <1>0, <3>2, ReturnGoes
    <3>3. QED
      BY <1>11, <3>1, <3>2 DEF OpenBuild
  <2>4. QED
    BY <2>1, <2>2, <2>3, UnapprovedIsUnbuilt, PhasedCommit DEF Builds, NoLocals
<1>12. ASSUME NEW p \in Proc, CancelWrite(p) \/ ReopenSpec(p) \/ FailRun(p) PROVE Phased'
  <2>1. PICK status \in {"cancelled", "awaiting_spec_approval", "failed"} :
          /\ Commit(p, [row EXCEPT !.status = status]) /\ Return(p)
          /\ \/ status = "cancelled"
             \/ row.approval = None
             \/ status = "failed" /\ row.status = "building"
    <3>1. CASE CancelWrite(p)
      BY <3>1 DEF CancelWrite
    <3>2. CASE ReopenSpec(p)
      BY <1>0, <3>2 DEF ReopenSpec, Commit, HandlerPhased
    <3>3. CASE FailRun(p)
      BY <1>0, <3>3 DEF FailRun, Commit, HandlerPhased
    <3>4. QED
      BY <1>12, <3>1, <3>2, <3>3
  <2> DEFINE r == [row EXCEPT !.status = status]
  <2>2. r \in Rows /\ r.status = status /\ Commit(p, r)
    <3>1. r \in Rows
      BY <1>0, RowWith DEF Statuses
    <3>2. r.status = status
      BY <1>0 DEF Rows
    <3>3. QED
      BY <2>1, <3>1, <3>2
  <2>3. /\ pc'[p] \in {"idle", "catch"} /\ lv'[p] = NoLocals
        /\ \A q \in Proc \ {p} : pc'[q] = pc[q] /\ lv'[q] = lv[q]
    BY <1>0, <2>1, ReturnGoes
  <2>4. row.approval = None => \A q \in Proc : ~Builds(q)
    BY UnapprovedIsUnbuilt
  <2>5. ~Builds(p)' /\ lv'[p].op = "none" /\ pc'[p] \notin {"run", "open", "reopen", "fail"}
    BY <2>3 DEF Builds, NoLocals
  <2> HIDE DEF r
  <2>6. QED
    BY <2>1, <2>2, <2>3, <2>4, <2>5, PhasedCommit
<1>13. ASSUME NEW p \in Proc, DraftFails(p) \/ AgentFails(p) \/ VersionConflict(p) PROVE Phased'
  BY <1>13, PhasedReturn DEF DraftFails, AgentFails, VersionConflict
<1>14. ASSUME NEW p \in Proc, KickRun(p) PROVE Phased'
  <2>1. /\ UNCHANGED row /\ {p, Kick} \in SUBSET Proc
        /\ \A q \in Proc \ {p, Kick} : pc'[q] = pc[q] /\ lv'[q] = lv[q]
    BY <1>0, <1>14, KickIsProc DEF KickRun, ProcsTyped
  <2>2. \A q \in {p, Kick} :
          \/ pc'[q] \in {"idle", "catch"} /\ lv'[q].op \in {lv[q].op, "none"}
          \/ pc'[q] = "run" /\ lv'[q].op = "run"
    <3> DEFINE o == lv[p].orch
    <3>1. /\ p # Kick
          /\ \/ /\ pc' = [pc EXCEPT ![p] = "idle", ![Kick] = "catch"]
                /\ lv' = [lv EXCEPT ![p] = NoLocals]
             \/ /\ pc' = [pc EXCEPT ![p] = "idle", ![Kick] = "run"]
                /\ lv' = [lv EXCEPT ![p] = NoLocals,
                                    ![Kick] = [NoLocals EXCEPT !.op = "run", !.orch = o]]
      BY <1>14 DEF KickRun
    <3> HIDE DEF o
    <3>2. lv'[p] = NoLocals /\ pc'[p] = "idle"
      BY <1>0, <3>1, KickIsProc DEF ProcsTyped
    <3>3. \/ pc'[Kick] = "catch" /\ lv'[Kick] = lv[Kick]
          \/ pc'[Kick] = "run" /\ lv'[Kick] = [NoLocals EXCEPT !.op = "run", !.orch = o]
      BY <1>0, <3>1, KickIsProc DEF ProcsTyped
    <3>4. NoLocals.op = "none" /\ [NoLocals EXCEPT !.op = "run", !.orch = o].op = "run"
      BY DEF NoLocals
    <3>5. QED
      BY <3>2, <3>3, <3>4
  <2>3. \A q \in {p, Kick} : HandlerPhased(q)' /\ ~Builds(q)'
    BY <1>0, <2>1, <2>2 DEF HandlerPhased, RunBuilds, Recovers, Builds
  <2>4. QED
    BY <2>1, <2>3, PhasedUntouched DEF RunBuilds, Recovers
<1>15. ASSUME NEW p \in Proc, ReadFresh(p) PROVE Phased'
  <2>1. CASE Return(p)
    BY <1>15, <2>1, PhasedReturn DEF ReadFresh
  <2>2. CASE Goto(p, "write") /\ lv' = [lv EXCEPT ![p].ver = row.version]
    <3>1. /\ pc'[p] = "write" /\ lv'[p].patch = lv[p].patch /\ lv'[p].op = lv[p].op
          /\ \A q \in Proc \ {p} : pc'[q] = pc[q] /\ lv'[q] = lv[q]
      BY <1>0, <2>2 DEF Goto, ProcsTyped, Locals
    <3>2. QED
      BY <1>15, <3>1, PhasedMove DEF ReadFresh, Builds
  <2>3. QED
    BY <1>15, <2>1, <2>2 DEF ReadFresh
<1>16. ASSUME NEW p \in Proc, RetryFresh(p) PROVE Phased'
  <2>1. CASE Throw(p)
    BY <1>16, <2>1, PhasedReturn DEF RetryFresh
  <2>2. CASE Goto(p, "read") /\ lv' = [lv EXCEPT ![p].retry = @ + 1]
    <3>1. /\ pc'[p] = "read" /\ lv'[p].patch = lv[p].patch /\ lv'[p].op = lv[p].op
          /\ \A q \in Proc \ {p} : pc'[q] = pc[q] /\ lv'[q] = lv[q]
      BY <1>0, <2>2 DEF Goto, ProcsTyped, Locals
    <3>2. QED
      BY <1>16, <3>1, PhasedMove DEF RetryFresh, Builds
  <2>3. QED
    BY <1>16, <2>1, <2>2 DEF RetryFresh
<1>17. ASSUME NEW p \in Proc, BeginRun(p) PROVE Phased'
  <2>1. CASE Throw(p)
    BY <1>17, <2>1, PhasedReturn DEF BeginRun
  <2>2. CASE row.status = "building" /\ Goto(p, "produce") /\ UNCHANGED lv
    <3>1. /\ pc'[p] = "produce" /\ lv'[p] = lv[p] /\ lv[p].op = "run" /\ UNCHANGED row
          /\ \A q \in Proc \ {p} : pc'[q] = pc[q] /\ lv'[q] = lv[q]
      BY <1>0, <1>17, <2>2 DEF BeginRun, Goto, ProcsTyped, HandlerPhased
    <3>2. HandlerPhased(p)' /\ ~Recovers(p)' /\ {p} \in SUBSET Proc
      BY <1>0, <2>2, <3>1 DEF HandlerPhased, RunBuilds, Recovers, RunPhase
    <3>3. QED
      BY <2>2, <3>1, <3>2, PhasedUntouched
  <2>3. QED
    BY <1>17, <2>1, <2>2 DEF BeginRun
<1>18. ASSUME NEW p \in Proc, Produce(p) PROVE Phased'
  <2>1. UNCHANGED row /\ Builds(p)
    BY <1>18 DEF Produce, Builds
  <2>2. /\ pc'[p] \in {"read", "produce"} /\ lv'[p].op = lv[p].op
        /\ \A q \in Proc \ {p} : pc'[q] = pc[q] /\ lv'[q] = lv[q]
    BY <1>0, <1>18 DEF Produce, ProcsTyped, Locals
  <2>3. QED
    BY <2>1, <2>2, PhasedMove
<1>19. ASSUME NEW p \in Proc, CatchRead(p) PROVE Phased'
  <2>1. /\ UNCHANGED row /\ \A q \in Proc \ {p} : pc'[q] = pc[q] /\ lv'[q] = lv[q]
        /\ pc'[p] = IF row.status = "building" THEN "fail" ELSE "idle"
        /\ lv'[p].op = lv[p].op
    BY <1>0, <1>19 DEF CatchRead, Goto, ProcsTyped, Locals
  <2>2. HandlerPhased(p)' /\ ~Builds(p)' /\ {p} \in SUBSET Proc
    BY <1>0, <2>1 DEF HandlerPhased, RunBuilds, Recovers, Builds
  <2>3. QED
    BY <2>1, <2>2, PhasedUntouched DEF RunBuilds, Recovers
<1>20. ASSUME NEW p \in Proc, WriteDocs(p) \/ Trace(p) \/ PinDelivery(p) PROVE Phased'
  <2>1. UNCHANGED row /\ Builds(p)
    BY <1>20 DEF WriteDocs, Trace, PinDelivery, Resilient, Builds
  <2>2. /\ pc'[p] \in {"read", "trace"} /\ lv'[p].op = lv[p].op
        /\ \A q \in Proc \ {p} : pc'[q] = pc[q] /\ lv'[q] = lv[q]
    <3>1. CASE WriteDocs(p)
      <4>1. CASE Goto(p, "trace") /\ UNCHANGED lv
        BY <1>0, <4>1 DEF Goto, ProcsTyped
      <4>2. ASSUME NEW bundled \in Codes, pc' = [pc EXCEPT ![p] = "read"],
                   lv' = [lv EXCEPT ![p].files = bundled, ![p].patch = "readme",
                                    ![p].retry = 0]
            PROVE  /\ pc'[p] = "read" /\ lv'[p].op = lv[p].op
                   /\ \A q \in Proc \ {p} : pc'[q] = pc[q] /\ lv'[q] = lv[q]
        BY <1>0, <4>2 DEF ProcsTyped, Locals
      <4>3. QED
        BY <3>1, <4>1, <4>2 DEF WriteDocs
    <3>2. CASE Trace(p)
      BY <1>0, <3>2 DEF Trace, Resilient, ProcsTyped, Locals
    <3>3. CASE PinDelivery(p)
      BY <1>0, <3>3 DEF PinDelivery, ProcsTyped, Locals
    <3>4. QED
      BY <1>20, <3>1, <3>2, <3>3
  <2>3. QED
    BY <2>1, <2>2, PhasedMove
<1>21. ASSUME NEW p \in Proc, MintPush(p) PROVE Phased'
  <2>1. CASE Return(p)
    BY <1>21, <2>1, PhasedReturn DEF MintPush
  <2>2. CASE /\ Goto(p, "dest")
             /\ lv' = [lv EXCEPT ![p].files = row.code, ![p].to = row.delivery]
    <3>1. /\ pc'[p] = "dest" /\ lv'[p].op = lv[p].op
          /\ \A q \in Proc \ {p} : pc'[q] = pc[q] /\ lv'[q] = lv[q]
      BY <1>0, <2>2 DEF Goto, ProcsTyped, Locals
    <3>2. QED
      BY <1>21, <3>1, PhasedMove DEF MintPush, Builds
  <2>3. QED
    BY <1>21, <2>1, <2>2 DEF MintPush
<1>22. ASSUME NEW p \in Proc, Destination(p) \/ CreateRepo(p) \/ PushFiles(p) \/ PushFails(p)
       PROVE  Phased'
  <2>1. UNCHANGED row
    BY <1>22 DEF Destination, CreateRepo, PushFiles, PushFails
  <2>2. /\ \/ pc'[p] \in {"createRepo", "pushFiles"}
           \/ pc'[p] = "read" /\ lv'[p].patch \in {"pushFailed", "done"}
        /\ lv'[p].op = lv[p].op
        /\ \A q \in Proc \ {p} : pc'[q] = pc[q] /\ lv'[q] = lv[q]
    <3>1. CASE Destination(p)
      BY <1>0, <3>1 DEF Destination, Goto, ProcsTyped, Locals
    <3>2. CASE CreateRepo(p)
      BY <1>0, <3>2 DEF CreateRepo, Goto, ProcsTyped
    <3>3. CASE PushFiles(p)
      BY <1>0, <3>3 DEF PushFiles, Resilient, ProcsTyped, Locals
    <3>4. CASE PushFails(p)
      BY <1>0, <3>4 DEF PushFails, Resilient, ProcsTyped, Locals
    <3>5. QED
      BY <1>22, <3>1, <3>2, <3>3, <3>4
  <2>3. QED
    BY <2>1, <2>2, PhasedMove DEF Builds
<1>23. ASSUME NEW p \in Proc, AppendTurn(p) PROVE Phased'
  <2>1. Commit(p, row)
    BY <1>23 DEF AppendTurn
  <2>2. /\ pc'[p] \in {"idle", "catch"} /\ lv'[p] = NoLocals
        /\ \A q \in Proc \ {p} : pc'[q] = pc[q] /\ lv'[q] = lv[q]
    BY <1>0, <1>23, ReturnGoes DEF AppendTurn
  <2>3. QED
    BY <1>0, <2>1, <2>2, PhasedCommit DEF Builds, NoLocals
<1>24. ASSUME NEW p \in Proc, ReReadTurn(p) PROVE Phased'
  <2>1. CASE Return(p)
    BY <1>24, <2>1, PhasedReturn DEF ReReadTurn
  <2>2. CASE UNCHANGED pc /\ lv' = [lv EXCEPT ![p].ver = row.version, ![p].retry = 1]
    <3>1. /\ pc'[p] = "chat" /\ lv'[p].op = lv[p].op
          /\ \A q \in Proc \ {p} : pc'[q] = pc[q] /\ lv'[q] = lv[q]
      BY <1>0, <1>24, <2>2 DEF ReReadTurn, ProcsTyped, Locals
    <3>2. QED
      BY <1>24, <3>1, PhasedMove DEF ReReadTurn, Builds
  <2>3. QED
    BY <1>24, <2>1, <2>2 DEF ReReadTurn
<1>25. CASE EvictBound \/ UNCHANGED vars
  <2>1. UNCHANGED <<row, pc, lv>> /\ {} \in SUBSET Proc
    BY <1>25 DEF EvictBound, vars
  <2>2. QED
    BY <2>1, PhasedUntouched
<1>26. CASE Crash
  <2>1. UNCHANGED row /\ \A q \in Proc : pc'[q] = "idle" /\ lv'[q] = NoLocals
    BY <1>26 DEF Crash
  <2>2. \A q \in Proc : HandlerPhased(q)' /\ ~Builds(q)'
    BY <2>1 DEF HandlerPhased, RunBuilds, Recovers, Builds, NoLocals
  <2>3. QED
    BY <2>2 DEF Phased, RunBuilds
<1>27. ASSUME NEW p \in Proc, WriteFresh(p) PROVE Phased'
  BY <1>27, PhasedWrite
<1>28. QED
  BY <1>1, <1>2, <1>3, <1>4, <1>5, <1>6, <1>7, <1>8, <1>9, <1>10, <1>11, <1>12, <1>13, <1>14,
     <1>15, <1>16, <1>17, <1>18, <1>19, <1>20, <1>21, <1>22, <1>23, <1>24, <1>25, <1>26, <1>27
     DEF Next, Request, Continue

LEMMA PhasedInit == Init => Phased
BY DEF Init, Phased, HandlerPhased, RunBuilds, Recovers, Builds, NoLocals

\* With the shared orchestrator alone, builders overlap only when recoveries do.
THEOREM OnlyRecoveriesOverlap ==
  ASSUME Workflows = {}
  PROVE  Spec /\ []RecoveriesApart => []BuildsApart
<1> DEFINE Inv == TypeInv /\ GateInv /\ GuardInv /\ Sound /\ Aligned /\ Phased
<1>1. Inv /\ RecoveriesApart => BuildsApart
  BY BuildersPart DEF TypeInv
<1>2. Init => Inv
  BY TypeInit, GateInit, GuardInit, SoundInit, AlignedInit, PhasedInit
<1>3. Inv /\ RecoveriesApart /\ [Next]_vars => Inv'
  BY <1>1, TypeStep, GateStep, GuardStep, SoundStep, AlignedStep, PhasedStep
<1>4. QED
  BY <1>1, <1>2, <1>3, PTL DEF Spec

\* One client at a time, beside the detached run, chat turns and restarts: the row at the
\* push gate keeps the files that were tested, one file set is pushed, a delivered session
\* stays delivered and its destination is kept.
THEOREM OneClientDelivers ==
  ASSUME Workflows = {}, NEW c, Clients = {c}
  PROVE  Spec => []GateMatchesCode /\ []OneArtifact /\ DoneIsFinal /\ DeliveryIsPinned
<1> DEFINE Inv == TypeInv /\ GateInv /\ GuardInv /\ Sound /\ Aligned /\ Phased
<1>1. Inv => BuildsApart
  <2>1. Phased => RecoveriesApart
    BY DEF Phased, HandlerPhased, Recovers, RecoveriesApart
  <2>2. QED
    BY <2>1, BuildersPart DEF TypeInv
<1>2. Init => Inv
  BY TypeInit, GateInit, GuardInit, SoundInit, AlignedInit, PhasedInit
<1>3. Inv /\ [Next]_vars => Inv'
  BY <1>1, TypeStep, GateStep, GuardStep, SoundStep, AlignedStep, PhasedStep
<1>4. Spec => []BuildsApart
  BY <1>1, <1>2, <1>3, PTL DEF Spec
<1>5. QED
  BY <1>4, GateKeepsItsCode, OneFileSetIsPushed, DeliveredIsFinal, PinIsKept, PTL

=============================================================================
