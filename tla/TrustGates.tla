----------------------------- MODULE TrustGates -----------------------------
(***************************************************************************)
(* What the four build gates of AKIS promise about one session, whoever    *)
(* drives it and in whatever order (ARCHITECTURE.md, section 2; the gates  *)
(* are backend/src/gates/specGate.ts, backend/src/verify/verifier.ts,      *)
(* SessionStore.recordVerification and backend/src/gates/pushGate.ts).     *)
(* Only the capabilities appear: there is no status and no handler.        *)
(***************************************************************************)
CONSTANTS Specs, Codes, None

VARIABLES
  approval,   \* the spec a human approved
  code,       \* the file set the session carries
  verified,   \* file sets that a real test run passed
  token,      \* the file set the session's VerifyToken covers
  approved,   \* outstanding ApprovedPush capabilities, by the files they cover
  pushed      \* file sets GitHub received

gates == <<approval, code, verified, token, approved, pushed>>

Init ==
  /\ approval = None /\ code = None /\ token = None
  /\ verified = {} /\ approved = {} /\ pushed = {}

\* Gate 1: a human approves a spec.
ApproveSpec ==
  /\ approval' \in Specs
  /\ UNCHANGED <<code, verified, token, approved, pushed>>

\* Code is written only under an approval.
WriteCode ==
  /\ approval # None
  /\ code' \in Codes
  /\ UNCHANGED <<approval, verified, token, approved, pushed>>

\* Gate 2: the verifier runs the tests of a file set, and they pass.
PassTests ==
  /\ approval # None
  /\ \E c \in Codes : verified' = verified \cup {c}
  /\ UNCHANGED <<approval, code, token, approved, pushed>>

\* Gate 3: the session records a token, over files that passed.
RecordToken ==
  /\ token' \in verified
  /\ UNCHANGED <<approval, code, verified, approved, pushed>>

\* Gate 4: a human confirms; the token must cover the files the session carries.
MintPush ==
  /\ token # None /\ token = code
  /\ approved' = approved \cup {code}
  /\ UNCHANGED <<approval, code, verified, token, pushed>>

\* A push spends a capability.  One can also be dropped unused.
Push ==
  /\ \E c \in approved : pushed' = pushed \cup {c}
  /\ approved' \in SUBSET approved
  /\ UNCHANGED <<approval, code, verified, token>>

DropPush ==
  /\ approved' \in SUBSET approved
  /\ UNCHANGED <<approval, code, verified, token, pushed>>

Next ==
  ApproveSpec \/ WriteCode \/ PassTests \/ RecordToken \/ MintPush \/ Push \/ DropPush

Spec == Init /\ [][Next]_gates

=============================================================================
