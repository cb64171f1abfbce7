--------------------------- MODULE ApprovalThreads ---------------------------
(***************************************************************************)
(* approve() and consume() of platform_core/approval_ledger.py as threads  *)
(* run them on one approval, bound to the call at hand and still live:     *)
(* each tests the status in one step and writes it in another.             *)
(* (ApprovalLedger has approve() as one step, for its use in Gateway.)     *)
(***************************************************************************)
EXTENDS Naturals, FiniteSets

CONSTANTS
  Reviewers,   \* one approve() each
  Consumers,   \* one consume() each
  Requester,   \* the approval's requester, who may also try to approve
  NoReviewer

VARIABLES
  status,      \* ap.status
  reviewer,    \* ap.reviewer
  at,          \* [Reviewers \cup Consumers -> where the thread is]
  reopened     \* history: approve() calls that wrote over "consumed"

approvalVars == <<status, reviewer, at, reopened>>

ApprovalInit ==
  /\ status = "pending"
  /\ reviewer = NoReviewer
  /\ at = [t \in Reviewers \cup Consumers |-> "idle"]
  /\ reopened = {}

Moves(t, from, to) == at[t] = from /\ at' = [at EXCEPT ![t] = to]

TestPending(t) ==
  /\ Moves(t, "idle", IF status # "pending" \/ t = Requester THEN "refused" ELSE "tested")
  /\ UNCHANGED <<status, reviewer, reopened>>

NameReviewer(t) ==
  /\ Moves(t, "tested", "named")
  /\ reviewer' = t
  /\ UNCHANGED <<status, reopened>>

WriteApproved(t) ==
  /\ Moves(t, "named", "approved")
  /\ status' = "approved"
  /\ reopened' = IF status = "consumed" THEN reopened \cup {t} ELSE reopened
  /\ UNCHANGED reviewer

TestApproved(t) ==
  /\ Moves(t, "idle", IF status # "approved" THEN "refused" ELSE "tested")
  /\ UNCHANGED <<status, reviewer, reopened>>

\* Variant: the status is not written.
WriteConsumed_Kept(t) ==
  /\ Moves(t, "tested", "consumed")
  /\ UNCHANGED <<status, reviewer, reopened>>

WriteConsumed(t) ==
  /\ Moves(t, "tested", "consumed")
  /\ status' = "consumed"
  /\ UNCHANGED <<reviewer, reopened>>

ApprovalThreadStep ==
  \/ \E t \in Reviewers : TestPending(t) \/ NameReviewer(t) \/ WriteApproved(t)
  \/ \E t \in Consumers : TestApproved(t) \/ WriteConsumed(t)

-----------------------------------------------------------------------------
\* A consume() that starts after the approval was consumed succeeds only if an
\* approve() that had tested "pending" earlier wrote over it
\* (approval_ledger.py:104).
ReplayNeedsALateApprove ==
  [][\A t \in Consumers :
       /\ TestApproved(t) /\ at'[t] = "tested"
       /\ \E u \in Consumers : at[u] = "consumed"
       => reopened # {}]_approvalVars
=============================================================================
