--------------------------- MODULE ApprovalLedger ---------------------------
(***************************************************************************)
(* Bound, single-use, separation-of-duties approvals                       *)
(* (platform_core/approval_ledger.py), as one dictionary and a clock.      *)
(*                                                                         *)
(* Each id of Approvals is drawn by exactly one request_approval call, so  *)
(* what that call asked for is the constant Asked[id]:                     *)
(*    agent, tool, args, purpose   the action the approval is bound to     *)
(*    requester                    who asked                               *)
(*    ttl                          0 never expires                         *)
(*    sod                          separation_of_duties                    *)
(* Which requests are made, in which order and when, is left open.         *)
(***************************************************************************)
EXTENDS Naturals

CONSTANTS
  Approvals,   \* approval ids
  Asked,       \* [Approvals -> what its request asked for]
  People,      \* requesters, reviewers and callers
  Nobody,      \* the empty reviewer field
  MaxTime      \* bound on the clock

VARIABLES
  approvals,   \* [Approvals -> the stored Approval, "absent" before its request]
  clock        \* time.time(), in units of the smallest ttl

ledgerVars == <<approvals, clock>>

Statuses == {"absent", "pending", "approved", "consumed", "expired"}

ApprovalAssumption ==
  /\ Nobody \notin People
  /\ MaxTime \in Nat
  /\ \A id \in Approvals :
       /\ Asked[id].ttl \in Nat
       /\ Asked[id].sod \in BOOLEAN
       /\ Asked[id].requester \in People

ASSUME ApprovalAssumption

Stored == [status : Statuses, reviewer : People \cup {Nobody}, expires_at : Nat]

LedgerTypeOK ==
  /\ approvals \in [Approvals -> Stored]
  /\ clock \in Nat

LedgerInit ==
  /\ approvals = [id \in Approvals |->
                    [status |-> "absent", reviewer |-> Nobody, expires_at |-> 0]]
  /\ clock = 0

Known(id) == id \in Approvals /\ approvals[id].status # "absent"

\* Approval.is_expired: the expiry instant itself is still valid.
IsExpired(id) ==
  approvals[id].expires_at # 0 /\ clock > approvals[id].expires_at

\* The action and purpose an approval is bound to, as consume() compares them.
BoundTo(id, tc) ==
  /\ Asked[id].agent = tc.agent
  /\ Asked[id].tool = tc.tool
  /\ Asked[id].purpose = tc.purpose
  /\ Asked[id].args = tc.args

\* Variant: consume() forgets to look for a replay.
Consumable_Replay(id, tc) ==
  /\ Known(id)
  /\ ~IsExpired(id)
  /\ approvals[id].status \in {"approved", "consumed"}
  /\ BoundTo(id, tc)

\* Variant: consume() does not compare the arguments.
Consumable_AnyArguments(id, tc) ==
  /\ Known(id)
  /\ ~IsExpired(id)
  /\ approvals[id].status = "approved"
  /\ BoundTo(id, [tc EXCEPT !.args = Asked[id].args])

\* consume() for the call tc: whether it gets as far as writing the status.
Consumable(id, tc) ==
  /\ Known(id)
  /\ ~IsExpired(id)
  /\ approvals[id].status = "approved"
  /\ BoundTo(id, tc)

\* What a consume() that raises leaves in the store: an approval past its
\* expiry is marked expired first, whatever its status was.
AfterRefusal(id) ==
  IF Known(id) /\ IsExpired(id)
    THEN [approvals EXCEPT ![id].status = "expired"]
    ELSE approvals

-----------------------------------------------------------------------------
RequestApproval(id) ==
  /\ approvals[id].status = "absent"
  /\ approvals' = [approvals EXCEPT
       ![id].status = "pending",
       ![id].expires_at = IF Asked[id].ttl = 0 THEN 0 ELSE clock + Asked[id].ttl]
  /\ UNCHANGED clock

\* approve() by a reviewer of an approval that is still live.
Approve(id, reviewer) ==
  /\ approvals[id].status = "pending"
  /\ ~IsExpired(id)
  /\ Asked[id].sod => reviewer # Asked[id].requester
  /\ approvals' = [approvals EXCEPT ![id].status = "approved",
                                    ![id].reviewer = reviewer]
  /\ UNCHANGED clock

\* approve() of an expired approval raises, after marking it expired.
ApproveTooLate(id) ==
  /\ Known(id)
  /\ IsExpired(id)
  /\ approvals' = [approvals EXCEPT ![id].status = "expired"]
  /\ UNCHANGED clock

Tick ==
  /\ clock < MaxTime
  /\ clock' = clock + 1
  /\ UNCHANGED approvals

\* What is done to the ledger outside the gateway.
LedgerStep ==
  \/ \E id \in Approvals : RequestApproval(id)
  \/ \E id \in Approvals, reviewer \in People : Approve(id, reviewer)
  \/ \E id \in Approvals : ApproveTooLate(id)
=============================================================================
