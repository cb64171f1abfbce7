-------------------------- MODULE GatewayProperties --------------------------
(***************************************************************************)
(* What must hold of Gateway, whatever the interleaving.                   *)
(***************************************************************************)
EXTENDS Gateway, Functions

Rows == [call : Calls, decision : Decisions]

AuditTypeOK == records \subseteq Rows /\ journal \subseteq Rows

CallTypeOK ==
  /\ pc \in [Calls -> Points]
  /\ seen \in [Calls -> [budget : BOOLEAN, approval : BOOLEAN]]
  /\ outcome \in [Calls -> Outcomes]
  /\ answer \in [Calls -> [effect : Effects, reason : Reasons]]
  /\ completed \subseteq {Key(c) : c \in Calls}
  /\ usage \subseteq Calls
  /\ spender \in [Approvals -> Calls \cup {NoCall}]
  /\ caught \subseteq Calls

\* Every variable stays in its domain: a meter never runs negative, a status is
\* one the ledger knows, an answer one a caller can be given.
TypeOK ==
  /\ LedgerTypeOK
  /\ BudgetTypeOK
  /\ SwitchTypeOK
  /\ AuditTypeOK
  /\ CallTypeOK

-----------------------------------------------------------------------------
\* An approval underwrites at most one execution of a consequential tool,
\* however many activations carry its id, in whatever order they run, whether
\* or not they are told that they succeeded (gateway.py:18-21).
SingleUse ==
  \A c, d \in Ran :
    IsConsequential(c) /\ IsConsequential(d) /\ Sent[c].approval = Sent[d].approval
      => c = d

\* A consequential tool only ever runs on an approval that was given for this
\* agent, tool, arguments and purpose, by a reviewer other than the requester
\* where separation of duties is asked for (approval_ledger.py:3-7).
RunsUnderReview ==
  \A c \in Ran : IsConsequential(c) =>
    LET id == Sent[c].approval
    IN /\ id \in Approvals
       /\ spender[id] = c
       /\ BoundTo(id, Sent[c])
       /\ approvals[id].status \in {"consumed", "expired"}
       /\ approvals[id].reviewer \in People
       /\ Asked[id].sod => approvals[id].reviewer # Asked[id].requester

\* A side effect never runs without a durable row saying it was authorized
\* (gateway.py:11-12): the row is in the file, not just in memory.
AnchoredBeforeRun == \A c \in Ran : Row(c, "INTENT") \in journal

\* A caller told "no" is told the truth: the connector was not called and no
\* approval was used up, so that a retry is safe; a caller told anything else
\* did have its connector called (gateway.py:12-14, 331-332, 414-416).
RefusalIsTruthful ==
  \A c \in Calls : pc[c] = "done" =>
    IF \/ answer[c].effect \in {"ALLOW", "INDETERMINATE"}
       \/ answer[c].reason = "tool_exec_error"
      THEN c \in Ran
      ELSE c \notin Ran /\ \A id \in Approvals : spender[id] # c

\* Every attempt is on the durable record (gateway.py:8-9): an answered call has
\* a closing row in the file, unless the caller was told the record is
\* incomplete (an exception, INDETERMINATE, an INTENT that is not durable) or
\* replayed a key whose completion the record may already hold.
AnsweredOnTheRecord ==
  \A c \in Calls : pc[c] = "done" =>
    \/ \E decision \in Decisions \ {"INTENT"} : Row(c, decision) \in journal
    \/ answer[c].effect \in {"RAISED", "INDETERMINATE"}
    \/ answer[c].reason \in {"intent_not_durable", "already_completed"}

\* The activation that runs a connector does not find its key completed
\* (gateway.py:20-21).
CompletedKeyNeverRuns ==
  [][\A c \in Calls : c \in Ran' \ Ran => Key(c) \notin completed]_vars

\* The same for a consequential tool.
CompletedApprovalNeverRuns ==
  [][\A c \in Calls : c \in Ran' \ Ran /\ IsConsequential(c)
       => Key(c) \notin completed]_vars

\* consume() cannot be overtaken between its test and its write, which the
\* header of approval_ledger.py says and the code leaves to its host.
ConsumeIsAtomic == "checked" \notin Preemptible

(***************************************************************************)
(* Why the above hold: what an activation past a point has behind it, and  *)
(* what an approval that has been given or taken can be traced back to.    *)
(***************************************************************************)
Registered == {"masked", "fresh", "metered", "peeked", "authorized", "anchored",
               "checked", "cleared", "executed", "committed", "settled", "recorded",
               "unrecorded"}
Metered    == Registered \ {"masked", "fresh"}
Anchored   == Metered \ {"metered", "peeked", "authorized"}
Entitled   == {"cleared", "executed", "committed", "settled", "recorded", "unrecorded"}
After      == {"executed", "committed", "settled", "recorded", "unrecorded"}

\* Reviewed(id) holds of an approval that some reviewer was free to give.
Reviewed(id) ==
  /\ approvals[id].reviewer \in People
  /\ Asked[id].sod => approvals[id].reviewer # Asked[id].requester

CallLineage(c) ==
  /\ pc[c] \in Registered => Sent[c].agent \in Agents
  /\ pc[c] \in Metered => Sent[c].tokens >= 0
  /\ pc[c] \in Anchored \/ c \in Ran => Row(c, "INTENT") \in journal
  /\ pc[c] \in {"anchored", "checked"} => IsConsequential(c)
  /\ pc[c] = "checked" => /\ Sent[c].approval \in Approvals
                          /\ approvals[Sent[c].approval].status = "approved"
                          /\ BoundTo(Sent[c].approval, Sent[c])
  /\ IsConsequential(c) /\ (pc[c] \in Entitled \/ c \in Ran)
       => Sent[c].approval \in Approvals /\ spender[Sent[c].approval] = c
  /\ pc[c] \in After => c \in Ran
  /\ c \in Ran => pc[c] \in After \cup {"done"}

ApprovalLineage(id) ==
  /\ approvals[id].status \in {"approved", "consumed"} => Reviewed(id)
  /\ spender[id] # NoCall =>
       /\ approvals[id].status \in {"consumed", "expired"}
       /\ Reviewed(id)
       /\ Sent[spender[id]].approval = id
       /\ BoundTo(id, Sent[spender[id]])
       /\ pc[spender[id]] \in Entitled \/ spender[id] \in Ran

\* The gateway and the ledger agree on who holds which approval, through
\* every refusal, expiry and interleaving (gateway.py:11-24).
Lineage ==
  /\ \A c \in Calls : CallLineage(c)
  /\ \A id \in Approvals : ApprovalLineage(id)

\* A call is told something exactly when it is over, and a durable INTENT belongs
\* to a call that is past the point that writes it.
AnswerLineage ==
  \A c \in Calls :
    /\ pc[c] = "done" <=> answer[c].effect # "none"
    /\ Row(c, "INTENT") \in journal => pc[c] \in Anchored \cup {"done"}

-----------------------------------------------------------------------------
Tokens(S) == SumFunctionOnSet([c \in Calls |-> Sent[c].tokens], S)

\* The calls whose spend is on the meter of an agent.
Spenders(a) ==
  {c \in usage \cup {d \in Calls : pc[d] = "committed"} : Sent[c].agent = a}

\* The chargeback events of an agent, and the spend on its way there, add up to
\* its meter: no spend is billed and not metered, or metered and not billed,
\* whichever way the call ended (gateway.py:385-411).
UsageMatchesMeter ==
  \A a \in Agents : used[a] = Tokens(Spenders(a))

\* The alerts of a meter are those its running total has reached: none is
\* lost, repeated or carried over to the meter of a new registration.
AlertsTrackSpend == \A a \in Agents : alertsFired[a] = Reached(a, used[a])

\* A hard cap is never passed (token_budget.py:14).
HardCapHolds ==
  \A a \in Agents : Manifests[a].behavior = "hard" => used[a] <= Manifests[a].cap

\* The demos and the tests make one call at a time.
OneAtATime == \A c, d \in InFlight : c = d

-----------------------------------------------------------------------------
\* While the switch is engaged no connector runs, save for the activations
\* that were already past the check when it was engaged (kill_switch.py:3-6).
OnlyCaughtCallsRun == [][engaged => Ran' \ Ran \subseteq caught]_vars

\* Whoever engaged last is not the one to release (kill_switch.py:13-14).
ReleasedByAnother ==
  \A i \in 2 .. Len(history) :
    history[i].action = "DISENGAGE"
      => history[i - 1].action = "ENGAGE" /\ history[i - 1].actor # history[i].actor

-----------------------------------------------------------------------------
\* Closed(c): the call is over, and its durable INTENT, if it has one, was not
\* left open unnoticed: it is closed on the record, or its caller is told to
\* reconcile, or gets the audit's own exception.
Closed(c) ==
  /\ pc[c] = "done"
  /\ Row(c, "INTENT") \in journal =>
       \/ \E decision \in {"ALLOW", "ERROR", "DENY"} : Row(c, decision) \in journal
       \/ answer[c].effect \in {"INDETERMINATE", "RAISED"}

\* Every call that is received is answered and its intent closed, whatever
\* fails on the way and whoever else is calling (gateway.py:330-455).
CallsAreClosed == \A c \in Calls : pc[c] = "masked" ~> Closed(c)

-----------------------------------------------------------------------------
\* The gateway implements the promise of GovernedAction: a durable INTENT row
\* is the anchor, the consumed approval the grant, and the answer is what the
\* caller is told.
Told(c) ==
  IF answer[c].effect = "none" THEN "nothing"
  ELSE IF answer[c].effect = "INDETERMINATE" THEN "unknown"
  ELSE IF answer[c].effect = "ALLOW" \/ answer[c].reason = "tool_exec_error"
    THEN "ran" ELSE "refused"

Promise == INSTANCE GovernedAction WITH
  Grants   <- Approvals,
  NoGrant  <- NoApproval,
  Needs    <- [c \in Calls |-> IF IsConsequential(c) THEN Sent[c].approval
                                                     ELSE NoApproval],
  anchored <- {c \in Calls : Row(c, "INTENT") \in journal},
  spent    <- spender,
  ran      <- Ran,
  told     <- [c \in Calls |-> Told(c)]

KeepsItsPromise == Promise!Spec

-----------------------------------------------------------------------------
(***************************************************************************)
(* Statements of the repository that the code does not keep; each is the   *)
(* property of a run that refutes it.                                      *)
(***************************************************************************)

\* "Engaging also zeroes every registered budget meter (belt and suspenders:
\* even a caller that somehow bypassed the gateway check fails its budget
\* preflight)" (kill_switch.py:19-21).
EngagedMeansNoBudget ==
  engaged => \A a \in Agents, c \in Calls :
    Sent[c].tokens > 0 => ~PreflightAllows(a, Sent[c].tokens)

\* "append COMPLETED / FAILED" (gateway.py:22), with ERROR for a connector
\* that raised: ALLOW tells the caller, and the record, of a success.
AllowMeansSuccess ==
  \A c \in Calls : answer[c].effect = "ALLOW" => outcome[c] = "ok"
=============================================================================
