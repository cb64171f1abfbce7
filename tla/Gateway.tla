------------------------------- MODULE Gateway -------------------------------
(***************************************************************************)
(* AuthorizationGateway.call (platform_core/gateway.py) run by concurrent  *)
(* callers over one approval ledger, one set of budget meters, one audit   *)
(* trail and one kill switch.                                              *)
(*                                                                         *)
(* A member of Calls is one activation of call(), which draws a fresh      *)
(* request id: Sent[c] is the ToolCall it was given.  Two members with the *)
(* same ToolCall are a retry, or a replay, of one another.                 *)
(*                                                                         *)
(* A step is one access to shared state with the computation around it; a  *)
(* refusal and its audit row are one step.                                 *)
(* Preemptible says at which points an activation may be overtaken, since  *)
(* the code takes no lock and leaves this to whoever runs it:              *)
(*    Points                threads, switched between any two steps        *)
(*    Points \ {"checked"}  threads, and consume() atomic as the header of *)
(*                          approval_ledger.py says it is                  *)
(* MaxInFlight = 1 is the sequential use of the demos and the tests.       *)
(***************************************************************************)
EXTENDS PolicyEngine, ApprovalLedger, TokenBudget, KillSwitch, AuditTrail,
        FiniteSets

CONSTANTS
  Calls,         \* activations of call()
  Sent,          \* [Calls -> ToolCall]
  NoCall,        \* not an activation
  NoApproval,    \* the empty approval_id
  Tools,         \* tool ids with a registered connector
  ConnectorOutcomes, \* how a connector may end: "ok", "raised", "raised_blank"
  Reregister,    \* whether register_agent may be called again
  Preemptible,   \* the points at which an activation may be overtaken
  MaxStarted,    \* bound on the activations begun
  MaxInFlight    \* bound on the activations running at once

VARIABLES
  pc,         \* [Calls -> the point the activation has reached]
  seen,       \* [Calls -> what it has read: budget_ok, approval_valid]
  outcome,    \* [Calls -> how its connector ended, "none" if it did not run]
  answer,     \* [Calls -> the GatewayResult, as effect and reason]
  completed,  \* _completed: keys that reached COMPLETED
  usage,      \* the activations with an event in the UsageLedger
  spender,    \* history: [Approvals -> the activation whose consume returned]
  caught      \* history: the activations in flight at the latest engagement

callVars == <<pc, seen, outcome, answer, completed, usage, spender, caught>>
vars == <<ledgerVars, budgetVars, switchVars, auditVars, callVars>>

Points == {"idle", "masked", "fresh", "metered", "peeked", "authorized",
           "anchored", "checked", "cleared", "executed", "committed", "settled",
           "recorded", "unrecorded", "done"}
Outcomes == {"none", "ok", "raised", "raised_blank"}
Effects == {"none", "ALLOW", "DENY", "APPROVAL_REQUIRED", "INDETERMINATE", "RAISED"}
Reasons == {"none", "kill_switch_engaged", "unregistered_agent",
            "masking_fail_closed", "already_completed",
            "negative_tokens", "policy",
            "policy_eval_fail_closed", "tool_not_registered",
            "intent_not_durable", "approval_consume_failed",
            "tool_exec_error", "reconciliation_required", "executed"}
Decisions == {"INTENT", "ALLOW", "DENY", "APPROVAL_REQUIRED", "ERROR"}

\* The prefixes req_ and apr_ keep request ids and approval ids apart.
GatewayAssumption ==
  /\ Calls \cap Approvals = {}
  /\ NoCall \notin Calls
  /\ NoApproval \notin Approvals
  /\ ConnectorOutcomes \subseteq Outcomes \ {"none"}
  /\ Reregister \in BOOLEAN
  /\ Preemptible \subseteq Points
  /\ MaxStarted \in Nat
  /\ MaxInFlight \in Nat
  /\ \A c \in Calls : Sent[c].tokens \in Int

ASSUME GatewayAssumption

-----------------------------------------------------------------------------
Row(c, decision) == [call |-> c, decision |-> decision]

IsConsequential(c) ==
  /\ Sent[c].agent \in Agents
  /\ Consequential(Sent[c].tool, Manifests[Sent[c].agent])

\* idempotency_key(): agent, tool, arguments, and the approval id if there is
\* one, else the request id.  The purpose is no part of it.
Key(c) ==
  <<Sent[c].agent, Sent[c].tool, Sent[c].args,
    IF Sent[c].approval # NoApproval THEN Sent[c].approval ELSE c>>

InFlight == {c \in Calls : pc[c] \notin {"idle", "done"}}
Started == {c \in Calls : pc[c] # "idle"}
Ran == {c \in Calls : outcome[c] # "none"}

\* Every activation in flight, but those of S, is where it may be overtaken.
OthersYield(S) == \A d \in InFlight \ S : pc[d] \in Preemptible

Init ==
  /\ LedgerInit
  /\ BudgetInit
  /\ SwitchInit
  /\ AuditInit
  /\ pc = [c \in Calls |-> "idle"]
  /\ seen = [c \in Calls |-> [budget |-> FALSE, approval |-> FALSE]]
  /\ outcome = [c \in Calls |-> "none"]
  /\ answer = [c \in Calls |-> [effect |-> "none", reason |-> "none"]]
  /\ completed = {}
  /\ usage = {}
  /\ spender = [id \in Approvals |-> NoCall]
  /\ caught = {}

\* Activation c is at the point, and may take a step.
At(c, point) == pc[c] = point /\ OthersYield({c})

Goto(c, point) == pc' = [pc EXCEPT ![c] = point]

Return(c, effect, reason) ==
  /\ Goto(c, "done")
  /\ answer' = [answer EXCEPT ![c] = [effect |-> effect, reason |-> reason]]

\* Variant: the refusal is returned whether or not it could be audited.
Refuse_Unaudited(c, decision, effect, reason) ==
  /\ Appends(Row(c, decision)) \/ AppendRaises(Row(c, decision))
  /\ Return(c, effect, reason)

\* A refusal that is audited first: an append that raises reaches the caller
\* as that exception in place of the answer.
Refuse(c, decision, effect, reason) ==
  \/ Appends(Row(c, decision)) /\ Return(c, effect, reason)
  \/ AppendRaises(Row(c, decision)) /\ Return(c, "RAISED", reason)

-----------------------------------------------------------------------------
\* Variant: the kill switch is not consulted.
Receive_Uncontained(c) ==
  /\ At(c, "idle")
  /\ Cardinality(Started) < MaxStarted
  /\ Cardinality(InFlight) < MaxInFlight
  /\ Goto(c, "masked")
  /\ UNCHANGED <<answer, auditVars>>
  /\ UNCHANGED <<ledgerVars, budgetVars, switchVars,
                 seen, outcome, completed, usage, spender, caught>>

\* Kill switch, agent registry and boundary masking, in that order.
Receive(c) ==
  /\ At(c, "idle")
  /\ Cardinality(Started) < MaxStarted
  /\ Cardinality(InFlight) < MaxInFlight
  /\ \/ engaged /\ Refuse(c, "DENY", "DENY", "kill_switch_engaged")
     \/ /\ ~engaged
        /\ Sent[c].agent \notin Agents
        /\ Refuse(c, "ERROR", "DENY", "unregistered_agent")
     \/ /\ ~engaged
        /\ Sent[c].agent \in Agents
        /\ ~Sent[c].maskable
        /\ Refuse(c, "DENY", "DENY", "masking_fail_closed")
     \/ /\ ~engaged
        /\ Sent[c].agent \in Agents
        /\ Sent[c].maskable
        /\ Goto(c, "masked")
        /\ UNCHANGED <<answer, auditVars>>
  /\ UNCHANGED <<ledgerVars, budgetVars, switchVars,
                 seen, outcome, completed, usage, spender, caught>>

\* Variant: no outbox look-up.
Deduplicate_Never(c) ==
  /\ At(c, "masked")
  /\ Goto(c, "fresh")
  /\ UNCHANGED <<answer, auditVars>>
  /\ UNCHANGED <<ledgerVars, budgetVars, switchVars,
                 seen, outcome, completed, usage, spender, caught>>

\* A replay of a completed key is refused; here a failing audit is swallowed.
Deduplicate(c) ==
  /\ At(c, "masked")
  /\ \/ /\ Key(c) \in completed
        /\ Appends(Row(c, "DENY")) \/ AppendRaises(Row(c, "DENY"))
        /\ Return(c, "DENY", "already_completed")
     \/ /\ Key(c) \notin completed
        /\ Goto(c, "fresh")
        /\ UNCHANGED <<answer, auditVars>>
  /\ UNCHANGED <<ledgerVars, budgetVars, switchVars,
                 seen, outcome, completed, usage, spender, caught>>

\* The meter is read.  A negative estimate is a ValueError that nothing
\* catches, and nothing is audited.
PreflightBudget(c) ==
  /\ At(c, "fresh")
  /\ \/ /\ Sent[c].tokens < 0
        /\ Return(c, "RAISED", "negative_tokens")
        /\ UNCHANGED seen
     \/ /\ Sent[c].tokens >= 0
        /\ seen' = [seen EXCEPT ![c].budget =
                      PreflightAllows(Sent[c].agent, Sent[c].tokens)]
        /\ Goto(c, "metered")
        /\ UNCHANGED answer
  /\ UNCHANGED <<ledgerVars, budgetVars, switchVars, auditVars,
                 outcome, completed, usage, spender, caught>>

\* The approval is looked at, not taken: status, expiry, agent and tool, but
\* neither the arguments nor the purpose.
PeekApproval(c) ==
  /\ At(c, "metered")
  /\ LET id == Sent[c].approval
     IN seen' = [seen EXCEPT ![c].approval =
                   /\ Known(id)
                   /\ approvals[id].status = "approved"
                   /\ ~IsExpired(id)
                   /\ Asked[id].agent = Sent[c].agent
                   /\ Asked[id].tool = Sent[c].tool]
  /\ Goto(c, "peeked")
  /\ UNCHANGED <<ledgerVars, budgetVars, switchVars, auditVars,
                 outcome, answer, completed, usage, spender, caught>>

\* The AuthContext built from the ToolCall and the two readings.
Context(c, reading) ==
  [authenticated  |-> Sent[c].authenticated, entitlements |-> Sent[c].entitlements,
   tool           |-> Sent[c].tool,          scope        |-> Sent[c].scope,
   purpose        |-> Sent[c].purpose,       classes      |-> Sent[c].classes,
   region         |-> Sent[c].region,        consent      |-> Sent[c].consent,
   approval_valid |-> reading.approval,      budget_ok    |-> reading.budget]

\* The effect of the predicate on a call to a registered agent, for each reading.
Verdict ==
  [c \in {d \in Calls : Sent[d].agent \in Agents} |->
    [reading \in [budget : BOOLEAN, approval : BOOLEAN] |->
      Evaluate(Context(c, reading), Manifests[Sent[c].agent]).effect]]

\* The predicate, then the test that a connector is registered for the tool.
Authorize(c) ==
  /\ At(c, "peeked")
  /\ \/ /\ Verdict[c][seen[c]] # "ALLOW"
        /\ Refuse(c, Verdict[c][seen[c]], Verdict[c][seen[c]], "policy")
     \/ /\ Verdict[c][seen[c]] = "ALLOW"
        /\ Sent[c].tool \notin Tools
        /\ Refuse(c, "DENY", "DENY", "tool_not_registered")
     \/ /\ Verdict[c][seen[c]] = "ALLOW"
        /\ Sent[c].tool \in Tools
        /\ Goto(c, "authorized")
        /\ UNCHANGED <<answer, auditVars>>
  /\ UNCHANGED <<ledgerVars, budgetVars, switchVars,
                 seen, outcome, completed, usage, spender, caught>>

\* A predicate that raises is a denial.
PolicyFault(c) ==
  /\ At(c, "peeked")
  /\ Refuse(c, "DENY", "DENY", "policy_eval_fail_closed")
  /\ UNCHANGED <<ledgerVars, budgetVars, switchVars,
                 seen, outcome, completed, usage, spender, caught>>

\* Variant: the INTENT row is best effort.
AppendIntent_BestEffort(c) ==
  /\ At(c, "authorized")
  /\ Appends(Row(c, "INTENT")) \/ AppendRaises(Row(c, "INTENT"))
  /\ Goto(c, IF IsConsequential(c) THEN "anchored" ELSE "cleared")
  /\ UNCHANGED answer
  /\ UNCHANGED <<ledgerVars, budgetVars, switchVars,
                 seen, outcome, completed, usage, spender, caught>>

\* The AUTHORIZED-INTENT row, before anything is consumed or executed.
AppendIntent(c) ==
  /\ At(c, "authorized")
  /\ \/ /\ Appends(Row(c, "INTENT"))
        /\ Goto(c, IF IsConsequential(c) THEN "anchored" ELSE "cleared")
        /\ UNCHANGED answer
     \/ /\ AppendRaises(Row(c, "INTENT"))
        /\ Return(c, "DENY", "intent_not_durable")
  /\ UNCHANGED <<ledgerVars, budgetVars, switchVars,
                 seen, outcome, completed, usage, spender, caught>>

\* Variant: an approval that cannot be consumed is waited for.
CheckApproval_Waits(c) ==
  /\ At(c, "anchored")
  /\ Consumable(Sent[c].approval, Sent[c])
  /\ Goto(c, "checked")
  /\ UNCHANGED <<ledgerVars, budgetVars, switchVars, auditVars,
                 seen, outcome, answer, completed, usage, spender, caught>>

\* consume() for a consequential activation, up to the status it writes: the
\* activation goes on to take the approval, or is denied.
CheckApproval(c) ==
  /\ At(c, "anchored")
  /\ LET id == Sent[c].approval
     IN \/ /\ Consumable(id, Sent[c])
           /\ Goto(c, "checked")
           /\ UNCHANGED <<approvals, answer, auditVars>>
        \/ /\ ~Consumable(id, Sent[c])
           /\ approvals' = AfterRefusal(id)
           /\ Refuse(c, "DENY", "DENY", "approval_consume_failed")
  /\ UNCHANGED <<clock, budgetVars, switchVars,
                 seen, outcome, completed, usage, spender, caught>>

\* Variant: the status is not written.
TakeApproval_KeepsStatus(c) ==
  /\ At(c, "checked")
  /\ spender' = [spender EXCEPT ![Sent[c].approval] = c]
  /\ Goto(c, "cleared")
  /\ UNCHANGED <<ledgerVars, budgetVars, switchVars, auditVars,
                 seen, outcome, answer, completed, usage, caught>>

\* The last lines of consume(): the status is written, not tested again.
TakeApproval(c) ==
  /\ At(c, "checked")
  /\ approvals' = [approvals EXCEPT ![Sent[c].approval].status = "consumed"]
  /\ spender' = [spender EXCEPT ![Sent[c].approval] = c]
  /\ Goto(c, "cleared")
  /\ UNCHANGED <<clock, budgetVars, switchVars, auditVars,
                 seen, outcome, answer, completed, usage, caught>>

\* The connector returns or raises; either way it was called.
Execute(c) ==
  /\ At(c, "cleared")
  /\ \E o \in ConnectorOutcomes : outcome' = [outcome EXCEPT ![c] = o]
  /\ Goto(c, "executed")
  /\ UNCHANGED <<ledgerVars, budgetVars, switchVars, auditVars,
                 seen, answer, completed, usage, spender, caught>>

\* Variant: the meter is advanced only by a connector that returned.
CommitTokens_OnSuccess(c) ==
  /\ At(c, "executed")
  /\ IF outcome[c] = "ok" THEN CommitSpend(Sent[c].agent, Sent[c].tokens)
                          ELSE UNCHANGED budgetVars
  /\ Goto(c, "committed")
  /\ UNCHANGED <<ledgerVars, switchVars, auditVars,
                 seen, outcome, answer, completed, usage, spender, caught>>

\* The meter is advanced whether or not the connector raised.
CommitTokens(c) ==
  /\ At(c, "executed")
  /\ CommitSpend(Sent[c].agent, Sent[c].tokens)
  /\ Goto(c, "committed")
  /\ UNCHANGED <<ledgerVars, switchVars, auditVars,
                 seen, outcome, answer, completed, usage, spender, caught>>

\* The same spend is billed.
RecordUsage(c) ==
  /\ At(c, "committed")
  /\ usage' = usage \cup {c}
  /\ Goto(c, "settled")
  /\ UNCHANGED <<ledgerVars, budgetVars, switchVars, auditVars,
                 seen, outcome, answer, completed, spender, caught>>

\* Variant: a completion that cannot be recorded is reported as a denial.
AppendCompletion_Denies(c) ==
  /\ At(c, "settled")
  /\ \/ /\ Appends(Row(c, "ALLOW"))
        /\ Goto(c, "recorded")
        /\ UNCHANGED answer
     \/ /\ AppendRaises(Row(c, "ALLOW"))
        /\ Return(c, "DENY", "intent_not_durable")
  /\ UNCHANGED <<ledgerVars, budgetVars, switchVars,
                 seen, outcome, completed, usage, spender, caught>>

\* The COMPLETED or FAILED row.  exec_error holds the text of the exception: it
\* is tested for truth when the row is written, so that an exception with no
\* text counts as success, and for None when the row could not be written.
AppendCompletion(c) ==
  /\ At(c, "settled")
  /\ \/ /\ outcome[c] = "raised"
        /\ Appends(Row(c, "ERROR"))
        /\ Return(c, "DENY", "tool_exec_error")
     \/ /\ outcome[c] # "raised"
        /\ Appends(Row(c, "ALLOW"))
        /\ Goto(c, "recorded")
        /\ UNCHANGED answer
     \/ /\ outcome[c] = "ok"
        /\ AppendRaises(Row(c, "ALLOW"))
        /\ Goto(c, "unrecorded")
        /\ UNCHANGED answer
     \/ /\ outcome[c] # "ok"
        /\ AppendRaises(Row(c, IF outcome[c] = "raised" THEN "ERROR" ELSE "ALLOW"))
        /\ Return(c, "INDETERMINATE", "reconciliation_required")
  /\ UNCHANGED <<ledgerVars, budgetVars, switchVars,
                 seen, outcome, completed, usage, spender, caught>>

\* The key enters the outbox and the caller is answered.
Complete(c) ==
  /\ \/ At(c, "recorded") /\ Return(c, "ALLOW", "executed")
     \/ At(c, "unrecorded") /\ Return(c, "INDETERMINATE", "reconciliation_required")
  /\ completed' = completed \cup {Key(c)}
  /\ UNCHANGED <<ledgerVars, budgetVars, switchVars, auditVars,
                 seen, outcome, usage, spender, caught>>

\* Everything an activation does after it has been received.
Proceed(c) ==
  \/ Deduplicate(c)
  \/ PreflightBudget(c)
  \/ PeekApproval(c)
  \/ Authorize(c)
  \/ PolicyFault(c)
  \/ AppendIntent(c)
  \/ CheckApproval(c)
  \/ TakeApproval(c)
  \/ Execute(c)
  \/ CommitTokens(c)
  \/ RecordUsage(c)
  \/ AppendCompletion(c)
  \/ Complete(c)

-----------------------------------------------------------------------------
\* Requesters and reviewers, who share the process, and time, which does not.
Review ==
  /\ \/ LedgerStep /\ OthersYield({})
     \/ Tick
  /\ UNCHANGED <<budgetVars, switchVars, auditVars, callVars>>

\* Operators of the kill switch.
Contain ==
  /\ OthersYield({})
  /\ \E actor \in Operators :
       \/ Engage(actor) /\ caught' = InFlight
       \/ Disengage(actor) /\ UNCHANGED caught
  /\ UNCHANGED <<ledgerVars, budgetVars, auditVars,
                 pc, seen, outcome, answer, completed, usage, spender>>

\* register_agent() again, for an agent that is registered already.
RegisterAgent(a) ==
  /\ Reregister
  /\ OthersYield({})
  /\ RegisterMeter(a)
  /\ UNCHANGED <<ledgerVars, switchVars, auditVars, callVars>>

Next ==
  \/ \E c \in Calls : Receive(c) \/ Proceed(c)
  \/ Review
  \/ Contain
  \/ \E a \in Agents : RegisterAgent(a)

Spec == Init /\ [][Next]_vars

\* A call that has been received runs on: Python does not abandon a running
\* function, and every step but the connector is bounded.  Fairness of
\* Execute is the assumption that the connector returns or raises.
FairSpec == Spec /\ WF_vars(\E c \in Calls : Proceed(c))
=============================================================================
