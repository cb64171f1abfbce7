----------------------------- MODULE PilotHandler -----------------------------
(***************************************************************************)
(* The golden-pilot MCP gateway Lambda                                     *)
(* (infra/golden-pilot/gateway-src/handler.py) over the approval ledger of *)
(* the reviewer service.  One activation of handler() per member of Calls, *)
(* one step per table access; the predicate is PolicyEngine's.             *)
(*                                                                         *)
(* PilotSent[c] is the request and the verified claims:                    *)
(*    method        "tools/list", "tools/call", or any other               *)
(*    user          sub, "anonymous" without one                           *)
(*    entitlements  what _entitlements reads off the claims                *)
(*    tool, args    args stands for the hash of the arguments              *)
(*    approval      approval_id: a request, or NoRequest                   *)
(*    maskable      whether masking the arguments for the row succeeds     *)
(***************************************************************************)
EXTENDS PolicyEngine, ReviewerService

CONSTANTS Calls, PilotSent, PilotRegion

VARIABLES
  step,   \* [Calls -> where the activation is]
  rows,   \* [Calls -> the decision of its audit row, or "none"]
  taken,  \* the activations whose conditional update consumed an approval
  ran     \* the activations that executed their tool

handlerVars == <<step, rows, taken, ran>>

\* MANIFEST's metadata.id, the agent this handler answers for.
AgentId == "aegis-mcp-gateway"

\* MANIFEST and TOOLS: the grants withhold the one consequential tool.
PilotManifest ==
  [tools |-> [search |-> [scope |-> "read", classes |-> {"public"}],
              draft  |-> [scope |-> "write", classes |-> {"public", "pii"}]],
   consequential  |-> {"submit"},
   classification |-> {"public", "pii"}]

PilotTools ==
  [search |-> [purpose |-> "policy_search", scope |-> "read", classes |-> {"public"}],
   draft  |-> [purpose |-> "draft_response", scope |-> "write",
               classes |-> {"public", "pii"}],
   submit |-> [purpose |-> "decision_support", scope |-> "write",
               classes |-> {"public", "pii"}]]

UnknownTool == [purpose |-> "lookup", scope |-> "read", classes |-> {"public"}]

PilotMeta(tool) == IF tool \in DOMAIN PilotTools THEN PilotTools[tool] ELSE UnknownTool

\* The effect _evaluate gets from the predicate, before or after a consume.
PilotEffect(c, approved) ==
  LET sent == PilotSent[c]
      meta == PilotMeta(sent.tool)
  IN Evaluate([authenticated |-> sent.user # "anonymous",
               entitlements |-> sent.entitlements, tool |-> sent.tool,
               scope |-> meta.scope, purpose |-> meta.purpose, classes |-> meta.classes,
               region |-> PilotRegion, consent |-> TRUE, budget_ok |-> TRUE,
               approval_valid |-> approved], PilotManifest).effect

-----------------------------------------------------------------------------
CallTo(c, from, to) == step[c] = from /\ step' = [step EXCEPT ![c] = to]

\* handler() up to its first table access.
Receive(c) ==
  LET sent   == PilotSent[c]
      effect == PilotEffect(c, FALSE)
  IN /\ CallTo(c, "idle",
          IF sent.method \notin {"tools/list", "tools/call"} THEN "answered"
          ELSE IF sent.entitlements = {} THEN "denying"
          ELSE IF sent.method = "tools/list" THEN "listing"
          ELSE IF effect = "ALLOW" THEN "allowing"
          ELSE IF effect = "APPROVAL_REQUIRED" /\ sent.approval # NoRequest
                 THEN "consuming"
          ELSE "denying")
     /\ UNCHANGED <<serviceVars, rows, taken, ran>>

\* Variant: the binding to the purpose is left out of the condition.
PilotConsumable_AnyPurpose(c) ==
  LET sent == PilotSent[c] IN
  /\ sent.approval \in Requests
  /\ ledger[sent.approval].state = "fresh"
  /\ ledger[sent.approval].expires > clock
  /\ Filed[sent.approval].requester = sent.user
  /\ Filed[sent.approval].agent = AgentId
  /\ Filed[sent.approval].tool = sent.tool
  /\ Filed[sent.approval].args = sent.args

\* The ConditionExpression of _consume_approval.
PilotConsumable(c) ==
  LET sent == PilotSent[c] IN
  /\ sent.approval \in Requests
  /\ ledger[sent.approval].state = "fresh"
  /\ ledger[sent.approval].expires > clock
  /\ Filed[sent.approval] = [requester |-> sent.user, agent |-> AgentId,
                             tool |-> sent.tool, args |-> sent.args,
                             purpose |-> PilotMeta(sent.tool).purpose]

\* One conditional update.  Any exception reads as "not consumable", also one
\* raised after the update took effect (its response was lost).
ConsumeApproval(c) ==
  /\ step[c] = "consuming"
  /\ \/ /\ PilotConsumable(c)
        /\ ledger' = [ledger EXCEPT ![PilotSent[c].approval].state = "consumed"]
        /\ taken' = taken \cup {c}
        /\ \/ CallTo(c, "consuming",
                IF PilotEffect(c, TRUE) = "ALLOW" THEN "allowing" ELSE "denying")
           \/ CallTo(c, "consuming", "denying")
     \/ CallTo(c, "consuming", "denying") /\ UNCHANGED <<ledger, taken>>
  /\ UNCHANGED <<wf, deadline, pending, trail, at, issued, clock, rows, ran>>

\* Variant: the tool executes before the decision is on the record.
AuditRow_AfterExecution(c) ==
  /\ \/ CallTo(c, "allowing", "executing") /\ ran' = ran \cup {c} /\ UNCHANGED rows
     \/ CallTo(c, "executing", "answered") /\ UNCHANGED ran
        /\ rows' = [rows EXCEPT ![c] = "allow"]
     \/ /\ \/ CallTo(c, "listing", "answered") /\ rows' = [rows EXCEPT ![c] = "allow"]
           \/ CallTo(c, "denying", "answered") /\ rows' = [rows EXCEPT ![c] = "deny"]
        /\ UNCHANGED ran
  /\ UNCHANGED <<serviceVars, taken>>

\* audit() of a decision.  It masks the detail first; a fault of the masker or
\* of the table leaves handler() uncaught, see CallDies.
AuditRow(c) ==
  /\ \/ CallTo(c, "allowing", "executing") /\ PilotSent[c].maskable
        /\ rows' = [rows EXCEPT ![c] = "allow"]
     \/ CallTo(c, "listing", "answered") /\ rows' = [rows EXCEPT ![c] = "allow"]
     \/ CallTo(c, "denying", "answered") /\ rows' = [rows EXCEPT ![c] = "deny"]
  /\ UNCHANGED <<serviceVars, taken, ran>>

\* The tool of the pilot is a fixture: executing it is part of the answer.
Execute(c) ==
  /\ CallTo(c, "executing", "answered")
  /\ ran' = ran \cup {c}
  /\ UNCHANGED <<serviceVars, rows, taken>>

\* An uncaught error or a crash ends the activation without an answer.
CallDies(c) ==
  /\ step[c] \notin {"idle", "answered", "dead"}
  /\ step' = [step EXCEPT ![c] = "dead"]
  /\ UNCHANGED <<serviceVars, rows, taken, ran>>

HandlerInit ==
  /\ step = [c \in Calls |-> "idle"]
  /\ rows = [c \in Calls |-> "none"]
  /\ taken = {}
  /\ ran = {}

CallStep(c) == ConsumeApproval(c) \/ AuditRow(c) \/ Execute(c)

HandlerTypeOK ==
  /\ step \in [Calls -> {"idle", "listing", "consuming", "allowing", "denying",
                         "executing", "answered", "dead"}]
  /\ rows \in [Calls -> {"none", "allow", "deny"}]
  /\ taken \subseteq Calls
  /\ ran \subseteq Calls
=============================================================================
