---------------------------- MODULE PolicyEngine ----------------------------
(***************************************************************************)
(* The deny-by-default predicate of platform_core/policy_engine.py.        *)
(*                                                                         *)
(* A call context is a record with the fields of AuthContext the predicate *)
(* reads (authenticated: and names a user); a manifest is a record with    *)
(*    tools          [granted tool id -> [scope, classes]]                 *)
(*    consequential  the tool ids withheld behind the human gate           *)
(*    classification the data classes the agent declares                   *)
(*    cap, behavior  the budget line (see TokenBudget)                     *)
(* Identifiers are opaque; only membership and equality matter.  The       *)
(* predicate has no state, so this module declares no variable.            *)
(***************************************************************************)
EXTENDS Naturals

CONSTANTS
  AllowedPurposes,   \* PolicyEngine.allowed_purposes
  ConsentClasses,    \* classes that need consent_present
  GovCloudClasses,   \* classes that may only run in GovCloud
  GovCloudRegions

Scopes == {"read", "write", "execute", "admin"}

(***************************************************************************)
(* _scope_satisfies: equality, an admin grant, or a read request under any *)
(* ranked grant.  write and execute do not stand in for each other.        *)
(***************************************************************************)
ScopeSatisfies(granted, requested) ==
  \/ granted = requested
  \/ granted = "admin"
  \/ requested = "read" /\ granted \in Scopes

Consequential(tool, manifest) == tool \in manifest.consequential

Granted(tool, manifest) == tool \in DOMAIN manifest.tools

(***************************************************************************)
(* Whether a clause of evaluate() is satisfied.                             *)
(* "human_gate" is the approval test inside clause 2, reached by a         *)
(* consequential tool with no executable grant; "approval" is clause 9,    *)
(* which re-affirms it for every consequential tool.                       *)
(***************************************************************************)
ClauseHolds(clause, ctx, manifest) ==
  LET withheld == Consequential(ctx.tool, manifest) /\ ~Granted(ctx.tool, manifest)
      grant    == manifest.tools[ctx.tool]
  IN CASE clause = "authenticated_user"  -> ctx.authenticated
       [] clause = "human_gate"          -> withheld => ctx.approval_valid
       [] clause = "agent_grant"         ->
            \/ withheld
            \/ /\ Granted(ctx.tool, manifest)
               /\ ScopeSatisfies(grant.scope, ctx.scope)
       [] clause = "user_entitlement"    -> ctx.tool \in ctx.entitlements
       [] clause = "purpose"             -> ctx.purpose \in AllowedPurposes
       [] clause = "data_class_boundary" ->
            /\ ctx.classes \subseteq manifest.classification
            /\ Granted(ctx.tool, manifest) /\ grant.classes # {}
                 => ctx.classes \subseteq grant.classes
       [] clause = "consent"             ->
            ctx.classes \cap ConsentClasses # {} => ctx.consent
       [] clause = "residency"           ->
            ctx.classes \cap GovCloudClasses # {} => ctx.region \in GovCloudRegions
       [] clause = "budget"              -> ctx.budget_ok
       [] clause = "approval"            ->
            Consequential(ctx.tool, manifest) => ctx.approval_valid

\* The place of each clause in evaluate(): the first that fails decides.
Rank == [authenticated_user  |-> 1, human_gate |-> 2, agent_grant |-> 3,
         user_entitlement    |-> 4, purpose    |-> 5,
         data_class_boundary |-> 6, consent    |-> 7, residency |-> 8,
         budget              |-> 9, approval   |-> 10]

Failing(ctx, manifest) ==
  {clause \in DOMAIN Rank : ~ClauseHolds(clause, ctx, manifest)}

\* The Decision evaluate() returns: the effect, and the clause that drove it.
Evaluate(ctx, manifest) ==
  LET failing == Failing(ctx, manifest)
      first   == CHOOSE k \in failing : \A j \in failing : Rank[k] <= Rank[j]
  IN IF failing = {}
       THEN [effect |-> "ALLOW", clause |-> "none"]
       ELSE [effect |-> IF first \in {"human_gate", "approval"}
                          THEN "APPROVAL_REQUIRED" ELSE "DENY",
             clause |-> first]
=============================================================================
