------------------------------ MODULE CedarCompiler ------------------------------
(***************************************************************************)
(* The policy platform_core/prod/cedar_compiler.py compiles a manifest to, *)
(* as Amazon Verified Permissions evaluates it: permitted when the permit  *)
(* matches, denied otherwise.  The text of the policy does not depend on   *)
(* the manifest; its tool ids come back beside it, to be registered as the *)
(* grants of the Agent entity.                                             *)
(***************************************************************************)
EXTENDS ManifestRules

\* Variant: every tool the manifest mentions, withheld ones too.
GrantIds_AllMentioned(m) ==
  {m.tools[i].id : i \in DOMAIN m.tools} \cup m.consequential

\* _tool_ids: the executable grants; none when grants is missing or empty.
GrantIds(m) ==
  IF IsMap(m, "grants") THEN {m.tools[i].id : i \in DOMAIN m.tools} ELSE {}

\* The entities and the context of one is-authorized request, as the schema has
\* them: the Agent's grants, the Tool as it was registered, one data class and its
\* purposes, and what the caller says of the human.  Neither the Tool's
\* attributes nor the human's clearance come from the manifest or the call.
CedarRequest(m, ctx) ==
  [grants           |-> GrantIds(m),
   tool             |-> [id |-> ctx.tool, dataClass |-> ctx.registered.dataClass,
                         allowedPurposes |-> ctx.registered.allowedPurposes],
   userEntitlements |-> ctx.entitlements,
   userDataClasses  |-> ctx.clearance,
   purpose          |-> ctx.purpose]

\* The four conditions of the permit.
CedarPermits(req) ==
  /\ req.tool.id \in req.grants
  /\ req.tool.id \in req.userEntitlements
  /\ req.purpose \in req.tool.allowedPurposes
  /\ req.tool.dataClass \in req.userDataClasses
=============================================================================
