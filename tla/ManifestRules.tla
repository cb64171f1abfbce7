------------------------------ MODULE ManifestRules ------------------------------
(***************************************************************************)
(* What is refused before an agent is registered: validate_manifest of     *)
(* platform_core/manifest_loader.py ("offline" here) and of                *)
(* platform_core/prod/manifest_validator.py ("production").                *)
(*                                                                         *)
(* A manifest is a record with                                             *)
(*    header          apiVersion and kind are the constants asked for      *)
(*    shape           [section -> "map", "scalar", "null", "absent"]; an   *)
(*                    empty mapping counts as an absent one                *)
(*    leaf            [leaf -> "ok", "bad", "absent"], how a plain field   *)
(*                    stands to its pattern, enumeration or range          *)
(*    classification  metadata.classification                              *)
(*    tools           sequence of [id, scope, classes]                     *)
(*    consequential   grants.consequential                                 *)
(*    cap             budget.monthly_token_cap                             *)
(* The errors are reported as a list whose texts do not matter here: only  *)
(* whether it is empty, or an exception comes in its place.                *)
(***************************************************************************)
EXTENDS Integers, Sequences, SequencesExt, PolicyEngine

CONSTANTS
  DataClasses,   \* _DATA_CLASSES
  ToolIds        \* the tool ids that match _TOOL_RE

Sections == {"metadata", "grants", "grounding", "budget", "evals", "human_gate",
             "signing"}

SectionOf ==
  [id |-> "metadata", owner |-> "metadata", packs |-> "metadata",
   blast_radius |-> "metadata", knowledge_base |-> "grounding",
   grounding_threshold |-> "grounding", inference_profile |-> "budget",
   cap_behavior |-> "budget", alert_thresholds |-> "budget", suite |-> "evals",
   min_pass_rate |-> "evals", mode |-> "human_gate",
   separation_of_duties |-> "human_gate", publisher |-> "signing",
   signature |-> "signing"]

Leaves   == DOMAIN SectionOf
Optional == {"blast_radius", "cap_behavior"}

LeafIsRight(m, leaf) ==
  m.leaf[leaf] \in {"ok"} \cup (IF leaf \in Optional THEN {"absent"} ELSE {})

IsMap(m, section) == m.shape[section] = "map"

SectionIsRight(m, section) ==
  \A leaf \in Leaves : SectionOf[leaf] = section => LeafIsRight(m, leaf)

\* What md.get("classification") yields where the grants are checked.
Declared(m) == IF IsMap(m, "metadata") THEN m.classification ELSE {}

ClassesAreKnown(m) ==
  m.classification # {} /\ m.classification \subseteq DataClasses

ToolIsRight(m, tool) ==
  /\ tool.id \in ToolIds
  /\ tool.scope \in Scopes
  /\ tool.classes \subseteq Declared(m)

\* Minimum-bar point 2: no consequential id among the executable grants.
Withheld(m) == \A t \in ToSet(m.tools) : t.id \notin m.consequential

\* md.get raises on a metadata section that is there and is not a mapping.
OfflineRaises(m) ==
  /\ m.shape["metadata"] \in {"null", "scalar"}
  /\ IsMap(m, "grants")
  /\ m.tools # <<>>

\* req() and isinstance(..., dict) guard each section: a section that is a
\* scalar is there, and what should be in it is not looked for.
OfflineAccepts(m) ==
  /\ ~OfflineRaises(m)
  /\ m.header
  /\ \A s \in Sections : m.shape[s] \in {"map", "scalar"}
  /\ \A s \in Sections : IsMap(m, s) => SectionIsRight(m, s)
  /\ IsMap(m, "metadata") => ClassesAreKnown(m)
  /\ IsMap(m, "grants") =>
       /\ m.tools # <<>>
       /\ \A t \in ToSet(m.tools) : ToolIsRight(m, t)
       /\ m.consequential \subseteq ToolIds
       /\ Withheld(m)
  /\ IsMap(m, "budget") => m.cap >= 1

\* The JSON Schema of governance/onboarding: every section is an object, and a
\* data class of a tool only has to be one of the enumeration.
Conforms(m) ==
  /\ m.header
  /\ \A s \in Sections : IsMap(m, s) /\ SectionIsRight(m, s)
  /\ ClassesAreKnown(m)
  /\ m.tools # <<>> /\ IsInjective(m.tools)
  /\ \A t \in ToSet(m.tools) : /\ t.id \in ToolIds /\ t.scope \in Scopes
                               /\ t.classes \subseteq DataClasses
  /\ m.consequential \subseteq ToolIds
  /\ m.cap >= 1

\* Whatever faults on the way (the schema, the manifest, the validator) refuses.
ProductionAccepts(m, fault) == fault = "none" /\ Conforms(m)

=============================================================================
