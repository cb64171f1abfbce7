------------------------------- MODULE DeliveryGate -------------------------------
(***************************************************************************)
(* delivery_check of platform_core/prod/manifest_validator.py: development *)
(* conveniences do not ship.  A manifest is the tree it was loaded into    *)
(* (see ManifestTree); the word "changeme" stands for a string with any of *)
(* the placeholder markers in it, in any case.                             *)
(***************************************************************************)
EXTENDS ManifestTree

CONSTANT MaxNesting   \* bound on the depth of a manifest

NestingAssumption == MaxNesting \in Nat

ASSUME NestingAssumption

Placeholder      == "changeme"
MinRetentionDays == 30

\* The values of a mapping and the items of a list.
Contents(node) == {node.kids[i].node : i \in DOMAIN node.kids}

\* The nodes of a tree, by depth.
Levels(root) ==
  LET level[d \in 0 .. MaxNesting] ==
        IF d = 0 THEN {root} ELSE UNION {Contents(node) : node \in level[d - 1]}
  IN level

\* _walk_strings: the string values at any depth; keys are not looked at.
Strings(root) ==
  LET walked == UNION {Levels(root)[d] : d \in 0 .. MaxNesting}
  IN {node.text : node \in {n \in walked : n.tag = "str"}}

Get(node, key) ==
  LET at == {i \in DOMAIN node.kids : node.kids[i].key = <<key>>}
  IN IF node.tag # "map" \/ at = {} THEN Null ELSE node.kids[Min(at)].node

Has(node, key) == \E i \in DOMAIN node.kids : node.kids[i].key = <<key>>

\* int(...) of a number or of a string of digits, 1 for true, else 0.
Days(node) ==
  LET value == [d \in Digits |-> CHOOSE n \in 0 .. 9 : ToString(n) = d]
      text  == Strip(node.text)
  IN IF text # <<>> /\ ToSet(text) \subseteq Digits
       THEN FoldLeft(LAMBDA n, d : 10 * n + value[d], 0, text)
       ELSE IF node.tag = "bool" /\ text = <<"true">> THEN 1 ELSE 0

\* An audit section that is missing, empty or not a mapping is not looked into,
\* nor is an object_lock_mode that is missing or the empty string.
RetentionIsDemo(audit) ==
  /\ audit.tag = "map" /\ audit.kids # <<>>
  /\ \/ /\ Has(audit, "object_lock_mode")
        /\ Get(audit, "object_lock_mode") \notin {Str(<<>>), Str(<<"COMPLIANCE">>)}
     \/ Days(Get(audit, "retention_days")) < MinRetentionDays

\* What "not" holds of: null, false, zero, and whatever is empty.
IsFalsy(node) ==
  CASE node.tag = "null"            -> TRUE
    [] node.tag = "bool"            -> node.text = <<"false">>
    [] node.tag = "int"             -> ToSet(node.text) = {"0"}
    [] node.tag = "str"             -> node.text = <<>>
    [] node.tag \in {"map", "list"} -> node.kids = <<>>

\* Variant: a signature of blanks will do.
IsUnsigned_Unstripped(signing) ==
  signing.tag = "map" /\ signing.kids # <<>> /\ IsFalsy(Get(signing, "signature"))

\* Only a declared signing section has to be signed.
IsUnsigned(signing) ==
  LET signature == Get(signing, "signature")
  IN /\ signing.tag = "map" /\ signing.kids # <<>>
     /\ \/ IsFalsy(signature)
        \/ signature.tag = "str" /\ Strip(signature.text) = <<>>

DeliveryCheck(tree) ==
  /\ tree.tag = "map"
  /\ \A s \in Strings(tree) : Placeholder \notin ToSet(s)
  /\ ~RetentionIsDemo(Get(tree, "audit"))
  /\ ~IsUnsigned(Get(tree, "signing"))
=============================================================================
