--------------------------------- MODULE Rulings ---------------------------------
(***************************************************************************)
(* What the governance library rules on an agent: whether its manifest is  *)
(* accepted and what it may then call, whether it can be delivered and its *)
(* signature verifies, what leaves the boundary unmasked, what a model may *)
(* answer, and what is billed.  The functions are stateless and asked one  *)
(* question at a time: asked is the operation and its case, answer what    *)
(* came back, as a sequence of none or one.  The invariants compare the    *)
(* rulings with one another and with what was asked.                       *)
(***************************************************************************)
EXTENDS CedarCompiler, ManifestSigning, ModelGateway, Chargeback, DeliveryGate, Masker

VARIABLES asked, answer

libraryVars == <<asked, answer>>

CONSTANTS
  Manifests,    \* [manifest, fault]: manifests that are validated
  Contexts,     \* the calls made under an accepted manifest: what the engine reads of
                \* each, and what Cedar does: registered [dataClass, allowedPurposes]
                \* and clearance, the data classes of the human
  Signings,     \* [signed, presented, signer, trusted, fault]
  Prompts,      \* [allowlist, request]
  Usages,       \* sequences of usage events
  Deliveries,   \* [clean, key, node]: a deliverable tree, what is put into it and
                \* what is said of that: hasPlaceholder, mode, days, signing
  Texts         \* [text, classes, real, engine]

\* A text before it is masked holds no redaction, and a blank or a hyphen between
\* any two tokens; an address stands behind a blank, and not behind a bare prefix.
IsAsWritten(tokens) ==
  /\ tokens \in Seq(Token)
  /\ \A i \in DOMAIN tokens : ~IsRedacted(tokens[i])
  /\ \A i \in DOMAIN tokens \ {1} :
       /\ tokens[i].glue # ""
       /\ tokens[i].word = "mail" => tokens[i].glue = " " /\ tokens[i - 1].word \notin {"MRN", "SID"}

\* A manifest lists its tools in a sequence; a publisher is not the mark of a
\* missing signing section; texts are finite, and a threshold is one the schema
\* allows (agent-manifest.schema.json:159-164); usage is counted in integers.
RulingsAssumption ==
  /\ \A case \in Manifests :
       IsFiniteSet(DOMAIN case.manifest.tools) /\ DOMAIN case.manifest.tools \subseteq Nat
  /\ \A case \in Signings : \A m \in {case.signed, case.presented} :
       m.signing.publisher # "none"
  /\ \A case \in Prompts :
       IsFiniteSet(UNION case.request.sources) /\ case.request.threshold \in 0 .. 99
  /\ \A case \in Usages :
       /\ Len(case) \in Nat /\ DOMAIN case = 1 .. Len(case)
       /\ \A i \in DOMAIN case :
            case[i].tokens_in \in Int /\ case[i].tokens_out \in Int /\ case[i].cost \in Int
  /\ \A case \in Texts : IsAsWritten(case.text.tokens)

ASSUME RulingsAssumption

\* A section that declares nothing: null, an empty mapping, or no mapping.
IsHollow(node) == node.tag # "map" \/ node.kids = <<>>

\* What is put into a deliverable tree is no deeper than the walk, holds no
\* placeholder where it is put in for its retention or its signature, and is what
\* is said of it.
DeliveriesAssumption ==
  \A case \in Deliveries :
    LET clean == case.clean
        node  == case.node
    IN /\ clean = Node(clean.tag, clean.text, clean.kids)
       /\ Len(clean.kids) \in Nat /\ DOMAIN clean.kids = 1 .. Len(clean.kids)
       /\ \A i \in DOMAIN clean.kids :
            clean.kids[i] = Entry(clean.kids[i].key, clean.kids[i].node)
       /\ DeliveryCheck(clean)
       /\ Levels(node)[MaxNesting] = {}
       /\ case.hasPlaceholder <=> \E s \in Strings(node) : Placeholder \in ToSet(s)
       /\ case.key \in {<<"audit">>, <<"signing">>} => ~case.hasPlaceholder
       /\ case.key = <<"audit">> =>
            /\ case.mode = "hollow" <=> IsHollow(node)
            /\ case.mode = "unset" <=> ~IsHollow(node) /\ ~Has(node, "object_lock_mode")
            /\ case.mode \notin {"hollow", "unset"} =>
                 Get(node, "object_lock_mode") = Str(<<case.mode>>)
            /\ case.days = Days(Get(node, "retention_days"))
       /\ case.key = <<"signing">> =>
            LET signature == Get(node, "signature")
                isBlank   == \/ IsFalsy(signature)
                             \/ signature.tag = "str" /\ Strip(signature.text) = <<>>
            IN case.signing = CASE IsHollow(node) -> "hollow"
                                [] ~IsHollow(node) /\ isBlank  -> "unsigned"
                                [] ~IsHollow(node) /\ ~isBlank -> "signed"

ASSUME DeliveriesAssumption

Ask(op, case) == asked = [op |-> op, case |-> case]

Reply(op, value) ==
  /\ asked.op = op /\ answer = <<>>
  /\ answer' = <<value>>
  /\ UNCHANGED asked

Answered(op) == asked.op = op /\ answer # <<>>

RulingInit ==
  /\ \/ \E case \in Manifests : Ask("accept", case)
     \/ \E case \in Signings  : Ask("verify", case)
     \/ \E case \in Prompts   : Ask("invoke", case)
     \/ \E case \in Usages    : Ask("report", case)
     \/ \E case \in Deliveries : Ask("deliver", case)
     \/ \E case \in Texts     : Ask("mask", case)
  /\ answer = <<>>

Accept ==
  LET m == asked.case.manifest
  IN Reply("accept", [offline    |-> OfflineAccepts(m),
                      production |-> ProductionAccepts(m, asked.case.fault)])

Verify ==
  LET case == asked.case
  IN Reply("verify", VerifyManifest(case.trusted, case.presented,
                                    SignManifest(case.signer, case.signed), case.fault))

InvokeModel == Reply("invoke", Invoke(asked.case.allowlist, asked.case.request))

ReportUsage == Reply("report", Report(asked.case))

\* What is put into a deliverable tree is put into it as a further entry.
Delivered(case) ==
  [case.clean EXCEPT !.kids = SetKey(case.clean.kids, case.key, case.node)]

Deliver == Reply("deliver", DeliveryCheck(Delivered(asked.case)))

Mask == LET case == asked.case
        IN Reply("mask", MaskReport(case.text, case.classes, case.real, case.engine))

Rule == Accept \/ Verify \/ InvokeModel \/ ReportUsage \/ Deliver \/ Mask

RulingSpec == RulingInit /\ [][Rule]_libraryVars

-----------------------------------------------------------------------------
\* The manifest as PolicyEngine reads it: a tool id listed twice means its last
\* entry.
AsPolicy(m) ==
  [tools          |-> [t \in {m.tools[i].id : i \in DOMAIN m.tools} |->
                         LET last == Max({i \in DOMAIN m.tools : m.tools[i].id = t})
                         IN [scope |-> m.tools[last].scope, classes |-> m.tools[last].classes]],
   consequential  |-> m.consequential,
   classification |-> m.classification]

\* What the engine asks beyond the four conditions of the permit.
OutsideCedar == {"authenticated_user", "human_gate", "consent", "residency", "budget",
                 "approval"}

\* Under a manifest both validators accept, the compiled permit never reaches a
\* withheld tool, nor one the human is not entitled to: approvals cannot be
\* sidestepped by asking Cedar (cedar_compiler.py:18-21, 92-104, minimum-bar point 2
\* at manifest_loader.py:330-338).  What the policy engine grants, Cedar permits
\* exactly when the human is cleared for the tool's data class and the tool is
\* registered for the purpose.  They differ in nothing else but this: Cedar does
\* not look at the scope, nor at the data classes of the call, so it permits some
\* calls the engine denies.
EnginesAgree ==
  Answered("accept") /\ answer[1].offline /\ answer[1].production =>
    LET m == asked.case.manifest
    IN \A ctx \in Contexts :
         LET permit  == CedarPermits(CedarRequest(m, ctx))
             failing == Failing(ctx, AsPolicy(m))
             cleared == /\ ctx.registered.dataClass \in ctx.clearance
                        /\ ctx.purpose \in ctx.registered.allowedPurposes
         IN /\ permit => /\ ctx.tool \notin m.consequential /\ cleared
                         /\ failing \cap {"user_entitlement", "human_gate", "approval"} = {}
            /\ permit /\ ctx.registered.allowedPurposes \subseteq AllowedPurposes
                 => "purpose" \notin failing
            /\ ctx.tool \notin m.consequential /\ failing \subseteq OutsideCedar
                 => (permit <=> cleared)
            /\ "approval" \in failing => "human_gate" \in failing
            /\ \A t \in DOMAIN AsPolicy(m).tools :
                 AsPolicy(m).tools[t].classes \subseteq m.classification

\* A manifest whose signing section is a mapping verifies exactly when the
\* trusted key signed it and nothing but the signature in it has changed since
\* (manifest_signing.py:79-92).
VerifiedMeansUntouched ==
  Answered("verify") /\ asked.case.presented.signing.shape = "map" =>
    LET case == asked.case
    IN answer[1] <=> /\ case.trusted = case.signer /\ ~case.fault
                     /\ case.presented.claim = case.signed.claim
                     /\ case.signed.signing.shape = "map"
                     /\ case.presented.signing.publisher = case.signed.signing.publisher

\* An answer that is called grounded has that share of its content words in the
\* sources, to the rounding of the score; without sources none is, under any
\* threshold above zero; and none comes from a profile that is not the agent's,
\* or, once the agent has pins, for a prompt version it has not pinned or under a
\* hash other than the pinned one, if a hash is named (model_gateway.py:114-172).
GroundedMeansSourced ==
  Answered("invoke") /\ ~answer[1].raised =>
    LET req   == asked.case.request
        cfg   == asked.case.allowlist[req.agent]
        known == Cardinality(answer[1].answer \cap UNION req.sources)
    IN /\ answer[1].grounded /\ req.threshold > 0 =>
            /\ req.sources # {}
            /\ 200 * known >= (2 * req.threshold - 1) * Cardinality(answer[1].answer)
       /\ ProfileFor(req.task) \in cfg.profiles
       /\ \/ DOMAIN cfg.pins = {}
          \/ req.version \in DOMAIN cfg.pins /\ req.hash \in {"none", cfg.pins[req.version]}
       /\ req.task = "draft" /\ UNION req.sources # {} => answer[1].grounded

\* Both reports account for every event once: the lines add up to the TOTAL line
\* in calls and tokens, and in printed cost to within the rounding of the lines
\* (chargeback.py:78-147).
ReportsAddUp ==
  Answered("report") =>
    LET events == asked.case
        lines  == answer[1].lines
        total  == answer[1].total
        off    == SumFunction([tag \in DOMAIN lines |-> lines[tag].cost]) - total.cost
    IN /\ total.calls = Len(events)
       /\ total.calls = SumFunction([tag \in DOMAIN lines |-> lines[tag].calls])
       /\ total.tokens = SumFunction([tag \in DOMAIN lines |-> lines[tag].tokens])
       /\ total.tokens = SumFunction([i \in DOMAIN events |->
                                        events[i].tokens_in + events[i].tokens_out])
       /\ 3 * off <= Cardinality(DOMAIN lines) + 1
       /\ -3 * off <= Cardinality(DOMAIN lines) + 1

\* What makes a tree undeliverable, said of what is put into a clean one.  A
\* hollow section spoils nothing, nor does an audit section without a mode.
Spoils(case) ==
  CASE case.key = <<"audit">> ->
         case.mode # "hollow" /\ (case.mode \notin {"COMPLIANCE", "unset"} \/ case.days < 30)
    [] case.key = <<"signing">> -> case.signing = "unsigned"
    [] OTHER -> case.hasPlaceholder

\* A manifest is delivered exactly when it holds no placeholder at any depth, its
\* audit section, if it declares anything, names no mode but COMPLIANCE and thirty
\* days or more, and its signing section, if it declares anything, has a
\* signature that is not blank (manifest_validator.py:134-193).  That is more than
\* CUSTOMER-DELIVERY-CHECKLIST.md:13-14 would deliver: the code passes over a
\* missing mode and over sections that declare nothing (lines 166, 172, 185).
DeliveredIsClean == Answered("deliver") => (answer[1] <=> ~Spoils(asked.case))

\* A text that leaves the boundary holds no address and no social security, phone,
\* medical record or student number of an active class, whatever they stand next
\* to and whatever the passes before and after made of the rest; behind an engine
\* it holds no name (masker.py:1-20, 208-274).  Card numbers are not in this: a
\* candidate that is none is not looked into, though there may be one in it.
NoneIsLeft ==
  Answered("mask") /\ ~answer[1].raised =>
    LET case == asked.case
        out  == answer[1].text
    IN /\ \A entity \in Entities \ {"CREDIT_CARD"} :
            IsActive(entity, case.classes) => \A i \in DOMAIN out : MatchEnd(entity, out, i) = 0
       /\ case.engine = "works" => \A i \in DOMAIN out : out[i].word # "Ann"
=============================================================================
