----------------------------- MODULE RulingProofs -----------------------------
(***************************************************************************)
(* What the rulings of the governance library amount to, for all           *)
(* manifests, contexts, signatures, prompts, usage, trees and texts.       *)
(***************************************************************************)
EXTENDS Rulings, FiniteSums

\* Every question is one of the cases, and its answer what the code computes.
RulingInv ==
  /\ \/ asked.op = "accept" /\ asked.case \in Manifests
     \/ asked.op = "verify" /\ asked.case \in Signings
     \/ asked.op = "invoke" /\ asked.case \in Prompts
     \/ asked.op = "report" /\ asked.case \in Usages
     \/ asked.op = "deliver" /\ asked.case \in Deliveries
     \/ asked.op = "mask" /\ asked.case \in Texts
  /\ Answered("accept") =>
       answer[1] = [offline    |-> OfflineAccepts(asked.case.manifest),
                    production |-> ProductionAccepts(asked.case.manifest, asked.case.fault)]
  /\ Answered("verify") =>
       answer[1] = VerifyManifest(asked.case.trusted, asked.case.presented,
                                  SignManifest(asked.case.signer, asked.case.signed),
                                  asked.case.fault)
  /\ Answered("invoke") => answer[1] = Invoke(asked.case.allowlist, asked.case.request)
  /\ Answered("report") => answer[1] = Report(asked.case)
  /\ Answered("deliver") => answer[1] = DeliveryCheck(Delivered(asked.case))
  /\ Answered("mask") => answer[1] = MaskReport(asked.case.text, asked.case.classes,
                                                asked.case.real, asked.case.engine)

THEOREM RulingInvHolds == RulingSpec => []RulingInv
<1>1. RulingInit => RulingInv
  BY DEF RulingInit, Ask, RulingInv, Answered
<1>2. RulingInv /\ [Rule]_libraryVars => RulingInv'
  <2> SUFFICES ASSUME RulingInv, [Rule]_libraryVars PROVE RulingInv'
    OBVIOUS
  <2>1. CASE Accept
    BY <2>1 DEF RulingInv, Accept, Reply, Answered
  <2>2. CASE Verify
    BY <2>2 DEF RulingInv, Verify, Reply, Answered
  <2>3. CASE InvokeModel
    BY <2>3 DEF RulingInv, InvokeModel, Reply, Answered
  <2>4. CASE ReportUsage
    BY <2>4 DEF RulingInv, ReportUsage, Reply, Answered
  <2>5. CASE Deliver
    BY <2>5 DEF RulingInv, Deliver, Reply, Answered
  <2>6. CASE Mask
    BY <2>6 DEF RulingInv, Mask, Reply, Answered
  <2>7. CASE UNCHANGED libraryVars
    BY <2>7 DEF RulingInv, libraryVars, Answered
  <2> QED
    BY <2>1, <2>2, <2>3, <2>4, <2>5, <2>6, <2>7 DEF Rule
<1> QED
  BY <1>1, <1>2, PTL DEF RulingSpec

-----------------------------------------------------------------------------
\* A finite set of naturals that is not empty has its maximum.
LEMMA MaxIsAMember ==
  ASSUME NEW S, IsFiniteSet(S), S # {}, S \subseteq Nat
  PROVE  Max(S) \in S
<1> DEFINE Topped(s) == \E x \in s : \A y \in s : x >= y
           Good == {n \in Nat : \A s \in SUBSET S : s # {} /\ Cardinality(s) <= n => Topped(s)}
<1>1. \A s \in SUBSET S : IsFiniteSet(s) /\ Cardinality(s) \in Nat
  BY FS_Subset, FS_CardinalityType
<1>2. 0 \in Good
  <2> SUFFICES ASSUME NEW s \in SUBSET S, s # {}, Cardinality(s) <= 0 PROVE Topped(s)
    OBVIOUS
  <2> QED
    BY <1>1, FS_EmptySet
<1>3. \A n \in Nat : n \in Good => n + 1 \in Good
  <2> HIDE DEF Topped
  <2> SUFFICES ASSUME NEW n \in Nat, n \in Good,
                      NEW s \in SUBSET S, s # {}, Cardinality(s) <= n + 1
               PROVE  Topped(s)
    OBVIOUS
  <2> USE DEF Topped
  <2>1. PICK x \in s : TRUE
    OBVIOUS
  <2> DEFINE rest == s \ {x}
  <2>2. rest \in SUBSET S /\ Cardinality(rest) <= n
    BY OneLess
  <2>3. CASE rest = {}
    <3>1. s = {x} /\ x \in Nat
      BY <2>3
    <3> QED
      BY <3>1
  <2>4. CASE rest # {}
    <3>1. Topped(rest)
      BY <2>2, <2>4
    <3>2. PICK z \in rest : \A y \in rest : z >= y
      BY <3>1
    <3>3. s = rest \cup {x} /\ s \subseteq Nat /\ z \in s
      OBVIOUS
    <3> HIDE DEF rest
    <3>4. CASE z >= x
      BY <3>2, <3>3, <3>4
    <3>5. CASE ~(z >= x)
      <4>1. z \in Nat /\ x \in Nat /\ x >= z
        BY <3>3, <3>5
      <4>2. \A y \in s : x >= y
        BY <3>2, <3>3, <4>1
      <4> QED
        BY <4>2
    <3> QED
      BY <3>4, <3>5
  <2> QED
    BY <2>3, <2>4
<1>4. Nat \subseteq Good
  <2> HIDE DEF Good
  <2> QED
    BY <1>2, <1>3, NatSetInduction
<1>5. Topped(S)
  BY <1>1, <1>4
<1> QED
  BY <1>5 DEF Max

\* The engine sees of a tool an entry the manifest has for it.
LEMMA PolicyTool ==
  ASSUME NEW case \in Manifests, NEW t \in DOMAIN AsPolicy(case.manifest).tools
  PROVE  \E i \in DOMAIN case.manifest.tools :
           /\ case.manifest.tools[i].id = t
           /\ AsPolicy(case.manifest).tools[t].classes = case.manifest.tools[i].classes
<1> DEFINE m == case.manifest
           S == {i \in DOMAIN m.tools : m.tools[i].id = t}
<1>1. IsFiniteSet(DOMAIN m.tools) /\ DOMAIN m.tools \subseteq Nat
  BY RulingsAssumption DEF RulingsAssumption
<1>2. DOMAIN AsPolicy(m).tools = {m.tools[i].id : i \in DOMAIN m.tools}
  BY DEF AsPolicy
<1>3. S # {} /\ S \subseteq Nat /\ IsFiniteSet(S)
  BY <1>1, <1>2, FS_Subset
<1>4. Max(S) \in S
  BY <1>3, MaxIsAMember
<1>5. AsPolicy(m).tools[t].classes = m.tools[Max(S)].classes
  BY <1>2 DEF AsPolicy
<1> QED
  BY <1>4, <1>5

\* What is granted to the agent and to the policy engine's tool set is the same.
LEMMA PolicyGrants ==
  ASSUME NEW m
  PROVE  DOMAIN AsPolicy(m).tools = {m.tools[i].id : i \in DOMAIN m.tools}
BY DEF AsPolicy

\* A manifest both validators accept withholds its consequential tools.
LEMMA AcceptedManifest ==
  ASSUME NEW case \in Manifests, OfflineAccepts(case.manifest),
         ProductionAccepts(case.manifest, case.fault)
  PROVE  /\ IsMap(case.manifest, "grants") /\ IsMap(case.manifest, "metadata")
         /\ \A i \in DOMAIN case.manifest.tools :
              /\ case.manifest.tools[i].id \notin case.manifest.consequential
              /\ case.manifest.tools[i].classes \subseteq case.manifest.classification
<1> DEFINE m == case.manifest
<1>1. IsMap(m, "grants") /\ IsMap(m, "metadata")
  BY DEF ProductionAccepts, Conforms, Sections
<1>2. Withheld(m) /\ \A t \in ToSet(m.tools) : ToolIsRight(m, t)
  BY <1>1 DEF OfflineAccepts
<1>3. \A i \in DOMAIN m.tools : m.tools[i] \in ToSet(m.tools)
  BY DEF ToSet
<1> QED
  BY <1>1, <1>2, <1>3 DEF Withheld, ToolIsRight, Declared

\* Which clauses fail.
LEMMA FailingClauses ==
  ASSUME NEW ctx, NEW manifest
  PROVE  \A clause \in DOMAIN Rank :
           clause \in Failing(ctx, manifest) <=> ~ClauseHolds(clause, ctx, manifest)
BY DEF Failing

\* Under every manifest both validators accept the compiled permit reaches no
\* withheld tool, and the policy engine and the permit differ in nothing but
\* scope, the data classes of the call and the human's clearance for the tool
\* (cedar_compiler.py:18-21, 92-104, manifest_loader.py:330-338).
THEOREM EnginesAgreeHolds == RulingSpec => []EnginesAgree
<1>1. RulingInv => EnginesAgree
  <2> SUFFICES ASSUME RulingInv, Answered("accept"), answer[1].offline, answer[1].production,
                      NEW ctx \in Contexts
               PROVE
         LET m       == asked.case.manifest
             permit  == CedarPermits(CedarRequest(m, ctx))
             failing == Failing(ctx, AsPolicy(m))
             cleared == /\ ctx.registered.dataClass \in ctx.clearance
                        /\ ctx.purpose \in ctx.registered.allowedPurposes
         IN /\ permit => /\ ctx.tool \notin m.consequential /\ cleared
                         /\ failing \cap {"user_entitlement", "human_gate", "approval"} = {}
            /\ permit /\ ctx.registered.allowedPurposes \subseteq AllowedPurposes
                 => "purpose" \notin failing
            /\ ctx.tool \notin m.consequential /\ failing \subseteq OutsideCedar
                 => (permit <=> cleared)
            /\ "approval" \in failing => "human_gate" \in failing
            /\ \A t \in DOMAIN AsPolicy(m).tools :
                 AsPolicy(m).tools[t].classes \subseteq m.classification
    BY DEF EnginesAgree
  <2> DEFINE case    == asked.case
             m       == case.manifest
             policy  == AsPolicy(m)
             permit  == CedarPermits(CedarRequest(m, ctx))
             failing == Failing(ctx, policy)
             cleared == /\ ctx.registered.dataClass \in ctx.clearance
                        /\ ctx.purpose \in ctx.registered.allowedPurposes
             granted == {m.tools[i].id : i \in DOMAIN m.tools}
  <2>1. case \in Manifests /\ OfflineAccepts(m) /\ ProductionAccepts(m, case.fault)
    BY DEF RulingInv, Answered
  <2>2. /\ IsMap(m, "grants")
        /\ \A i \in DOMAIN m.tools : /\ m.tools[i].id \notin m.consequential
                                     /\ m.tools[i].classes \subseteq m.classification
    BY <2>1, AcceptedManifest
  <2>3. permit <=> ctx.tool \in granted /\ ctx.tool \in ctx.entitlements /\ cleared
    BY <2>2 DEF CedarPermits, CedarRequest, GrantIds
  <2>4. \A t \in granted : t \notin m.consequential
    BY <2>2
  <2>5. DOMAIN policy.tools = granted /\ policy.consequential = m.consequential
    BY DEF AsPolicy
  <2>6. /\ "user_entitlement" \in failing <=> ctx.tool \notin ctx.entitlements
        /\ "purpose" \in failing <=> ctx.purpose \notin AllowedPurposes
        /\ "human_gate" \in failing <=>
             ctx.tool \in m.consequential /\ ctx.tool \notin granted /\ ~ctx.approval_valid
        /\ "approval" \in failing <=> ctx.tool \in m.consequential /\ ~ctx.approval_valid
        /\ "agent_grant" \notin failing /\ ctx.tool \notin m.consequential
             => ctx.tool \in granted
    <3> HIDE DEF m, policy, granted
    <3>1. /\ ClauseHolds("user_entitlement", ctx, policy) <=> ctx.tool \in ctx.entitlements
          /\ ClauseHolds("purpose", ctx, policy) <=> ctx.purpose \in AllowedPurposes
      BY DEF ClauseHolds
    <3>2. ClauseHolds("human_gate", ctx, policy)
            <=> (ctx.tool \in m.consequential /\ ctx.tool \notin granted => ctx.approval_valid)
      BY <2>5 DEF ClauseHolds, Consequential, Granted
    <3>3. ClauseHolds("approval", ctx, policy)
            <=> (ctx.tool \in m.consequential => ctx.approval_valid)
      BY <2>5 DEF ClauseHolds, Consequential
    <3>4. ClauseHolds("agent_grant", ctx, policy) /\ ctx.tool \notin m.consequential
            => ctx.tool \in granted
      BY <2>5 DEF ClauseHolds, Consequential, Granted
    <3>5. {"user_entitlement", "purpose", "human_gate", "approval",
           "agent_grant"} \subseteq DOMAIN Rank
      BY DEF Rank
    <3>6. \A clause \in DOMAIN Rank : clause \in failing <=> ~ClauseHolds(clause, ctx, policy)
      BY FailingClauses
    <3> HIDE DEF failing
    <3> QED
      BY <3>1, <3>2, <3>3, <3>4, <3>5, <3>6
  <2>7. \A t \in DOMAIN policy.tools : policy.tools[t].classes \subseteq m.classification
    BY <2>1, <2>2, PolicyTool
  <2>8. permit /\ ctx.registered.allowedPurposes \subseteq AllowedPurposes
          => ctx.purpose \in AllowedPurposes
    BY <2>3
  <2> HIDE DEF case, m, policy, permit, failing, granted, cleared
  <2>9. permit => ctx.tool \notin m.consequential /\ cleared
    BY <2>3, <2>4
  <2>10. permit => failing \cap {"user_entitlement", "human_gate", "approval"} = {}
    BY <2>3, <2>6, <2>9
  <2>11. ctx.tool \notin m.consequential /\ failing \subseteq OutsideCedar
           => (permit <=> cleared)
    BY <2>3, <2>6 DEF OutsideCedar
  <2>12. "approval" \in failing => "human_gate" \in failing
    BY <2>4, <2>6
  <2> QED
    BY <2>6, <2>7, <2>8, <2>9, <2>10, <2>11, <2>12 DEF case, m, policy, permit, failing, cleared
<1> QED
  BY <1>1, RulingInvHolds, PTL

-----------------------------------------------------------------------------
\* A manifest with a signing mapping verifies exactly when the trusted key signed
\* all of it but the signature (manifest_signing.py:79-92), for any manifests.
THEOREM VerifiedMeansUntouchedHolds == RulingSpec => []VerifiedMeansUntouched
<1>1. RulingInv => VerifiedMeansUntouched
  <2> SUFFICES ASSUME RulingInv, Answered("verify"),
                      asked.case.presented.signing.shape = "map"
               PROVE  VerifiedMeansUntouched
    BY DEF VerifiedMeansUntouched
  <2> DEFINE case == asked.case
  <2>1. case \in Signings
    BY DEF RulingInv, Answered
  <2>2. case.presented.signing.publisher # "none" /\ case.signed.signing.publisher # "none"
    BY <2>1, RulingsAssumption DEF RulingsAssumption
  <2>3. answer[1] = VerifyManifest(case.trusted, case.presented,
                                   SignManifest(case.signer, case.signed), case.fault)
    BY DEF RulingInv
  <2>4. answer[1] <=> /\ ~case.fault
                      /\ case.signer = case.trusted
                      /\ CanonicalBytes(case.signed) = CanonicalBytes(case.presented)
    BY <2>3 DEF VerifyManifest, VerifyBytes, SignManifest
  <2>5. CanonicalBytes(case.signed) = CanonicalBytes(case.presented)
          <=> /\ case.presented.claim = case.signed.claim
              /\ case.signed.signing.shape = "map"
              /\ case.presented.signing.publisher = case.signed.signing.publisher
    BY <2>2 DEF CanonicalBytes
  <2> QED
    BY <2>4, <2>5 DEF VerifiedMeansUntouched
<1> QED
  BY <1>1, RulingInvHolds, PTL
-----------------------------------------------------------------------------
(***************************************************************************)
(* The grounding score.                                                    *)
(***************************************************************************)

\* Division with remainder.
LEMMA DivMod ==
  ASSUME NEW a \in Nat, NEW n \in Nat \ {0}
  PROVE  /\ a \div n \in Nat /\ a % n \in 0 .. n - 1
         /\ a = (a \div n) * n + (a % n)
OBVIOUS

LEMMA ProductGrows ==
  ASSUME NEW x \in Int, NEW y \in Int, NEW n \in Nat, x >= y
  PROVE  x * n >= y * n
OBVIOUS

\* A share that rounds to a threshold is at most half a hundredth below it.
LEMMA RoundedShare ==
  ASSUME NEW k \in Nat, NEW n \in Nat \ {0}, NEW threshold \in Nat,
         Hundredths(k, n) >= threshold
  PROVE  200 * k >= (2 * threshold - 1) * n
<1> DEFINE q == (100 * k) \div n
           rest == (100 * k) % n
<1>1. q \in Nat /\ rest \in 0 .. n - 1 /\ 100 * k = q * n + rest
  <2>1. 100 * k \in Nat
    OBVIOUS
  <2> QED
    BY <2>1, DivMod
<1>2. \/ q >= threshold
      \/ q + 1 >= threshold /\ 2 * rest >= n
  BY <1>1 DEF Hundredths
<1> HIDE DEF q, rest
<1>3. 200 * k = (2 * q) * n + 2 * rest
  BY <1>1
<1>4. CASE q >= threshold
  <2>1. (2 * q) * n >= (2 * threshold - 1) * n
    BY <1>1, <1>4, ProductGrows
  <2>2. (2 * q) * n \in Int /\ (2 * threshold - 1) * n \in Int
    BY <1>1
  <2> QED
    BY <1>1, <1>3, <2>1, <2>2
<1>5. CASE q + 1 >= threshold /\ 2 * rest >= n
  <2>1. (2 * q + 1) * n >= (2 * threshold - 1) * n
    BY <1>1, <1>5, ProductGrows
  <2>2. (2 * q + 1) * n = (2 * q) * n + n
    BY <1>1
  <2>3. (2 * q) * n \in Int /\ (2 * threshold - 1) * n \in Int /\ (2 * q + 1) * n \in Int
    BY <1>1
  <2> QED
    BY <1>1, <1>3, <1>5, <2>1, <2>2, <2>3
<1> QED
  BY <1>2, <1>4, <1>5

\* All of it is a full score.
LEMMA FullShare ==
  ASSUME NEW n \in Nat \ {0}
  PROVE  Hundredths(n, n) = 100
<1> DEFINE q == (100 * n) \div n
           rest == (100 * n) % n
<1>1. q \in Nat /\ rest \in 0 .. n - 1 /\ 100 * n = q * n + rest
  <2>1. 100 * n \in Nat
    OBVIOUS
  <2> QED
    BY <2>1, DivMod
<1> HIDE DEF q, rest
<1>2. q = 100 /\ rest = 0
  <2>1. CASE q >= 101
    <3>1. q * n >= 101 * n
      BY <1>1, <2>1, ProductGrows
    <3>2. q * n \in Int
      BY <1>1
    <3> QED
      BY <1>1, <3>1, <3>2
  <2>2. CASE q <= 99
    <3>1. 99 * n >= q * n
      BY <1>1, <2>2, ProductGrows
    <3>2. q * n \in Int
      BY <1>1
    <3> QED
      BY <1>1, <3>1, <3>2
  <2>3. CASE q = 100
    BY <1>1, <2>3
  <2> QED
    BY <1>1, <2>1, <2>2, <2>3
<1> QED
  BY <1>2 DEF q, rest, Hundredths

\* What a model answers is finite.
LEMMA AnswersAreFinite ==
  ASSUME NEW task, NEW prompt, NEW sources, IsFiniteSet(UNION sources)
  PROVE  IsFiniteSet(AnswerWords(task, prompt, sources))
<1>1. ASSUME NEW x, NEW y PROVE IsFiniteSet({x}) /\ IsFiniteSet({x, y})
  <2>1. IsFiniteSet({x})
    BY FS_Singleton
  <2>2. IsFiniteSet({x} \cup {y})
    BY <2>1, FS_AddElement
  <2>3. {x, y} = {x} \cup {y}
    OBVIOUS
  <2> QED
    BY <2>1, <2>2, <2>3
<1>2. ASSUME NEW category PROVE IsFiniteSet(CategoryWords(category))
  <2>1. CASE category = "access"
    BY <1>1, <2>1 DEF CategoryWords
  <2>2. CASE category \in {"sanitation", "streets"}
    <3>1. category # "access"
      BY <2>2
    <3> QED
      BY <1>1, <2>2, <3>1 DEF CategoryWords
  <2>3. CASE category \notin {"access", "sanitation", "streets"}
    BY <1>1, <2>3 DEF CategoryWords
  <2> QED
    BY <2>1, <2>2, <2>3
<1>3. ASSUME NEW category
      PROVE  IsFiniteSet({"classified", "priority", Priority(category)}
                           \cup CategoryWords(category) \cup UNION sources)
  <2>1. {"classified", "priority", Priority(category)}
          = {"classified", "priority"} \cup {Priority(category)}
    OBVIOUS
  <2>2. IsFiniteSet({"classified", "priority"} \cup {Priority(category)})
    BY <1>1, FS_Union
  <2> QED
    BY <1>2, <2>1, <2>2, FS_Union
<1>4. IsFiniteSet({"unverified", "free", "form", "answer", "with", "supporting", "source"})
  <2>1. {"unverified", "free", "form", "answer", "with", "supporting", "source"}
          = ({"unverified", "free"} \cup {"form", "answer"})
              \cup ({"with", "supporting"} \cup {"source"})
    OBVIOUS
  <2>2. IsFiniteSet({"unverified", "free"} \cup {"form", "answer"})
    BY <1>1, FS_Union
  <2>3. IsFiniteSet({"with", "supporting"} \cup {"source"})
    BY <1>1, FS_Union
  <2>4. IsFiniteSet(({"unverified", "free"} \cup {"form", "answer"})
                      \cup ({"with", "supporting"} \cup {"source"}))
    BY <2>2, <2>3, FS_Union
  <2> QED
    BY <2>1, <2>4
<1> QED
  BY <1>3, <1>4 DEF AnswerWords

\* A score that reaches a threshold of the schema is that share of the answer.
LEMMA ScoreIsAShare ==
  ASSUME NEW words, NEW sources, IsFiniteSet(words), NEW threshold \in 1 .. 99,
         GroundingScore(words, sources) >= threshold
  PROVE  /\ sources # {}
         /\ 200 * Cardinality(words \cap UNION sources)
              >= (2 * threshold - 1) * Cardinality(words)
<1> DEFINE known == UNION sources
           k == Cardinality(words \cap known)
           n == Cardinality(words)
<1>1. words # {} /\ known # {}
  BY DEF GroundingScore
<1>2. Hundredths(k, n) >= threshold
  <2>1. GroundingScore(words, sources)
          = IF Hundredths(k, n) > 99 THEN 99 ELSE Hundredths(k, n)
    BY <1>1 DEF GroundingScore
  <2>2. n \in Nat \ {0} /\ k \in Nat
    BY <1>1, FS_CardinalityType, FS_EmptySet, FS_Subset
  <2>3. Hundredths(k, n) \in Nat
    <3>1. 100 * k \in Nat
      BY <2>2
    <3> HIDE DEF k, n
    <3> QED
      BY <2>2, <3>1, DivMod DEF Hundredths
  <2> HIDE DEF k, n
  <2> QED
    BY <2>1, <2>3
<1>3. n \in Nat \ {0} /\ k \in Nat
  BY <1>1, FS_CardinalityType, FS_EmptySet, FS_Subset
<1> QED
  BY <1>1, <1>2, <1>3, RoundedShare

\* What is composed of the sources alone scores the cap.
LEMMA ComposedOfSources ==
  ASSUME NEW words, NEW sources, IsFiniteSet(words), words # {}, words = UNION sources
  PROVE  GroundingScore(words, sources) = 99
<1> DEFINE k == Cardinality(words \cap UNION sources)
           n == Cardinality(words)
<1>1. n \in Nat \ {0}
  BY FS_CardinalityType, FS_EmptySet
<1>2. words \cap UNION sources = words
  OBVIOUS
<1>3. Hundredths(k, n) = 100
  BY <1>1, <1>2, FullShare
<1>4. GroundingScore(words, sources)
        = IF Hundredths(k, n) > 99 THEN 99 ELSE Hundredths(k, n)
  BY DEF GroundingScore
<1> HIDE DEF k, n
<1> QED
  BY <1>3, <1>4

\* A grounded answer has its share in the sources, and comes from a profile and a
\* prompt that are the agent's (model_gateway.py:114-172), for all words, sources
\* and thresholds the schema allows.
THEOREM GroundedMeansSourcedHolds == RulingSpec => []GroundedMeansSourced
<1>1. RulingInv => GroundedMeansSourced
  <2> SUFFICES ASSUME RulingInv, Answered("invoke"), ~answer[1].raised
               PROVE  GroundedMeansSourced
    BY DEF GroundedMeansSourced
  <2> DEFINE case  == asked.case
             req   == case.request
             cfg   == case.allowlist[req.agent]
             words == AnswerWords(req.task, req.prompt, req.sources)
             score == GroundingScore(words, req.sources)
  <2>1. case \in Prompts /\ answer[1] = Invoke(case.allowlist, req)
    BY DEF RulingInv, Answered
  <2>2. IsFiniteSet(UNION req.sources) /\ req.threshold \in 0 .. 99
    BY <2>1, RulingsAssumption DEF RulingsAssumption
  <2>3. /\ answer[1] = [raised |-> FALSE, grounded |-> score >= req.threshold,
                        answer |-> words]
        /\ ProfileFor(req.task) \in cfg.profiles
        /\ PinHolds(cfg.pins, req)
    BY <2>1 DEF Invoke, Refusal
  <2>4. IsFiniteSet(words) /\ answer[1].grounded = (score >= req.threshold)
    <3>1. IsFiniteSet(words)
      BY <2>2, AnswersAreFinite
    <3> HIDE DEF words, score
    <3> QED
      BY <2>3, <3>1
  <2>5. answer[1].grounded /\ req.threshold > 0 =>
          /\ req.sources # {}
          /\ 200 * Cardinality(words \cap UNION req.sources)
               >= (2 * req.threshold - 1) * Cardinality(words)
    <3> SUFFICES ASSUME score >= req.threshold, req.threshold > 0
                 PROVE  /\ req.sources # {}
                        /\ 200 * Cardinality(words \cap UNION req.sources)
                             >= (2 * req.threshold - 1) * Cardinality(words)
      <4> HIDE DEF words, score
      <4> QED
        BY <2>4
    <3>1. req.threshold \in 1 .. 99
      BY <2>2
    <3> QED
      BY <2>4, <3>1, ScoreIsAShare
  <2>6. req.task = "draft" /\ UNION req.sources # {} => answer[1].grounded
    <3> SUFFICES ASSUME req.task = "draft", UNION req.sources # {}
                 PROVE  score >= req.threshold
      <4> HIDE DEF words, score
      <4> QED
        BY <2>4
    <3>1. words = UNION req.sources
      BY DEF AnswerWords
    <3>2. score = 99
      BY <2>4, <3>1, ComposedOfSources
    <3> QED
      BY <2>2, <3>2
  <2> DEFINE isPinned == \/ DOMAIN cfg.pins = {}
                         \/ /\ req.version \in DOMAIN cfg.pins
                            /\ req.hash \in {"none", cfg.pins[req.version]}
  <2>7. isPinned
    <3> HIDE DEF words, score, cfg, req
    <3>1. PinHolds(cfg.pins, req)
      BY <2>3
    <3> QED
      BY <3>1, Zenon DEF PinHolds
  <2>8. answer[1].answer = words
    BY <2>3
  <2>9. GroundedMeansSourced <=>
          /\ answer[1].grounded /\ req.threshold > 0 =>
               /\ req.sources # {}
               /\ 200 * Cardinality(answer[1].answer \cap UNION req.sources)
                    >= (2 * req.threshold - 1) * Cardinality(answer[1].answer)
          /\ ProfileFor(req.task) \in cfg.profiles
          /\ isPinned
          /\ req.task = "draft" /\ UNION req.sources # {} => answer[1].grounded
    BY Zenon DEF GroundedMeansSourced
  <2> HIDE DEF words, score, cfg, req, isPinned
  <2> QED
    BY <2>3, <2>5, <2>6, <2>7, <2>8, <2>9
<1> QED
  BY <1>1, RulingInvHolds, PTL

-----------------------------------------------------------------------------
(***************************************************************************)
(* The reports.                                                            *)
(***************************************************************************)
Tags(events) == {events[i].tag : i \in DOMAIN events}

Mine(events, tag) == {i \in DOMAIN events : events[i].tag = tag}

LEMMA UsageIsFinite ==
  ASSUME NEW case \in Usages
  PROVE  /\ IsFiniteSet(DOMAIN case) /\ Cardinality(DOMAIN case) = Len(case)
         /\ IsFiniteSet(Tags(case))
         /\ \A tag \in Tags(case) : IsFiniteSet(Mine(case, tag))
<1>1. Len(case) \in Nat /\ DOMAIN case = 1 .. Len(case)
  BY RulingsAssumption DEF RulingsAssumption
<1>2. IsFiniteSet(DOMAIN case) /\ Cardinality(DOMAIN case) = Len(case)
  <2>1. ASSUME NEW n \in Nat PROVE IsFiniteSet(1 .. n) /\ Cardinality(1 .. n) = n
    <3>1. 1 \in Int /\ n \in Int
      OBVIOUS
    <3>2. /\ IsFiniteSet(1 .. n)
          /\ Cardinality(1 .. n) = IF 1 > n THEN 0 ELSE n - 1 + 1
      BY <3>1, FS_Interval
    <3>3. (IF 1 > n THEN 0 ELSE n - 1 + 1) = n
      OBVIOUS
    <3> QED
      BY <3>2, <3>3
  <2> QED
    BY <1>1, <2>1
<1>3. IsFiniteSet(Tags(case))
  <2>1. [i \in DOMAIN case |-> case[i].tag] \in Surjection(DOMAIN case, Tags(case))
    BY DEF Surjection, Tags
  <2> QED
    BY <1>2, <2>1, FS_Surjection
<1>4. ASSUME NEW tag \in Tags(case) PROVE IsFiniteSet(Mine(case, tag))
  BY <1>2, FS_Subset DEF Mine
<1> QED
  BY <1>2, <1>3, <1>4

\* What the rows have of something adds up to what the events have of it.
LEMMA RowsAddUp ==
  ASSUME NEW case \in Usages,
         NEW w, \A i \in DOMAIN case : w[i] \in Int,
         NEW part, \A tag \in Tags(case) : part[tag] = SumFunctionOnSet(w, Mine(case, tag))
  PROVE  /\ SumFunctionOnSet(part, Tags(case)) = SumFunctionOnSet(w, DOMAIN case)
         /\ SumFunctionOnSet(w, DOMAIN case) \in Int
         /\ \A tag \in Tags(case) : part[tag] \in Int
<1> DEFINE key == [i \in DOMAIN case |-> case[i].tag]
<1>1. \A i \in DOMAIN case : key[i] \in Tags(case)
  BY DEF Tags
<1>2. \A tag \in Tags(case) : Mine(case, tag) = {i \in DOMAIN case : key[i] = tag}
  BY DEF Mine
<1>3. \A tag \in Tags(case) :
        part[tag] = SumFunctionOnSet(w, {i \in DOMAIN case : key[i] = tag})
  BY <1>2
<1>4. SumFunctionOnSet(part, Tags(case)) = SumFunctionOnSet(w, DOMAIN case)
  <2>1. IsFiniteSet(DOMAIN case) /\ IsFiniteSet(Tags(case))
    BY UsageIsFinite
  <2> HIDE DEF key
  <2> QED
    BY <1>1, <1>3, <2>1, SumOfGroups
<1>5. SumFunctionOnSet(w, DOMAIN case) \in Int
  BY UsageIsFinite, SumType
<1>6. ASSUME NEW tag \in Tags(case) PROVE part[tag] \in Int
  <2>1. IsFiniteSet(Mine(case, tag)) /\ \A i \in Mine(case, tag) : w[i] \in Int
    BY UsageIsFinite DEF Mine
  <2> QED
    BY <2>1, SumType
<1> QED
  BY <1>4, <1>5, <1>6

\* A printed cost is the nearest to the cost.
LEMMA PrintedIsNearest ==
  ASSUME NEW c \in Int
  PROVE  Printed(c) \in Int /\ 3 * Printed(c) - c \in {-1, 0, 1}
BY DEF Printed

\* Printing the lines one by one is off by a third of a unit a line at the most.
LEMMA LinesRound ==
  ASSUME NEW K, IsFiniteSet(K), NEW c, NEW p,
         \A k \in K : c[k] \in Int /\ p[k] = Printed(c[k])
  PROVE  LET off == SumFunctionOnSet(p, K) - Printed(SumFunctionOnSet(c, K))
         IN 3 * off <= Cardinality(K) + 1 /\ -3 * off <= Cardinality(K) + 1
<1> DEFINE double == [k \in K |-> p[k] + p[k]]
           triple == [k \in K |-> p[k] + p[k] + p[k]]
           slip   == [k \in K |-> 3 * p[k] - c[k]]
<1>1. \A k \in K : c[k] \in Int /\ p[k] \in Int /\ slip[k] \in {-1, 0, 1}
  BY PrintedIsNearest
<1>2. \A k \in K : /\ double[k] \in Int /\ triple[k] \in Int /\ slip[k] \in Int
                   /\ double[k] = p[k] + p[k]
                   /\ triple[k] = double[k] + p[k]
                   /\ triple[k] = slip[k] + c[k]
  BY <1>1
<1> HIDE DEF double, triple, slip
<1>3. SumFunctionOnSet(double, K) = SumFunctionOnSet(p, K) + SumFunctionOnSet(p, K)
  BY <1>1, <1>2, SumOfPairs
<1>4. SumFunctionOnSet(triple, K) = SumFunctionOnSet(double, K) + SumFunctionOnSet(p, K)
  BY <1>1, <1>2, SumOfPairs
<1>5. SumFunctionOnSet(triple, K) = SumFunctionOnSet(slip, K) + SumFunctionOnSet(c, K)
  BY <1>1, <1>2, SumOfPairs
<1>6. /\ SumFunctionOnSet(slip, K) \in Int /\ Cardinality(K) \in Nat
      /\ SumFunctionOnSet(slip, K) <= Cardinality(K)
      /\ -Cardinality(K) <= SumFunctionOnSet(slip, K)
  BY <1>1, SumIsSmall
<1>7. SumFunctionOnSet(p, K) \in Int /\ SumFunctionOnSet(c, K) \in Int
  BY <1>1, SumType
<1>8. /\ Printed(SumFunctionOnSet(c, K)) \in Int
      /\ 3 * Printed(SumFunctionOnSet(c, K)) - SumFunctionOnSet(c, K) \in {-1, 0, 1}
  BY <1>7, PrintedIsNearest
<1> QED
  BY <1>3, <1>4, <1>5, <1>6, <1>7, <1>8

\* The rows of the two reports and their lines.
LEMMA ReportedRows ==
  ASSUME NEW events, NEW tag \in Tags(events)
  PROVE  LET row == Aggregate(events)[tag]
             on(w) == SumFunctionOnSet(w, Mine(events, tag))
         IN /\ row.calls = Cardinality(Mine(events, tag))
            /\ row.tokens_in = on([i \in DOMAIN events |-> events[i].tokens_in])
            /\ row.tokens_out = on([i \in DOMAIN events |-> events[i].tokens_out])
            /\ row.cost = on([i \in DOMAIN events |-> events[i].cost])
BY DEF Aggregate, Tally, Tags, Mine

LEMMA ReportedLines ==
  ASSUME NEW events
  PROVE  LET rows == Aggregate(events)
             report == Report(events)
             over(part) == SumFunctionOnSet(part, Tags(events))
         IN /\ DOMAIN rows = Tags(events) /\ DOMAIN report.lines = Tags(events)
            /\ \A tag \in Tags(events) :
                 /\ report.lines[tag].calls = rows[tag].calls
                 /\ report.lines[tag].tokens = rows[tag].tokens_in + rows[tag].tokens_out
                 /\ report.lines[tag].cost = Printed(rows[tag].cost)
            /\ report.total.calls = over([tag \in Tags(events) |-> rows[tag].calls])
            /\ report.total.tokens = over([tag \in Tags(events) |-> rows[tag].tokens_in])
                                     + over([tag \in Tags(events) |-> rows[tag].tokens_out])
            /\ report.total.cost
                 = Printed(over([tag \in Tags(events) |-> rows[tag].cost]))
<1>1. DOMAIN Aggregate(events) = Tags(events)
  BY DEF Aggregate, Tags
<1> QED
  BY <1>1 DEF Report, Line, SumFunction

\* Both reports count every usage event once, and the lines add up to the TOTAL
\* line in calls and tokens and, to the rounding of the lines, in cost
\* (chargeback.py:78-147), whatever the events and their tags.
THEOREM ReportsAddUpHolds == RulingSpec => []ReportsAddUp
<1>1. RulingInv => ReportsAddUp
  <2> SUFFICES ASSUME RulingInv, Answered("report") PROVE ReportsAddUp
    BY DEF ReportsAddUp
  <2> DEFINE events == asked.case
             I      == DOMAIN events
             K      == Tags(events)
             rows   == Aggregate(events)
             report == Report(events)
             tin    == [i \in I |-> events[i].tokens_in]
             tout   == [i \in I |-> events[i].tokens_out]
             cost   == [i \in I |-> events[i].cost]
             one    == [i \in I |-> 1]
             both   == [i \in I |-> events[i].tokens_in + events[i].tokens_out]
             rin    == [tag \in K |-> rows[tag].tokens_in]
             rout   == [tag \in K |-> rows[tag].tokens_out]
             rcost  == [tag \in K |-> rows[tag].cost]
             rcalls == [tag \in K |-> rows[tag].calls]
  <2>1. events \in Usages /\ answer[1] = report
    BY DEF RulingInv, Answered
  <2>2. \A i \in I : /\ tin[i] \in Int /\ tout[i] \in Int /\ cost[i] \in Int /\ one[i] = 1
                     /\ both[i] = tin[i] + tout[i] /\ both[i] \in Int /\ one[i] \in Int
    BY <2>1, RulingsAssumption DEF RulingsAssumption
  <2>3. IsFiniteSet(I) /\ Cardinality(I) = Len(events) /\ IsFiniteSet(K)
    BY <2>1, UsageIsFinite
  <2>4. \A tag \in K : /\ rin[tag] = SumFunctionOnSet(tin, Mine(events, tag))
                       /\ rout[tag] = SumFunctionOnSet(tout, Mine(events, tag))
                       /\ rcost[tag] = SumFunctionOnSet(cost, Mine(events, tag))
                       /\ rcalls[tag] = Cardinality(Mine(events, tag))
    BY ReportedRows
  <2>5. /\ DOMAIN report.lines = K
        /\ \A tag \in K : /\ report.lines[tag].calls = rcalls[tag]
                          /\ report.lines[tag].tokens = rin[tag] + rout[tag]
                          /\ report.lines[tag].cost = Printed(rcost[tag])
        /\ report.total.calls = SumFunctionOnSet(rcalls, K)
        /\ report.total.tokens = SumFunctionOnSet(rin, K) + SumFunctionOnSet(rout, K)
        /\ report.total.cost = Printed(SumFunctionOnSet(rcost, K))
    BY ReportedLines
  <2>6. \A tag \in K : IsFiniteSet(Mine(events, tag)) /\ Mine(events, tag) \subseteq I
    BY <2>1, UsageIsFinite DEF Mine
  <2> DEFINE lcalls == [tag \in K |-> report.lines[tag].calls]
             ltoks  == [tag \in K |-> report.lines[tag].tokens]
             lcost  == [tag \in K |-> report.lines[tag].cost]
  <2>7. \A tag \in K : /\ lcalls[tag] = rcalls[tag]
                       /\ ltoks[tag] = rin[tag] + rout[tag]
                       /\ lcost[tag] = Printed(rcost[tag])
    BY <2>5
  <2>8. ReportsAddUp
          <=> LET off == SumFunctionOnSet(lcost, K) - report.total.cost
              IN /\ report.total.calls = Len(events)
                 /\ report.total.calls = SumFunctionOnSet(lcalls, K)
                 /\ report.total.tokens = SumFunctionOnSet(ltoks, K)
                 /\ report.total.tokens = SumFunctionOnSet(both, I)
                 /\ 3 * off <= Cardinality(K) + 1
                 /\ -3 * off <= Cardinality(K) + 1
    BY <2>1, <2>5 DEF ReportsAddUp, SumFunction
  <2> HIDE DEF events, I, K, rows, report, tin, tout, cost, one, both, rin, rout, rcost,
               rcalls, lcalls, ltoks, lcost
  <2>9. /\ SumFunctionOnSet(rin, K) = SumFunctionOnSet(tin, I)
        /\ SumFunctionOnSet(tin, I) \in Int /\ \A tag \in K : rin[tag] \in Int
    BY <2>1, <2>2, <2>4, RowsAddUp DEF I, K
  <2>10. /\ SumFunctionOnSet(rout, K) = SumFunctionOnSet(tout, I)
         /\ SumFunctionOnSet(tout, I) \in Int /\ \A tag \in K : rout[tag] \in Int
    BY <2>1, <2>2, <2>4, RowsAddUp DEF I, K
  <2>11. \A tag \in K : rcost[tag] \in Int
    BY <2>1, <2>2, <2>4, RowsAddUp DEF I, K
  <2>12. /\ SumFunctionOnSet(rcalls, K) = SumFunctionOnSet(one, I)
         /\ \A tag \in K : rcalls[tag] \in Int
    <3>1. ASSUME NEW tag \in K
          PROVE  SumFunctionOnSet(one, Mine(events, tag)) = Cardinality(Mine(events, tag))
      BY <2>2, <2>6, SumOfOnes
    <3>2. \A tag \in K : rcalls[tag] = SumFunctionOnSet(one, Mine(events, tag))
      BY <2>4, <3>1
    <3> QED
      BY <2>1, <2>2, <3>2, RowsAddUp DEF I, K
  <2>13. report.total.calls = Len(events) /\ report.total.calls = SumFunctionOnSet(lcalls, K)
    <3>1. SumFunctionOnSet(one, I) = Cardinality(I)
      BY <2>2, <2>3, SumOfOnes
    <3>2. SumFunctionOnSet(lcalls, K) = SumFunctionOnSet(rcalls, K)
      BY <2>3, <2>7, <2>12, SumOfSame
    <3> QED
      BY <2>3, <2>5, <2>12, <3>1, <3>2
  <2>14. /\ report.total.tokens = SumFunctionOnSet(ltoks, K)
         /\ report.total.tokens = SumFunctionOnSet(both, I)
    <3>1. SumFunctionOnSet(ltoks, K) = SumFunctionOnSet(rin, K) + SumFunctionOnSet(rout, K)
      BY <2>3, <2>7, <2>9, <2>10, SumOfPairs
    <3>2. SumFunctionOnSet(both, I) = SumFunctionOnSet(tin, I) + SumFunctionOnSet(tout, I)
      BY <2>2, <2>3, SumOfPairs
    <3> QED
      BY <2>5, <2>9, <2>10, <3>1, <3>2
  <2>15. LET off == SumFunctionOnSet(lcost, K) - report.total.cost
         IN 3 * off <= Cardinality(K) + 1 /\ -3 * off <= Cardinality(K) + 1
    BY <2>3, <2>5, <2>7, <2>11, LinesRound
  <2> QED
    BY <2>8, <2>13, <2>14, <2>15
<1> QED
  BY <1>1, RulingInvHolds, PTL

-----------------------------------------------------------------------------
LEMMA LongestIsIn ==
  ASSUME NEW n \in Nat, NEW i \in 1 .. n, NEW E \in SUBSET (i .. n)
  PROVE  LongestOf(E) \in {0} \cup i .. n
<1>1. IsFiniteSet(E)
  <2>1. IsFiniteSet(i .. n)
    BY FS_Interval
  <2> QED
    BY <2>1, FS_Subset
<1>2. E \subseteq Nat
  OBVIOUS
<1>3. CASE E = {}
  BY <1>3 DEF LongestOf
<1>4. CASE E # {}
  BY <1>1, <1>2, <1>4, MaxIsAMember DEF LongestOf
<1> QED
  BY <1>3, <1>4

\* A match ends at or behind its start.
LEMMA MatchBounds ==
  ASSUME NEW text \in Seq(Token), NEW i \in 1 .. Len(text), NEW entity \in Entities
  PROVE  MatchEnd(entity, text, i) \in {0} \cup i .. Len(text)
<1>1. Len(text) \in Nat
  OBVIOUS
<1>2. CardEnd(text, i) \in {0} \cup i .. Len(text)
  BY <1>1, LongestIsIn DEF CardEnd
<1>3. /\ Len(<<3, 2, 4>>) = 3 /\ Len(<<1, 3, 3, 4>>) = 4
      /\ Len(<<4, 3, 4>>) = 3 /\ Len(<<3, 3, 4>>) = 3
  OBVIOUS
<1>4. SsnEnd(text, i) \in {0} \cup i .. Len(text)
  BY <1>1, <1>3 DEF SsnEnd, Shape
<1>5. PhoneEnd(text, i) \in {0} \cup i .. Len(text)
  <2>1. \A lengths, glues : Shape(text, i, lengths, glues) => i + Len(lengths) - 1 <= Len(text)
    BY DEF Shape
  <2>2. ASSUME Shape(text, i, <<1, 3, 3, 4>>, {" ", "-"}) PROVE i + 3 \in i .. Len(text)
    <3>1. i + 4 - 1 <= Len(text)
      BY <2>1, <1>3, <2>2
    <3> QED
      BY <3>1, <1>1
  <2>3. ASSUME NEW lengths \in {<<4, 3, 4>>, <<3, 3, 4>>}, Shape(text, i, lengths, {" ", "-"})
        PROVE  i + 2 \in i .. Len(text)
    <3>1. i + 3 - 1 <= Len(text)
      BY <2>1, <1>3, <2>3
    <3> QED
      BY <3>1, <1>1
  <2> QED
    BY <2>2, <2>3 DEF PhoneEnd, ShapeFromOne
<1>6. EmailEnd(text, i) \in {0} \cup i .. Len(text)
  BY <1>1 DEF EmailEnd
<1>7. \A prefix : PrefixedEnd(text, i, prefix) \in {0} \cup i .. Len(text)
  <2> SUFFICES ASSUME NEW prefix PROVE PrefixedEnd(text, i, prefix) \in {0} \cup i .. Len(text)
    OBVIOUS
  <2> DEFINE E == {j \in i + 1 .. Len(text) :
         /\ \A k \in i + 1 .. j : ~IsRedacted(text[k])
         /\ \A k \in i + 2 .. j : text[k].glue = "-"
         /\ CharsAfter(text, i, j) \in 4 .. 12 \/ TakesHyphen(text, i, j)}
  <2>1. E \in SUBSET (i .. Len(text))
    BY <1>1
  <2>2. LongestOf(E) \in {0} \cup i .. Len(text)
    <3> HIDE DEF E
    <3> QED
      BY <1>1, <2>1, LongestIsIn
  <2> QED
    BY <2>2 DEF PrefixedEnd
<1> QED
  BY <1>2, <1>4, <1>5, <1>6, <1>7 DEF MatchEnd, Entities

\* ScanFrom looks at what comes behind position i only.
LEMMA ScanIsLocal ==
  ASSUME NEW text \in Seq(Token), NEW i \in 1 .. Len(text) + 1, NEW entity \in Entities,
         NEW f, NEW g, \A k \in i + 1 .. Len(text) + 1 : f[k] = g[k]
  PROVE  ScanFrom(entity, text, i, f) = ScanFrom(entity, text, i, g)
<1>1. CASE i > Len(text)
  BY <1>1 DEF ScanFrom
<1>2. CASE ~(i > Len(text))
  <2> DEFINE j    == MatchEnd(entity, text, i)
             last == IF j = 0 THEN i ELSE j
  <2>1. Len(text) \in Nat /\ i \in 1 .. Len(text)
    BY <1>2
  <2>2. j \in {0} \cup i .. Len(text)
    BY <2>1, MatchBounds
  <2>3. last + 1 \in i + 1 .. Len(text) + 1
    BY <2>1, <2>2
  <2>4. f[last + 1] = g[last + 1]
    BY <2>3
  <2> QED
    BY <1>2, <2>4 DEF ScanFrom
<1> QED
  BY <1>1, <1>2

\* Scans(entity, text, f): f is the recursive function of Pass.
Scans(entity, text, f) ==
  f = [i \in 1 .. Len(text) + 1 |-> ScanFrom(entity, text, i, f)]

LEMMA ScanExists ==
  ASSUME NEW text \in Seq(Token), NEW entity \in Entities
  PROVE  \E f : Scans(entity, text, f)
<1> DEFINE n == Len(text)
           Partial(m) == \E f : /\ DOMAIN f = 1 .. n + 1
                                /\ f = [i \in 1 .. n + 1 |-> f[i]]
                                /\ \A i \in 1 .. n + 1 :
                                     i + m >= n + 1 => f[i] = ScanFrom(entity, text, i, f)
           P == {m \in Nat : Partial(m)}
<1>1. n \in Nat
  OBVIOUS
<1>2. 0 \in P
  <2> DEFINE f == [i \in 1 .. n + 1 |-> [text |-> <<>>, count |-> 0]]
  <2>1. \A i \in 1 .. n + 1 : i + 0 >= n + 1 => f[i] = ScanFrom(entity, text, i, f)
    BY <1>1 DEF ScanFrom
  <2> QED
    BY <2>1
<1>3. \A m \in Nat : m \in P => m + 1 \in P
  <2> SUFFICES ASSUME NEW m \in Nat, m \in P PROVE Partial(m + 1)
    <3> HIDE DEF Partial
    <3> QED
      OBVIOUS
  <2>1. PICK f : /\ DOMAIN f = 1 .. n + 1
                 /\ f = [i \in 1 .. n + 1 |-> f[i]]
                 /\ \A i \in 1 .. n + 1 :
                      i + m >= n + 1 => f[i] = ScanFrom(entity, text, i, f)
    OBVIOUS
  <2> DEFINE k == n - m
             g == [i \in 1 .. n + 1 |-> IF i = k THEN ScanFrom(entity, text, k, f) ELSE f[i]]
  <2>2. \A i \in 1 .. n + 1 : i + (m + 1) >= n + 1 => g[i] = ScanFrom(entity, text, i, g)
    <3> SUFFICES ASSUME NEW i \in 1 .. n + 1, i + (m + 1) >= n + 1
                 PROVE  g[i] = ScanFrom(entity, text, i, g)
      OBVIOUS
    <3>1. \A h \in i + 1 .. n + 1 : f[h] = g[h]
      BY <1>1
    <3>2. ScanFrom(entity, text, i, f) = ScanFrom(entity, text, i, g)
      <4> HIDE DEF g
      <4> QED
        BY <3>1, ScanIsLocal
    <3>3. g[i] = ScanFrom(entity, text, i, f)
      <4>1. CASE i = k
        BY <4>1
      <4>2. CASE i # k
        <5>1. i + m >= n + 1
          BY <1>1, <4>2
        <5> QED
          BY <2>1, <4>2, <5>1
      <4> QED
        BY <4>1, <4>2
    <3> QED
      BY <3>2, <3>3
  <2>3. DOMAIN g = 1 .. n + 1 /\ g = [i \in 1 .. n + 1 |-> g[i]]
    OBVIOUS
  <2> HIDE DEF g
  <2> QED
    BY <2>2, <2>3
<1>4. n + 1 \in P
  <2> HIDE DEF P
  <2> QED
    BY <1>1, <1>2, <1>3, NatSetInduction
<1>5. PICK f : /\ f = [i \in 1 .. n + 1 |-> f[i]]
               /\ \A i \in 1 .. n + 1 : f[i] = ScanFrom(entity, text, i, f)
  BY <1>1, <1>4
<1>6. f = [i \in 1 .. n + 1 |-> ScanFrom(entity, text, i, f)]
  BY <1>5
<1> QED
  BY <1>6 DEF Scans

\* Pass is what that function has for the first token.
LEMMA PassScans ==
  ASSUME NEW text \in Seq(Token), NEW entity \in Entities
  PROVE  \E f : Scans(entity, text, f) /\ Pass(entity, text) = f[1]
<1> DEFINE from == CHOOSE f : f = [i \in 1 .. Len(text) + 1 |-> ScanFrom(entity, text, i, f)]
<1>1. Scans(entity, text, from)
  BY ScanExists DEF Scans
<1>2. Pass(entity, text) = from[1]
  BY DEF Pass
<1> QED
  BY <1>1, <1>2

(***************************************************************************)
(* Where the tokens of a text that a pass has been over come from: each is *)
(* one of the text, or the redaction of a match that started with that     *)
(* one.  Behind a token that is no redaction is the one that was behind it,*)
(* with the glue it had.                                                   *)
(***************************************************************************)
Origin(entity, text, token, at) ==
  \/ token.word = entity
  \/ /\ token.word = text[at].word /\ token.digits = text[at].digits
     /\ MatchEnd(entity, text, at) = 0 \/ entity = "CREDIT_CARD"

Traced(entity, text, i, out, src) ==
  /\ out \in Seq(Token)
  /\ src \in [1 .. Len(out) -> 1 .. Len(text)]
  /\ out # <<>> => src[1] = i
  /\ \A p \in 1 .. Len(out) : Origin(entity, text, out[p], src[p])
  /\ \A p \in 1 .. Len(out) - 1 :
       out[p].word # entity => src[p + 1] = src[p] + 1 /\ out[p + 1].glue = text[src[p + 1]].glue

\* The first token has its glue, too.
Glued(text, i, out) == out # <<>> => out[1].glue = text[i].glue

LEMMA TraceKept ==
  ASSUME NEW text \in Seq(Token), NEW entity \in Entities,
         NEW i \in 1 .. Len(text), NEW last \in i .. Len(text),
         (last = i /\ MatchEnd(entity, text, i) = 0) \/ entity = "CREDIT_CARD",
         NEW rest, NEW src, Traced(entity, text, last + 1, rest, src),
         Glued(text, last + 1, rest)
  PROVE  /\ \E s : Traced(entity, text, i, SubSeq(text, i, last) \o rest, s)
         /\ Glued(text, i, SubSeq(text, i, last) \o rest)
<1> DEFINE k   == last - i + 1
           out == SubSeq(text, i, last) \o rest
           s   == [p \in 1 .. Len(out) |-> IF p <= k THEN i + p - 1 ELSE src[p - k]]
<1>1. /\ Len(text) \in Nat /\ i \in Nat /\ last \in Nat /\ k \in Nat /\ k >= 1
      /\ rest \in Seq(Token) /\ Len(rest) \in Nat
  BY DEF Traced
<1>2. /\ SubSeq(text, i, last) \in Seq(Token) /\ Len(SubSeq(text, i, last)) = k
      /\ \A p \in 1 .. k : SubSeq(text, i, last)[p] = text[i + p - 1]
  BY <1>1
<1>3. /\ out \in Seq(Token) /\ Len(out) = k + Len(rest)
      /\ \A p \in 1 .. k : out[p] = text[i + p - 1]
      /\ \A p \in k + 1 .. k + Len(rest) : out[p] = rest[p - k]
  <2> HIDE DEF k
  <2> QED
    BY <1>1, <1>2
<1>4. /\ \A p \in 1 .. k : s[p] = i + p - 1
      /\ \A p \in k + 1 .. k + Len(rest) : s[p] = src[p - k]
      /\ DOMAIN s = 1 .. Len(out)
  BY <1>1, <1>3
<1> HIDE DEF out, s
<1>5. ASSUME NEW p \in 1 .. k
      PROVE  /\ s[p] = i + p - 1 /\ out[p] = text[s[p]] /\ s[p] \in 1 .. Len(text)
             /\ Origin(entity, text, out[p], s[p])
  <2>1. s[p] = i + p - 1 /\ out[p] = text[s[p]] /\ s[p] \in 1 .. Len(text)
    BY <1>1, <1>3, <1>4
  <2>2. MatchEnd(entity, text, s[p]) = 0 \/ entity = "CREDIT_CARD"
    BY <1>1, <2>1
  <2> QED
    BY <2>1, <2>2 DEF Origin
<1>6. ASSUME NEW p \in k + 1 .. k + Len(rest)
      PROVE  /\ p - k \in 1 .. Len(rest) /\ s[p] = src[p - k] /\ out[p] = rest[p - k]
             /\ s[p] \in 1 .. Len(text) /\ Origin(entity, text, out[p], s[p])
  <2>1. p - k \in 1 .. Len(rest)
    BY <1>1
  <2> QED
    BY <1>3, <1>4, <2>1 DEF Traced
<1>7. ASSUME NEW p \in 1 .. Len(out)
      PROVE  s[p] \in 1 .. Len(text) /\ Origin(entity, text, out[p], s[p])
  <2>1. p \in 1 .. k \/ p \in k + 1 .. k + Len(rest)
    BY <1>1, <1>3
  <2> QED
    BY <1>5, <1>6, <2>1
<1>8. s \in [1 .. Len(out) -> 1 .. Len(text)] /\ s[1] = i /\ out[1].glue = text[i].glue
  <2>1. 1 \in 1 .. k /\ i + 1 - 1 = i
    BY <1>1
  <2>2. s[1] = i /\ out[1] = text[i]
    BY <1>5, <2>1
  <2> QED
    BY <1>4, <1>7, <2>2 DEF s
<1>9. ASSUME NEW p \in 1 .. Len(out) - 1, out[p].word # entity
      PROVE  s[p + 1] = s[p] + 1 /\ out[p + 1].glue = text[s[p + 1]].glue
  <2>1. CASE p + 1 <= k
    <3>1. p \in 1 .. k /\ p + 1 \in 1 .. k
      BY <1>1, <2>1
    <3>2. s[p] = i + p - 1 /\ s[p + 1] = i + (p + 1) - 1 /\ out[p + 1] = text[s[p + 1]]
      BY <1>5, <3>1
    <3>3. s[p + 1] = s[p] + 1
      BY <1>1, <3>1, <3>2
    <3> QED
      BY <3>2, <3>3
  <2>2. CASE p = k
    <3>1. p \in 1 .. k /\ p + 1 \in k + 1 .. k + Len(rest) /\ p + 1 - k = 1 /\ rest # <<>>
          /\ i + p - 1 = last
      BY <1>1, <1>3, <2>2
    <3>2. s[p] = last /\ s[p + 1] = src[1] /\ out[p + 1] = rest[1]
      BY <1>5, <1>6, <3>1
    <3>3. src[1] = last + 1 /\ rest[1].glue = text[last + 1].glue
      BY <3>1 DEF Traced, Glued
    <3> QED
      BY <3>2, <3>3
  <2>3. CASE p > k
    <3>1. /\ p \in k + 1 .. k + Len(rest) /\ p + 1 \in k + 1 .. k + Len(rest)
          /\ p - k \in 1 .. Len(rest) - 1 /\ p + 1 - k = p - k + 1
      <4>1. p \in Nat /\ p <= k + Len(rest) - 1 /\ p > k
        BY <1>1, <1>3, <2>3
      <4> HIDE DEF k
      <4> QED
        BY <1>1, <4>1
    <3>2. /\ s[p] = src[p - k] /\ s[p + 1] = src[p - k + 1]
          /\ out[p] = rest[p - k] /\ out[p + 1] = rest[p - k + 1]
      BY <1>6, <3>1
    <3> QED
      BY <1>9, <3>1, <3>2 DEF Traced
  <2> QED
    BY <1>1, <1>3, <2>1, <2>2, <2>3
<1>10. Traced(entity, text, i, out, s) /\ Glued(text, i, out)
  BY <1>3, <1>7, <1>8, <1>9 DEF Traced, Glued
<1> QED
  BY <1>10 DEF out

LEMMA TraceUnglued ==
  ASSUME NEW text \in Seq(Token), NEW entity \in Entities, NEW i \in 1 .. Len(text) + 1,
         NEW rest, NEW src, Traced(entity, text, i, rest, src)
  PROVE  Traced(entity, text, i, WithoutGlue(rest), src)
<1> DEFINE out == WithoutGlue(rest)
<1>1. rest \in Seq(Token) /\ Len(rest) \in Nat /\ (rest # <<>> => Len(rest) >= 1)
  BY DEF Traced
<1>2. /\ out \in Seq(Token) /\ Len(out) = Len(rest)
      /\ \A p \in 1 .. Len(rest) :
           /\ out[p].word = rest[p].word /\ out[p].digits = rest[p].digits
           /\ p # 1 => out[p].glue = rest[p].glue
  <2>1. CASE rest = <<>>
    BY <1>1, <2>1 DEF WithoutGlue
  <2>2. CASE rest # <<>>
    <3> DEFINE bare == [rest[1] EXCEPT !.glue = ""]
    <3>1. rest[1] \in Token /\ 1 \in 1 .. Len(rest)
      BY <1>1, <2>2
    <3>2. /\ bare \in Token
          /\ bare.word = rest[1].word /\ bare.digits = rest[1].digits
      BY <3>1 DEF Token
    <3>3. out = [rest EXCEPT ![1] = bare]
      BY <2>2 DEF WithoutGlue
    <3> HIDE DEF bare, out
    <3>4. out \in Seq(Token) /\ Len(out) = Len(rest)
      <4>1. rest \in Seq(Token) /\ bare \in Token /\ 1 \in 1 .. Len(rest)
        BY <1>1, <3>1, <3>2
      <4> QED
        BY <4>1, <3>3
    <3>5. \A p \in 1 .. Len(rest) : out[p] = IF p = 1 THEN bare ELSE rest[p]
      BY <1>1, <3>3
    <3> QED
      BY <3>2, <3>4, <3>5
  <2> QED
    BY <2>1, <2>2
<1>3. out # <<>> => rest # <<>>
  BY DEF WithoutGlue
<1> HIDE DEF out
<1>4. \A p \in 1 .. Len(out) : Origin(entity, text, out[p], src[p])
  BY <1>2 DEF Traced, Origin
<1>5. ASSUME NEW p \in 1 .. Len(out) - 1, out[p].word # entity
      PROVE  src[p + 1] = src[p] + 1 /\ out[p + 1].glue = text[src[p + 1]].glue
  <2>1. /\ p \in 1 .. Len(rest) - 1 /\ p \in 1 .. Len(rest) /\ p + 1 \in 1 .. Len(rest)
        /\ p + 1 # 1
    BY <1>1, <1>2
  <2>2. out[p].word = rest[p].word /\ out[p + 1].glue = rest[p + 1].glue
    BY <1>2, <2>1
  <2> QED
    BY <1>5, <2>1, <2>2 DEF Traced
<1> QED
  BY <1>2, <1>3, <1>4, <1>5 DEF Traced, out

LEMMA TraceRedacted ==
  ASSUME NEW text \in Seq(Token), NEW entity \in Entities,
         NEW i \in 1 .. Len(text), NEW last \in i .. Len(text),
         NEW rest, NEW src, Traced(entity, text, last + 1, rest, src)
  PROVE  /\ \E s : Traced(entity, text, i, <<Word(text[i].glue, entity)>> \o rest, s)
         /\ Glued(text, i, <<Word(text[i].glue, entity)>> \o rest)
<1> DEFINE word == Word(text[i].glue, entity)
           out  == <<word>> \o rest
           s    == [p \in 1 .. Len(out) |-> IF p = 1 THEN i ELSE src[p - 1]]
<1>1. word \in Token /\ word.word = entity /\ word.glue = text[i].glue
  <2>1. text[i] \in Token
    OBVIOUS
  <2>2. entity \in Words
    BY DEF Words
  <2>3. <<>> \in Seq(0 .. 9)
    OBVIOUS
  <2> QED
    BY <2>1, <2>2, <2>3 DEF Word, Token
<1>2. rest \in Seq(Token) /\ Len(rest) \in Nat
  BY DEF Traced
<1> HIDE DEF word
<1>3. /\ out \in Seq(Token) /\ Len(out) = Len(rest) + 1 /\ out[1] = word
      /\ \A p \in 2 .. Len(out) : out[p] = rest[p - 1]
  BY <1>1, <1>2
<1>4. /\ s[1] = i /\ \A p \in 2 .. Len(out) : s[p] = src[p - 1]
      /\ DOMAIN s = 1 .. Len(out)
  BY <1>2, <1>3
<1> HIDE DEF out, s
<1>5. ASSUME NEW p \in 1 .. Len(out)
      PROVE  s[p] \in 1 .. Len(text) /\ Origin(entity, text, out[p], s[p])
  <2>1. CASE p = 1
    <3>1. s[p] = i /\ out[p].word = entity
      BY <1>1, <1>3, <1>4, <2>1
    <3> QED
      BY <3>1 DEF Origin
  <2>2. CASE p # 1
    <3>1. p \in 2 .. Len(out) /\ p - 1 \in 1 .. Len(rest)
      BY <1>2, <1>3, <2>2
    <3> QED
      BY <1>3, <1>4, <3>1 DEF Traced
  <2> QED
    BY <2>1, <2>2
<1>6. ASSUME NEW p \in 1 .. Len(out) - 1, out[p].word # entity
      PROVE  s[p + 1] = s[p] + 1 /\ out[p + 1].glue = text[s[p + 1]].glue
  <2>1. p # 1
    BY <1>1, <1>3, <1>6
  <2>2. /\ p \in 2 .. Len(out) /\ p + 1 \in 2 .. Len(out) /\ p - 1 \in 1 .. Len(rest) - 1
        /\ p + 1 - 1 = p - 1 + 1
    BY <1>2, <1>3, <2>1
  <2>3. /\ s[p] = src[p - 1] /\ s[p + 1] = src[p - 1 + 1]
        /\ out[p] = rest[p - 1] /\ out[p + 1] = rest[p - 1 + 1]
    BY <1>3, <1>4, <2>2
  <2> QED
    BY <1>6, <2>2, <2>3 DEF Traced
<1>7. s \in [1 .. Len(out) -> 1 .. Len(text)]
  BY <1>4, <1>5 DEF s
<1>8. Traced(entity, text, i, out, s) /\ Glued(text, i, out)
  BY <1>1, <1>3, <1>4, <1>5, <1>6, <1>7 DEF Traced, Glued
<1> QED
  BY <1>8 DEF out, word

\* What a pass leaves of the tokens from i on is traced from i.
LEMMA ScanTraced ==
  ASSUME NEW text \in Seq(Token), NEW entity \in Entities, NEW f, Scans(entity, text, f)
  PROVE  \A i \in 1 .. Len(text) + 1 :
           (\E s : Traced(entity, text, i, f[i].text, s)) /\ Glued(text, i, f[i].text)
<1> DEFINE n    == Len(text)
           T(i) == (\E s : Traced(entity, text, i, f[i].text, s)) /\ Glued(text, i, f[i].text)
           S(m) == \A i \in 1 .. n + 1 : i + m >= n + 1 => T(i)
           P    == {m \in Nat : S(m)}
<1>1. n \in Nat /\ \A i \in 1 .. n + 1 : f[i] = ScanFrom(entity, text, i, f)
  BY DEF Scans
<1>2. T(n + 1)
  <2>1. f[n + 1].text = <<>>
    <3>1. f[n + 1] = ScanFrom(entity, text, n + 1, f) /\ n + 1 > Len(text)
      BY <1>1
    <3> QED
      BY <3>1 DEF ScanFrom
  <2>2. Traced(entity, text, n + 1, <<>>, <<>>)
    BY <1>1 DEF Traced
  <2> QED
    BY <2>1, <2>2 DEF Glued
<1>3. ASSUME NEW i \in 1 .. n, \A k \in i + 1 .. n + 1 : T(k) PROVE T(i)
  <2> DEFINE j    == MatchEnd(entity, text, i)
             last == IF j = 0 THEN i ELSE j
             rest == f[last + 1]
  <2>1. j \in {0} \cup i .. n
    BY MatchBounds
  <2>2. last \in i .. n /\ last + 1 \in i + 1 .. n + 1
    BY <1>1, <2>1
  <2>3. PICK s : Traced(entity, text, last + 1, rest.text, s) /\ Glued(text, last + 1, rest.text)
    BY <1>3, <2>2
  <2>4. f[i] = IF j = 0 \/ IsKept(entity, text, i, j)
                 THEN [text |-> SubSeq(text, i, last) \o rest.text, count |-> rest.count]
                 ELSE [text  |-> <<Word(text[i].glue, entity)>> \o
                                   IF TakesGlue(entity, text, i, j)
                                     THEN WithoutGlue(rest.text) ELSE rest.text,
                       count |-> rest.count + 1]
    <3>1. f[i] = ScanFrom(entity, text, i, f) /\ ~(i > n)
      BY <1>1
    <3> QED
      BY <3>1 DEF ScanFrom
  <2>5. CASE j = 0 \/ IsKept(entity, text, i, j)
    <3>1. (last = i /\ j = 0) \/ entity = "CREDIT_CARD"
      BY <2>5 DEF IsKept
    <3> DEFINE kept == SubSeq(text, i, last) \o rest.text
    <3>2. f[i] = [text |-> kept, count |-> rest.count]
      <4> HIDE DEF j, last, rest
      <4> QED
        BY <2>4, <2>5
    <3> HIDE DEF last, rest
    <3>3. (\E t : Traced(entity, text, i, kept, t)) /\ Glued(text, i, kept)
      BY <1>3, <2>2, <2>3, <3>1, TraceKept
    <3> HIDE DEF kept
    <3> QED
      BY <3>2, <3>3
  <2>6. CASE ~(j = 0 \/ IsKept(entity, text, i, j))
    <3>1. Traced(entity, text, last + 1, WithoutGlue(rest.text), s)
      <4> HIDE DEF last, rest
      <4>1. last + 1 \in 1 .. n + 1
        BY <2>2
      <4> QED
        BY <2>3, <4>1, TraceUnglued
    <3> DEFINE left == IF TakesGlue(entity, text, i, j) THEN WithoutGlue(rest.text) ELSE rest.text
    <3>2. Traced(entity, text, last + 1, left, s)
      BY <2>3, <3>1
    <3>3. f[i].text = <<Word(text[i].glue, entity)>> \o left
      BY <2>4, <2>6
    <3> HIDE DEF last, rest, left
    <3>4. /\ \E t : Traced(entity, text, i, <<Word(text[i].glue, entity)>> \o left, t)
          /\ Glued(text, i, <<Word(text[i].glue, entity)>> \o left)
      BY <2>2, <3>2, TraceRedacted
    <3> QED
      BY <3>3, <3>4
  <2> QED
    BY <2>5, <2>6
<1>4. 0 \in P
  BY <1>1, <1>2
<1>5. \A m \in Nat : m \in P => m + 1 \in P
  <2> HIDE DEF T
  <2> SUFFICES ASSUME NEW m \in Nat, m \in P PROVE S(m + 1)
    <3> HIDE DEF S
    <3> QED
      OBVIOUS
  <2> TAKE i \in 1 .. n + 1
  <2> HAVE i + (m + 1) >= n + 1
  <2>1. \A k \in i + 1 .. n + 1 : T(k)
    BY <1>1
  <2> QED
    BY <1>1, <1>2, <1>3, <2>1
<1>6. n + 1 \in P
  <2> HIDE DEF P
  <2> QED
    BY <1>1, <1>4, <1>5, NatSetInduction
<1> QED
  <2> HIDE DEF T
  <2>1. \A i \in 1 .. n + 1 : T(i)
    BY <1>1, <1>6
  <2> QED
    BY <2>1 DEF T

\* Behind a token, as long as none is a redaction of this pass, the text goes on as
\* it did.
LEMMA TraceRun ==
  ASSUME NEW text \in Seq(Token), NEW pass \in Entities, NEW out, NEW src,
         Traced(pass, text, 1, out, src), NEW p \in 1 .. Len(out), NEW j \in p .. Len(out),
         \A k \in p .. j - 1 : out[k].word # pass
  PROVE  \A k \in p .. j : /\ src[k] = src[p] + (k - p)
                           /\ k # p => out[k].glue = text[src[k]].glue
<1> DEFINE At(k) == /\ src[k] = src[p] + (k - p)
                    /\ k # p => out[k].glue = text[src[k]].glue
           P == {m \in Nat : p + m \in p .. j => At(p + m)}
<1>0. \A a, b, c \in Nat : (b + (c + 1)) - b = c + 1 /\ a + c + 1 = a + (c + 1)
  OBVIOUS
<1>1. /\ Len(out) \in Nat /\ p \in Nat /\ p >= 1 /\ j \in Nat /\ j <= Len(out)
      /\ src[p] \in Nat
  <2>1. out \in Seq(Token) /\ src \in [1 .. Len(out) -> 1 .. Len(text)]
    BY DEF Traced
  <2>2. Len(out) \in Nat /\ src[p] \in 1 .. Len(text)
    BY <2>1
  <2> QED
    BY <2>2
<1>2. 0 \in P
  BY <1>1
<1>3. ASSUME NEW m \in Nat, m \in P PROVE m + 1 \in P
  <2> SUFFICES ASSUME p + (m + 1) \in p .. j PROVE At(p + (m + 1))
    OBVIOUS
  <2>1. /\ p + m \in p .. j /\ p + m \in p .. j - 1 /\ p + m \in 1 .. Len(out) - 1
        /\ p + (m + 1) = p + m + 1
    BY <1>1
  <2>2. src[p + m] = src[p] + ((p + m) - p) /\ out[p + m].word # pass
    BY <1>3, <2>1
  <2>3. /\ src[p + m + 1] = src[p + m] + 1
        /\ out[p + m + 1].glue = text[src[p + m + 1]].glue
    BY <2>1, <2>2 DEF Traced
  <2>4. src[p + (m + 1)] = src[p] + ((p + (m + 1)) - p)
    <3>1. src[p + (m + 1)] = src[p + m] + 1
      BY <2>1, <2>3
    <3>2. src[p + m] = src[p] + m
      BY <1>1, <2>2
    <3>3. (p + (m + 1)) - p = m + 1 /\ src[p] + m + 1 = src[p] + (m + 1)
      BY <1>0, <1>1
    <3> QED
      BY <3>1, <3>2, <3>3, Zenon
  <2> QED
    BY <2>1, <2>3, <2>4
<1>4. \A m \in Nat : m \in P
  <2> HIDE DEF P
  <2> QED
    BY <1>2, <1>3, NatSetInduction
<1>5. ASSUME NEW k \in p .. j PROVE At(k)
  <2>1. k - p \in Nat /\ p + (k - p) = k
    BY <1>1
  <2>2. k - p \in P
    BY <1>4, <2>1
  <2> HIDE DEF At
  <2> QED
    BY <2>1, <2>2
<1> QED
  BY <1>5

(***************************************************************************)
(* Carried(out, p, text, q): from p on, out reads as text does from q on,  *)
(* as far as there is no redaction, and what comes next is no redaction if *)
(* it was not made one.                                                    *)
(***************************************************************************)
Carried(out, p, text, q) ==
  \A j \in p .. Len(out) : (\A k \in p .. j : ~IsRedacted(out[k])) =>
    LET at == q + (j - p)
    IN /\ at \in 1 .. Len(text)
       /\ text[at].word = out[j].word /\ text[at].digits = out[j].digits
       /\ j # p => text[at].glue = out[j].glue
       /\ j < Len(out) => /\ at + 1 <= Len(text) /\ text[at + 1].glue = out[j + 1].glue
                          /\ ~IsRedacted(out[j + 1]) => ~IsRedacted(text[at + 1])

LEMMA TraceCarries ==
  ASSUME NEW text \in Seq(Token), NEW pass \in Entities, NEW out, NEW src,
         Traced(pass, text, 1, out, src), NEW p \in 1 .. Len(out)
  PROVE  Carried(out, p, text, src[p])
<1> SUFFICES ASSUME NEW j \in p .. Len(out), \A k \in p .. j : ~IsRedacted(out[k])
             PROVE  LET at == src[p] + (j - p)
                    IN /\ at \in 1 .. Len(text)
                       /\ text[at].word = out[j].word /\ text[at].digits = out[j].digits
                       /\ j # p => text[at].glue = out[j].glue
                       /\ j < Len(out) =>
                            /\ at + 1 <= Len(text) /\ text[at + 1].glue = out[j + 1].glue
                            /\ ~IsRedacted(out[j + 1]) => ~IsRedacted(text[at + 1])
  BY DEF Carried
<1>1. /\ out \in Seq(Token) /\ Len(out) \in Nat /\ Len(text) \in Nat
      /\ \A k \in 1 .. Len(out) : src[k] \in 1 .. Len(text)
  BY DEF Traced
<1>2. \A k \in p .. j : out[k].word # pass
  BY DEF IsRedacted
<1>3. j \in p .. j /\ j \in 1 .. Len(out) /\ (\A k \in p .. j - 1 : k \in p .. j)
  BY <1>1
<1>4. src[j] = src[p] + (j - p) /\ (j # p => out[j].glue = text[src[j]].glue)
  <2>1. \A k \in p .. j : src[k] = src[p] + (k - p) /\ (k # p => out[k].glue = text[src[k]].glue)
    BY <1>2, <1>3, TraceRun
  <2> QED
    BY <1>3, <2>1, Zenon
<1>5. text[src[j]].word = out[j].word /\ text[src[j]].digits = out[j].digits
  BY <1>2, <1>3 DEF Traced, Origin
<1>6. ASSUME j < Len(out)
      PROVE  /\ src[j] + 1 <= Len(text) /\ text[src[j] + 1].glue = out[j + 1].glue
             /\ ~IsRedacted(out[j + 1]) => ~IsRedacted(text[src[j] + 1])
  <2>1. j \in 1 .. Len(out) - 1 /\ j + 1 \in 1 .. Len(out)
    BY <1>1, <1>3, <1>6
  <2>2. src[j + 1] = src[j] + 1 /\ out[j + 1].glue = text[src[j + 1]].glue
    BY <1>2, <1>3, <2>1 DEF Traced
  <2>3. src[j + 1] \in 1 .. Len(text)
    BY <1>1, <2>1
  <2>4. ~IsRedacted(out[j + 1]) => ~IsRedacted(text[src[j + 1]])
    BY <2>1 DEF Traced, Origin, IsRedacted
  <2> QED
    BY <1>1, <2>2, <2>3, <2>4
<1> QED
  BY <1>1, <1>3, <1>4, <1>5, <1>6

LEMMA ShapeCarries ==
  ASSUME NEW out \in Seq(Token), NEW p \in 1 .. Len(out),
         NEW text \in Seq(Token), NEW q \in 1 .. Len(text), Carried(out, p, text, q),
         NEW lengths \in Seq(Nat), lengths # <<>>, NEW glues, Shape(out, p, lengths, glues)
  PROVE  Shape(text, q, lengths, glues) /\ text[q].digits = out[p].digits
<1>0. PICK n : n = Len(lengths)
  OBVIOUS
<1>1. /\ n \in Nat /\ n >= 1 /\ DOMAIN lengths = 1 .. n
      /\ p \in Nat /\ q \in Nat /\ p >= 1 /\ Len(out) \in Nat /\ Len(text) \in Nat
  BY <1>0
<1>2. p + n - 1 <= Len(out)
  BY <1>0 DEF Shape
<1>3. ASSUME NEW k \in 1 .. n
      PROVE  /\ IsNumber(out[p + k - 1]) /\ Len(out[p + k - 1].digits) = lengths[k]
             /\ k > 1 => out[p + k - 1].glue \in glues
  BY <1>1 DEF Shape
<1>4. ASSUME NEW k \in 1 .. n
      PROVE  /\ q + k - 1 \in 1 .. Len(text)
             /\ text[q + k - 1].word = out[p + k - 1].word
             /\ text[q + k - 1].digits = out[p + k - 1].digits
             /\ k > 1 => text[q + k - 1].glue = out[p + k - 1].glue
  <2> DEFINE j == p + k - 1
  <2>1. j \in p .. Len(out) /\ q + (j - p) = q + k - 1 /\ (k > 1 => j # p)
    BY <1>1, <1>2
  <2>2. ASSUME NEW h \in p .. j PROVE ~IsRedacted(out[h])
    <3>1. h - p + 1 \in 1 .. n /\ p + (h - p + 1) - 1 = h
      BY <1>1
    <3>2. out[h].word = ""
      BY <1>3, <3>1 DEF IsNumber
    <3> QED
      BY <3>2 DEF IsRedacted, Entities
  <2> HIDE DEF j
  <2>3. /\ q + (j - p) \in 1 .. Len(text)
        /\ text[q + (j - p)].word = out[j].word /\ text[q + (j - p)].digits = out[j].digits
        /\ j # p => text[q + (j - p)].glue = out[j].glue
    BY <2>1, <2>2 DEF Carried
  <2> QED
    BY <2>1, <2>3 DEF j
<1>5. ASSUME NEW k \in 1 .. n
      PROVE  /\ IsNumber(text[q + k - 1]) /\ Len(text[q + k - 1].digits) = lengths[k]
             /\ k > 1 => text[q + k - 1].glue \in glues
  BY <1>3, <1>4 DEF IsNumber
<1>6. q + Len(lengths) - 1 <= Len(text)
  <2>1. n \in 1 .. n
    BY <1>1
  <2>2. q + n - 1 \in 1 .. Len(text)
    BY <1>4, <2>1
  <2> QED
    BY <1>0, <1>1, <2>2
<1>7. text[q].digits = out[p].digits
  <2>1. 1 \in 1 .. n /\ q + 1 - 1 = q /\ p + 1 - 1 = p
    BY <1>1
  <2> QED
    BY <1>4, <2>1
<1> QED
  BY <1>1, <1>5, <1>6, <1>7, Zenon DEF Shape

LEMMA PrefixCarries ==
  ASSUME NEW out \in Seq(Token), NEW p \in 1 .. Len(out),
         NEW text \in Seq(Token), NEW q \in 1 .. Len(text), Carried(out, p, text, q),
         NEW prefix \in {"MRN", "SID"}, PrefixedEnd(out, p, prefix) # 0
  PROVE  PrefixedEnd(text, q, prefix) # 0
<1> DEFINE Ends(t, i) == {j \in i + 1 .. Len(t) :
             /\ \A k \in i + 1 .. j : ~IsRedacted(t[k])
             /\ \A k \in i + 2 .. j : t[k].glue = "-"
             /\ CharsAfter(t, i, j) \in 4 .. 12 \/ TakesHyphen(t, i, j)}
<1>1. p \in Nat /\ q \in Nat /\ p >= 1 /\ Len(out) \in Nat /\ Len(text) \in Nat
  OBVIOUS
<1>2. out[p].word = prefix /\ Ends(out, p) # {}
  BY DEF PrefixedEnd, LongestOf
<1>3. PICK j \in Ends(out, p) : TRUE
  BY <1>2
<1>4. PICK m : m = j - p
  OBVIOUS
<1>5. /\ m \in Nat /\ m >= 1 /\ j = p + m /\ p + m <= Len(out)
      /\ \A k \in p + 1 .. p + m : ~IsRedacted(out[k])
      /\ \A k \in p + 2 .. p + m : out[k].glue = "-"
      /\ CharsAfter(out, p, p + m) \in 4 .. 12 \/ TakesHyphen(out, p, p + m)
  BY <1>1, <1>4
<1> HIDE DEF Ends
<1>6. ~IsRedacted(out[p])
  BY <1>2 DEF IsRedacted, Entities
<1>7. ASSUME NEW k \in 0 .. m
      PROVE  /\ q + k \in 1 .. Len(text)
             /\ text[q + k].word = out[p + k].word /\ text[q + k].digits = out[p + k].digits
             /\ k # 0 => text[q + k].glue = out[p + k].glue
             /\ p + k < Len(out) =>
                  /\ q + k + 1 <= Len(text) /\ text[q + k + 1].glue = out[p + k + 1].glue
                  /\ ~IsRedacted(out[p + k + 1]) => ~IsRedacted(text[q + k + 1])
  <2> DEFINE i == p + k
  <2>1. i \in p .. Len(out) /\ q + (i - p) = q + k /\ (k # 0 => i # p)
    BY <1>1, <1>5
  <2>2. \A h \in p .. i : h = p \/ h \in p + 1 .. p + m
    BY <1>1, <1>5
  <2>3. \A h \in p .. i : ~IsRedacted(out[h])
    BY <1>5, <1>6, <2>2
  <2> HIDE DEF i
  <2>4. /\ q + (i - p) \in 1 .. Len(text)
        /\ text[q + (i - p)].word = out[i].word /\ text[q + (i - p)].digits = out[i].digits
        /\ i # p => text[q + (i - p)].glue = out[i].glue
        /\ i < Len(out) =>
             /\ q + (i - p) + 1 <= Len(text) /\ text[q + (i - p) + 1].glue = out[i + 1].glue
             /\ ~IsRedacted(out[i + 1]) => ~IsRedacted(text[q + (i - p) + 1])
    BY <2>1, <2>3 DEF Carried
  <2> QED
    BY <2>1, <2>4 DEF i
<1>8. /\ text[q].word = prefix /\ q + m \in q + 1 .. Len(text)
  <2>1. 0 \in 0 .. m /\ m \in 0 .. m /\ p + 0 = p /\ q + 0 = q
    BY <1>1, <1>5
  <2>2. text[q].word = prefix
    BY <1>2, <1>7, <2>1
  <2>3. q + m \in 1 .. Len(text)
    BY <1>7, <2>1
  <2> QED
    BY <1>1, <1>5, <2>2, <2>3
<1>9. CharsAfter(text, q, q + m) = CharsAfter(out, p, p + m)
  <2>1. (q + m) - q = m /\ (p + m) - p = m /\ (\A k \in 1 .. m : k \in 0 .. m /\ k # 0)
    BY <1>1, <1>5
  <2>2. ASSUME NEW k \in 1 .. m PROVE Width(text[q + k]) = Width(out[p + k])
    <3>1. /\ text[q + k].word = out[p + k].word /\ text[q + k].digits = out[p + k].digits
          /\ text[q + k].glue = out[p + k].glue
      BY <1>7, <2>1
    <3> QED
      BY <3>1 DEF Width, Chars
  <2>3. CharsAfter(text, q, q + m) = SumFunction([h \in 1 .. (q + m) - q |-> Width(text[q + h])])
    BY Zenon DEF CharsAfter
  <2>4. CharsAfter(out, p, p + m) = SumFunction([h \in 1 .. (p + m) - p |-> Width(out[p + h])])
    BY Zenon DEF CharsAfter
  <2>5. [h \in 1 .. (q + m) - q |-> Width(text[q + h])]
          = [h \in 1 .. (p + m) - p |-> Width(out[p + h])]
    BY <2>1, <2>2
  <2> QED
    BY <2>3, <2>4, <2>5, Zenon
<1>10. TakesHyphen(out, p, p + m) => TakesHyphen(text, q, q + m)
  <2> SUFFICES ASSUME TakesHyphen(out, p, p + m) PROVE TakesHyphen(text, q, q + m)
    OBVIOUS
  <2>1. /\ p + m < Len(out) /\ out[p + m + 1].glue = "-" /\ ~IsRedacted(out[p + m + 1])
        /\ CharsAfter(out, p, p + m) + 1 \in 4 .. 12
    BY DEF TakesHyphen
  <2>2. m \in 0 .. m
    BY <1>5
  <2>3. q + m + 1 <= Len(text) /\ text[q + m + 1].glue = "-" /\ ~IsRedacted(text[q + m + 1])
    BY <1>7, <2>1, <2>2
  <2>4. q + m < Len(text)
    BY <1>1, <1>5, <2>3
  <2> QED
    BY <1>9, <2>1, <2>3, <2>4 DEF TakesHyphen
<1>11. \A k \in q + 1 .. q + m : ~IsRedacted(text[k])
  <2> SUFFICES ASSUME NEW k \in q + 1 .. q + m PROVE ~IsRedacted(text[k])
    OBVIOUS
  <2>1. k - q \in 0 .. m /\ q + (k - q) = k /\ p + (k - q) \in p + 1 .. p + m
    BY <1>1, <1>5
  <2>2. text[k].word = out[p + (k - q)].word
    BY <1>7, <2>1
  <2> QED
    BY <1>5, <2>1, <2>2 DEF IsRedacted
<1>12. \A k \in q + 2 .. q + m : text[k].glue = "-"
  <2> SUFFICES ASSUME NEW k \in q + 2 .. q + m PROVE text[k].glue = "-"
    OBVIOUS
  <2>1. k - q \in 0 .. m /\ q + (k - q) = k /\ p + (k - q) \in p + 2 .. p + m /\ k - q # 0
    BY <1>1, <1>5
  <2>2. text[k].glue = out[p + (k - q)].glue
    BY <1>7, <2>1
  <2> QED
    BY <1>5, <2>1, <2>2
<1>13. q + m \in Ends(text, q)
  BY <1>5, <1>8, <1>9, <1>10, <1>11, <1>12 DEF Ends
<1>14. LongestOf(Ends(text, q)) # 0
  <2>1. Ends(text, q) \subseteq q + 1 .. Len(text)
    BY DEF Ends
  <2>2. /\ IsFiniteSet(q + 1 .. Len(text))
        /\ q + 1 .. Len(text) \subseteq Nat
        /\ 0 \notin q + 1 .. Len(text)
    <3>1. q + 1 \in Int /\ Len(text) \in Int
      BY <1>1
    <3>2. IsFiniteSet(q + 1 .. Len(text))
      BY <3>1, FS_Interval
    <3>3. q + 1 .. Len(text) \subseteq Nat /\ 0 \notin q + 1 .. Len(text)
      BY <1>1
    <3> QED
      BY <3>2, <3>3
  <2>3. IsFiniteSet(Ends(text, q)) /\ Ends(text, q) \subseteq Nat /\ 0 \notin Ends(text, q)
    BY <2>1, <2>2, FS_Subset
  <2> QED
    BY <1>13, <2>3, MaxIsAMember DEF LongestOf
<1> QED
  BY <1>8, <1>14 DEF PrefixedEnd, Ends

\* No match of these starts with a redaction, and each stays one where the text goes
\* on as it did.
Marks == Entities \ {"CREDIT_CARD"}

LEMMA MatchCarries ==
  ASSUME NEW out \in Seq(Token), NEW p \in 1 .. Len(out), NEW entity \in Marks,
         MatchEnd(entity, out, p) # 0
  PROVE  /\ ~IsRedacted(out[p])
         /\ \A text \in Seq(Token) : \A q \in 1 .. Len(text) :
              Carried(out, p, text, q) => MatchEnd(entity, text, q) # 0
<1>1. /\ Len(out) \in Nat /\ p \in Nat /\ p \in p .. Len(out) /\ p + 1 - 1 = p
      /\ 1 \in DOMAIN <<3, 2, 4>> /\ 1 \in DOMAIN <<1, 3, 3, 4>>
      /\ 1 \in DOMAIN <<4, 3, 4>> /\ 1 \in DOMAIN <<3, 3, 4>>
  OBVIOUS
<1>2. \A t, i : MatchEnd(entity, t, i) =
        CASE entity = "SSN"        -> SsnEnd(t, i)
          [] entity = "EMAIL"      -> EmailEnd(t, i)
          [] entity = "PHONE"      -> PhoneEnd(t, i)
          [] entity = "MEDICAL_ID" -> PrefixedEnd(t, i, "MRN")
          [] entity = "STUDENT_ID" -> PrefixedEnd(t, i, "SID")
  BY DEF MatchEnd, Marks, Entities
<1>3. \A lengths, glues : 1 \in DOMAIN lengths /\ Shape(out, p, lengths, glues) => IsNumber(out[p])
  BY <1>1 DEF Shape
<1>4. /\ <<3, 2, 4>> \in Seq(Nat) /\ <<3, 2, 4>> # <<>>
      /\ <<1, 3, 3, 4>> \in Seq(Nat) /\ <<1, 3, 3, 4>> # <<>>
      /\ <<4, 3, 4>> \in Seq(Nat) /\ <<4, 3, 4>> # <<>>
      /\ <<3, 3, 4>> \in Seq(Nat) /\ <<3, 3, 4>> # <<>>
  OBVIOUS
<1>5. \A text \in Seq(Token) : \A q \in 1 .. Len(text) : \A lengths \in Seq(Nat) : \A glues :
        Carried(out, p, text, q) /\ lengths # <<>> /\ Shape(out, p, lengths, glues)
          => Shape(text, q, lengths, glues) /\ text[q].digits = out[p].digits
  BY ShapeCarries
<1>6. \A text \in Seq(Token) : \A q \in 1 .. Len(text) : q # 0 /\ q + 2 # 0 /\ q + 3 # 0
  OBVIOUS
<1>7. \A w \in {"", "mail", "MRN", "SID"} : out[p].word = w => ~IsRedacted(out[p])
  BY DEF IsRedacted, Entities
<1>8. CASE entity = "SSN"
  <2>1. Shape(out, p, <<3, 2, 4>>, {"-"})
    BY <1>2, <1>8, Zenon DEF SsnEnd
  <2>2. out[p].word = ""
    BY <1>1, <1>3, <2>1 DEF IsNumber
  <2>3. ASSUME NEW text \in Seq(Token), NEW q \in 1 .. Len(text), Carried(out, p, text, q)
        PROVE  MatchEnd(entity, text, q) # 0
    <3>1. Shape(text, q, <<3, 2, 4>>, {"-"})
      BY <1>4, <1>5, <2>1, <2>3, Zenon
    <3>2. SsnEnd(text, q) = q + 2
      BY <3>1 DEF SsnEnd
    <3> QED
      BY <1>2, <1>6, <1>8, <3>2
  <2> QED
    BY <1>7, <2>2, <2>3
<1>9. CASE entity = "EMAIL"
  <2>1. out[p].word = "mail"
    BY <1>2, <1>9 DEF EmailEnd
  <2>2. ~IsRedacted(out[p])
    BY <1>7, <2>1
  <2>3. ASSUME NEW text \in Seq(Token), NEW q \in 1 .. Len(text), Carried(out, p, text, q)
        PROVE  MatchEnd(entity, text, q) # 0
    <3>1. q + (p - p) = q /\ \A k \in p .. p : k = p
      BY <1>1
    <3>2. text[q].word = "mail"
      BY <1>1, <2>1, <2>2, <2>3, <3>1 DEF Carried
    <3> QED
      BY <1>2, <1>6, <1>9, <3>2 DEF EmailEnd
  <2> QED
    BY <2>2, <2>3
<1>10. CASE entity = "PHONE"
  <2>1. \/ ShapeFromOne(out, p, <<1, 3, 3, 4>>, {" ", "-"})
        \/ ShapeFromOne(out, p, <<4, 3, 4>>, {" ", "-"})
        \/ Shape(out, p, <<3, 3, 4>>, {" ", "-"})
    BY <1>2, <1>10, Zenon DEF PhoneEnd
  <2>2. out[p].word = ""
    BY <1>1, <1>3, <2>1 DEF IsNumber, ShapeFromOne
  <2>3. ASSUME NEW text \in Seq(Token), NEW q \in 1 .. Len(text), Carried(out, p, text, q)
        PROVE  MatchEnd(entity, text, q) # 0
    <3>1. \/ ShapeFromOne(text, q, <<1, 3, 3, 4>>, {" ", "-"})
          \/ ShapeFromOne(text, q, <<4, 3, 4>>, {" ", "-"})
          \/ Shape(text, q, <<3, 3, 4>>, {" ", "-"})
      BY <1>4, <1>5, <2>1, <2>3, Zenon DEF ShapeFromOne
    <3>2. PhoneEnd(text, q) = q + 3 \/ PhoneEnd(text, q) = q + 2
      BY <3>1, Zenon DEF PhoneEnd
    <3> QED
      BY <1>2, <1>6, <1>10, <3>2
  <2> QED
    BY <1>7, <2>2, <2>3
<1>11. ASSUME NEW prefix \in {"MRN", "SID"},
              \A t, i : MatchEnd(entity, t, i) = PrefixedEnd(t, i, prefix)
       PROVE  /\ ~IsRedacted(out[p])
              /\ \A text \in Seq(Token) : \A q \in 1 .. Len(text) :
                   Carried(out, p, text, q) => MatchEnd(entity, text, q) # 0
  <2>1. PrefixedEnd(out, p, prefix) # 0
    BY <1>11
  <2>2. out[p].word = prefix
    BY <2>1 DEF PrefixedEnd
  <2> QED
    BY <1>7, <1>11, <2>1, <2>2, PrefixCarries
<1> QED
  BY <1>2, <1>8, <1>9, <1>10, <1>11 DEF Marks, Entities

LEMMA PassTraced ==
  ASSUME NEW text \in Seq(Token), NEW pass \in Entities
  PROVE  \E s : Traced(pass, text, 1, Pass(pass, text).text, s)
<1>1. PICK f : Scans(pass, text, f) /\ Pass(pass, text) = f[1]
  BY PassScans
<1>2. 1 \in 1 .. Len(text) + 1
  OBVIOUS
<1>3. \E s : Traced(pass, text, 1, f[1].text, s)
  BY <1>1, <1>2, ScanTraced
<1> QED
  BY <1>1, <1>3

\* Whatever of these a pass leaves was there before, and the pass was for another.
LEMMA NothingAppears ==
  ASSUME NEW text \in Seq(Token), NEW pass \in Entities, NEW entity \in Marks,
         NEW p \in 1 .. Len(Pass(pass, text).text),
         MatchEnd(entity, Pass(pass, text).text, p) # 0
  PROVE  pass # entity /\ \E q \in 1 .. Len(text) : MatchEnd(entity, text, q) # 0
<1> DEFINE out == Pass(pass, text).text
<1>1. PICK src : Traced(pass, text, 1, out, src)
  BY PassTraced
<1>2. p \in 1 .. Len(out) /\ MatchEnd(entity, out, p) # 0
  OBVIOUS
<1> HIDE DEF out
<1>3. out \in Seq(Token) /\ src[p] \in 1 .. Len(text) /\ Origin(pass, text, out[p], src[p])
  BY <1>1, <1>2 DEF Traced
<1>4. Carried(out, p, text, src[p])
  BY <1>1, <1>2, TraceCarries
<1>5. ~IsRedacted(out[p]) /\ MatchEnd(entity, text, src[p]) # 0
  BY <1>2, <1>3, <1>4, MatchCarries
<1>6. MatchEnd(pass, text, src[p]) = 0 \/ pass = "CREDIT_CARD"
  BY <1>3, <1>5 DEF Origin, IsRedacted
<1> QED
  BY <1>3, <1>5, <1>6 DEF Marks

Spotless(entity, text) == \A i \in 1 .. Len(text) : MatchEnd(entity, text, i) = 0

\* An active pass of these leaves nothing for itself, and none makes something for
\* another.
LEMMA ThenCleans ==
  ASSUME NEW so, so.text \in Seq(Token), NEW pass \in Entities, NEW classes
  PROVE  LET out == Then(so, pass, classes).text
         IN /\ out \in Seq(Token)
            /\ pass \in Marks /\ IsActive(pass, classes) => Spotless(pass, out)
            /\ \A entity \in Marks : Spotless(entity, so.text) => Spotless(entity, out)
<1> DEFINE text == so.text
           out  == Then(so, pass, classes).text
<1>1. CASE ~IsActive(pass, classes)
  BY <1>1 DEF Then
<1>2. CASE IsActive(pass, classes)
  <2>1. out = Pass(pass, text).text
    BY <1>2 DEF Then, Added
  <2>2. text \in Seq(Token)
    OBVIOUS
  <2> HIDE DEF out, text
  <2>3. PICK src : Traced(pass, text, 1, Pass(pass, text).text, src)
    BY <2>2, PassTraced
  <2>4. out \in Seq(Token)
    BY <2>1, <2>3 DEF Traced
  <2>5. ASSUME NEW entity \in Marks, NEW p \in 1 .. Len(out), MatchEnd(entity, out, p) # 0
        PROVE  pass # entity /\ \E q \in 1 .. Len(text) : MatchEnd(entity, text, q) # 0
    BY <2>1, <2>2, <2>5, NothingAppears
  <2>6. pass \in Marks => Spotless(pass, out)
    BY <2>5 DEF Spotless
  <2>7. \A entity \in Marks : Spotless(entity, text) => Spotless(entity, out)
    BY <2>5 DEF Spotless
  <2> QED
    BY <2>4, <2>6, <2>7 DEF text, out
<1> QED
  BY <1>1, <1>2

LEMMA HarborCleans ==
  ASSUME NEW tokens \in Seq(Token), NEW classes
  PROVE  LET out == SafeHarbor(tokens, classes).text
         IN /\ out \in Seq(Token)
            /\ \A entity \in Marks : IsActive(entity, classes) => Spotless(entity, out)
<1> DEFINE none  == [text |-> tokens, count |-> 0]
           card  == Then(none, "CREDIT_CARD", classes)
           ssn   == Then(card, "SSN", classes)
           email == Then(ssn, "EMAIL", classes)
           phone == Then(email, "PHONE", classes)
           mrn   == Then(phone, "MEDICAL_ID", classes)
           sid   == Then(mrn, "STUDENT_ID", classes)
           Kept(x, y) == \A entity \in Marks : Spotless(entity, x.text) => Spotless(entity, y.text)
<1>1. none.text \in Seq(Token)
  OBVIOUS
<1>2. SafeHarbor(tokens, classes) = sid
  BY DEF SafeHarbor
<1>3. /\ {"CREDIT_CARD", "SSN", "EMAIL", "PHONE", "MEDICAL_ID", "STUDENT_ID"} = Entities
      /\ {"SSN", "EMAIL", "PHONE", "MEDICAL_ID", "STUDENT_ID"} = Marks
  BY DEF Entities, Marks
<1> HIDE DEF none
<1>4. card.text \in Seq(Token)
  BY <1>1, <1>3, ThenCleans
<1> HIDE DEF card
<1>5. ssn.text \in Seq(Token) /\ (IsActive("SSN", classes) => Spotless("SSN", ssn.text))
  BY <1>4, <1>3, ThenCleans
<1> HIDE DEF ssn
<1>6. /\ email.text \in Seq(Token) /\ Kept(ssn, email)
      /\ IsActive("EMAIL", classes) => Spotless("EMAIL", email.text)
  BY <1>5, <1>3, ThenCleans
<1> HIDE DEF email
<1>7. /\ phone.text \in Seq(Token) /\ Kept(email, phone)
      /\ IsActive("PHONE", classes) => Spotless("PHONE", phone.text)
  BY <1>6, <1>3, ThenCleans
<1> HIDE DEF phone
<1>8. /\ mrn.text \in Seq(Token) /\ Kept(phone, mrn)
      /\ IsActive("MEDICAL_ID", classes) => Spotless("MEDICAL_ID", mrn.text)
  BY <1>7, <1>3, ThenCleans
<1> HIDE DEF mrn
<1>9. /\ sid.text \in Seq(Token) /\ Kept(mrn, sid)
      /\ IsActive("STUDENT_ID", classes) => Spotless("STUDENT_ID", sid.text)
  BY <1>8, <1>3, ThenCleans
<1> HIDE DEF sid
<1> QED
  BY <1>2, <1>3, <1>5, <1>6, <1>7, <1>8, <1>9

\* Names are made redactions, and everything else stays.
LEMMA NamesHideNothing ==
  ASSUME NEW text \in Seq(Token)
  PROVE  /\ \A entity \in Marks : Spotless(entity, text) => Spotless(entity, Redacted(text))
         /\ \A i \in DOMAIN Redacted(text) : Redacted(text)[i].word # "Ann"
<1> DEFINE out == Redacted(text)
<1>1. /\ DOMAIN out = 1 .. Len(text) /\ DOMAIN text = 1 .. Len(text)
      /\ \A i \in 1 .. Len(text) :
           out[i] = IF text[i].word = "Ann" THEN Word(text[i].glue, "NAME") ELSE text[i]
  BY DEF Redacted
<1>2. Len(out) = Len(text) /\ Len(text) \in Nat
  <2>1. Len(text) \in Nat
    OBVIOUS
  <2> HIDE DEF out
  <2> QED
    BY <1>1, <2>1
<1>3. ASSUME NEW i \in 1 .. Len(text)
      PROVE  /\ Word(text[i].glue, "NAME") \in Token
             /\ Word(text[i].glue, "NAME").word = "NAME"
             /\ Word(text[i].glue, "NAME").glue = text[i].glue
  <2>1. text[i] \in Token /\ <<>> \in Seq(0 .. 9)
    OBVIOUS
  <2> QED
    BY <2>1 DEF Word, Token, Words
<1>4. out \in Seq(Token)
  <2>1. \A i \in 1 .. Len(text) :
          (IF text[i].word = "Ann" THEN Word(text[i].glue, "NAME") ELSE text[i]) \in Token
    BY <1>3
  <2>2. out = [i \in 1 .. Len(text) |->
                 IF text[i].word = "Ann" THEN Word(text[i].glue, "NAME") ELSE text[i]]
    BY <1>1 DEF Redacted
  <2> QED
    BY <1>2, <2>1, <2>2
<1> HIDE DEF out
<1>5. ASSUME NEW i \in 1 .. Len(text)
      PROVE  /\ out[i].word # "Ann" /\ out[i].glue = text[i].glue
             /\ ~IsRedacted(out[i]) => out[i] = text[i]
  <2>1. CASE text[i].word = "Ann"
    <3>1. out[i].word = "NAME" /\ out[i].glue = text[i].glue
      BY <1>1, <1>3, <2>1
    <3> QED
      BY <3>1 DEF IsRedacted
  <2>2. CASE text[i].word # "Ann"
    BY <1>1, <2>2
  <2> QED
    BY <2>1, <2>2
<1>6. ASSUME NEW p \in 1 .. Len(out) PROVE Carried(out, p, text, p)
  <2> SUFFICES ASSUME NEW j \in p .. Len(out), \A k \in p .. j : ~IsRedacted(out[k])
               PROVE  LET at == p + (j - p)
                      IN /\ at \in 1 .. Len(text)
                         /\ text[at].word = out[j].word /\ text[at].digits = out[j].digits
                         /\ j # p => text[at].glue = out[j].glue
                         /\ j < Len(out) =>
                              /\ at + 1 <= Len(text) /\ text[at + 1].glue = out[j + 1].glue
                              /\ ~IsRedacted(out[j + 1]) => ~IsRedacted(text[at + 1])
    BY DEF Carried
  <2>1. /\ p + (j - p) = j /\ j \in 1 .. Len(text) /\ j \in p .. j
        /\ j < Len(out) => j + 1 <= Len(text) /\ j + 1 \in 1 .. Len(text)
    BY <1>2
  <2> QED
    BY <1>5, <2>1
<1>7. ASSUME NEW entity \in Marks, Spotless(entity, text),
             NEW p \in 1 .. Len(out), MatchEnd(entity, out, p) # 0
      PROVE  FALSE
  <2>1. MatchEnd(entity, text, p) # 0
    BY <1>2, <1>4, <1>6, <1>7, MatchCarries
  <2> QED
    BY <1>2, <1>7, <2>1 DEF Spotless
<1>8. \A entity \in Marks : Spotless(entity, text) => Spotless(entity, out)
  BY <1>7 DEF Spotless
<1>9. \A i \in DOMAIN out : out[i].word # "Ann"
  BY <1>1, <1>5
<1> QED
  BY <1>8, <1>9 DEF out

\* No address and no social security, phone, medical record or student number of
\* an active class leaves the boundary, and behind an engine no name
\* (masker.py:1-20, 208-274), in any text of any length: whatever these stand next
\* to, whatever a pass makes of what is around them, and in whatever order.
THEOREM NoneIsLeftHolds == RulingSpec => []NoneIsLeft
<1>1. RulingInv => NoneIsLeft
  <2> SUFFICES ASSUME RulingInv, Answered("mask"), ~answer[1].raised PROVE NoneIsLeft
    BY DEF NoneIsLeft
  <2> DEFINE case   == asked.case
             harbor == SafeHarbor(case.text.tokens, case.classes)
             out    == answer[1].text
  <2>1. /\ case \in Texts
        /\ answer[1] = MaskReport(case.text, case.classes, case.real, case.engine)
    BY DEF RulingInv, Answered
  <2>2. case.text.tokens \in Seq(Token)
    BY <2>1, RulingsAssumption DEF RulingsAssumption, IsAsWritten
  <2>3. /\ harbor.text \in Seq(Token)
        /\ \A entity \in Marks : IsActive(entity, case.classes) => Spotless(entity, harbor.text)
    BY <2>2, HarborCleans
  <2>4. out = IF case.engine = "works" THEN Redacted(harbor.text) ELSE harbor.text
    BY <2>1 DEF MaskReport, ApplyNer, Fault
  <2>5. DOMAIN out = 1 .. Len(out)
    <3>1. DOMAIN harbor.text = 1 .. Len(harbor.text) /\ Len(harbor.text) \in Nat
      BY <2>3
    <3> HIDE DEF harbor, out
    <3>2. DOMAIN out = 1 .. Len(harbor.text)
      BY <2>4, <3>1 DEF Redacted
    <3> QED
      BY <3>1, <3>2
  <2> HIDE DEF harbor, out, case
  <2>6. \A entity \in Marks : IsActive(entity, case.classes) => Spotless(entity, out)
    BY <2>3, <2>4, NamesHideNothing
  <2>7. case.engine = "works" => \A i \in DOMAIN out : out[i].word # "Ann"
    BY <2>3, <2>4, NamesHideNothing
  <2> QED
    BY <2>5, <2>6, <2>7 DEF NoneIsLeft, Marks, Spotless, out, case
<1> QED
  BY <1>1, RulingInvHolds, PTL

-----------------------------------------------------------------------------
\* A set of naturals that is not empty has its minimum.
LEMMA MinIsAMember ==
  ASSUME NEW S \in SUBSET Nat, S # {}
  PROVE  Min(S) \in S /\ \A x \in S : Min(S) <= x
<1> DEFINE Missed == {n \in Nat : \A m \in 0 .. n : m \notin S}
<1>1. ASSUME \A x \in S : ~(\A y \in S : x <= y) PROVE FALSE
  <2>1. 0 \in Missed
    BY <1>1
  <2>2. ASSUME NEW n \in Nat, n \in Missed PROVE n + 1 \in Missed
    <3>1. \A m \in 0 .. n + 1 : m \in 0 .. n \/ m = n + 1
      OBVIOUS
    <3>2. \A y \in S : y > n
      BY <2>2
    <3>3. n + 1 \notin S
      BY <1>1, <3>2
    <3> QED
      BY <2>2, <3>1, <3>3
  <2>3. \A n \in Nat : n \in Missed
    <3> HIDE DEF Missed
    <3> QED
      BY <2>1, <2>2, NatSetInduction
  <2>4. \A n \in Nat : n \notin S
    BY <2>3
  <2> QED
    BY <2>4
<1> QED
  BY <1>1 DEF Min

(***************************************************************************)
(* The walk of a tree, level by level.                                     *)
(***************************************************************************)
IsWalk(root, f) ==
  f = [d \in 0 .. MaxNesting |->
         IF d = 0 THEN {root} ELSE UNION {Contents(node) : node \in f[d - 1]}]

LEMMA WalkExists ==
  ASSUME NEW root
  PROVE  \E f : IsWalk(root, f)
<1> DEFINE Step(f, d)  == IF d = 0 THEN {root} ELSE UNION {Contents(node) : node \in f[d - 1]}
           Partial(m)  == \E f : /\ f = [d \in 0 .. MaxNesting |-> f[d]]
                                 /\ \A d \in 0 .. MaxNesting : d <= m => f[d] = Step(f, d)
           P == {m \in Nat : Partial(m)}
<1>1. MaxNesting \in Nat
  BY NestingAssumption DEF NestingAssumption
<1>2. 0 \in P
  <2> DEFINE f == [d \in 0 .. MaxNesting |-> {root}]
  <2>1. f = [d \in 0 .. MaxNesting |-> f[d]]
    OBVIOUS
  <2>2. \A d \in 0 .. MaxNesting : d <= 0 => f[d] = Step(f, d)
    OBVIOUS
  <2> QED
    BY <2>1, <2>2
<1>3. ASSUME NEW m \in Nat, m \in P PROVE m + 1 \in P
  <2>1. PICK f : /\ f = [d \in 0 .. MaxNesting |-> f[d]]
                 /\ \A d \in 0 .. MaxNesting : d <= m => f[d] = Step(f, d)
    BY <1>3
  <2> DEFINE g == [d \in 0 .. MaxNesting |-> IF d = m + 1 THEN Step(f, d) ELSE f[d]]
  <2>2. g = [d \in 0 .. MaxNesting |-> g[d]]
    OBVIOUS
  <2>3. ASSUME NEW d \in 0 .. MaxNesting, d <= m + 1 PROVE g[d] = Step(g, d)
    <3>1. d # 0 => d - 1 \in 0 .. MaxNesting /\ d - 1 # m + 1
      BY <1>1, <2>3
    <3>2. d # 0 => g[d - 1] = f[d - 1]
      BY <3>1
    <3>3. Step(g, d) = Step(f, d)
      <4> HIDE DEF g
      <4> QED
        BY <3>2
    <3>4. g[d] = Step(f, d)
      <4>1. CASE d = m + 1
        BY <4>1
      <4>2. CASE d # m + 1
        <5>1. d <= m
          BY <1>1, <2>3, <4>2
        <5>2. f[d] = Step(f, d)
          BY <2>1, <5>1
        <5> QED
          BY <4>2, <5>2
      <4> QED
        BY <4>1, <4>2
    <3> QED
      BY <3>3, <3>4
  <2> HIDE DEF g
  <2>4. Partial(m + 1)
    BY <2>2, <2>3
  <2> HIDE DEF Partial
  <2> QED
    BY <2>4
<1>4. MaxNesting \in P
  <2> HIDE DEF P
  <2> QED
    BY <1>1, <1>2, <1>3, NatSetInduction
<1>5. PICK f : /\ f = [d \in 0 .. MaxNesting |-> f[d]]
               /\ \A d \in 0 .. MaxNesting : f[d] = Step(f, d)
  <2>1. PICK f : /\ f = [d \in 0 .. MaxNesting |-> f[d]]
                 /\ \A d \in 0 .. MaxNesting : d <= MaxNesting => f[d] = Step(f, d)
    BY <1>4
  <2>2. \A d \in 0 .. MaxNesting : d <= MaxNesting
    BY <1>1
  <2> HIDE DEF Step
  <2>3. \A d \in 0 .. MaxNesting : f[d] = Step(f, d)
    BY <2>1, <2>2
  <2> QED
    BY <2>1, <2>3
<1>6. f = [d \in 0 .. MaxNesting |-> Step(f, d)]
  BY <1>5
<1> QED
  BY <1>6 DEF IsWalk

LEMMA LevelsAreAWalk ==
  ASSUME NEW root
  PROVE  /\ Levels(root)[0] = {root}
         /\ \A d \in 1 .. MaxNesting :
              Levels(root)[d] = UNION {Contents(node) : node \in Levels(root)[d - 1]}
<1> DEFINE level == CHOOSE f : IsWalk(root, f)
<1>1. IsWalk(root, level)
  BY WalkExists
<1>2. Levels(root) = level
  BY DEF Levels, IsWalk
<1>3. MaxNesting \in Nat
  BY NestingAssumption DEF NestingAssumption
<1> HIDE DEF level
<1>4. level[0] = {root}
  BY <1>1, <1>3 DEF IsWalk
<1>5. \A d \in 1 .. MaxNesting : level[d] = UNION {Contents(node) : node \in level[d - 1]}
  BY <1>1, <1>3 DEF IsWalk
<1> QED
  BY <1>2, <1>4, <1>5

\* Below the root, the levels of a tree are those of what it contains.
LEMMA LevelsOfContents ==
  ASSUME NEW root
  PROVE  \A d \in 1 .. MaxNesting :
           Levels(root)[d] = UNION {Levels(node)[d - 1] : node \in Contents(root)}
<1> DEFINE At(d) == Levels(root)[d] = UNION {Levels(node)[d - 1] : node \in Contents(root)}
           P == {m \in Nat : m + 1 \in 1 .. MaxNesting => At(m + 1)}
<1>1. MaxNesting \in Nat
  BY NestingAssumption DEF NestingAssumption
<1>2. 0 \in P
  <2> SUFFICES ASSUME 1 \in 1 .. MaxNesting PROVE At(1)
    OBVIOUS
  <2>1. Levels(root)[1] = Contents(root)
    <3>1. Levels(root)[1] = UNION {Contents(node) : node \in Levels(root)[0]}
      <4>1. 1 - 1 = 0
        OBVIOUS
      <4> QED
        BY <4>1, LevelsAreAWalk
    <3>2. Levels(root)[0] = {root}
      BY LevelsAreAWalk
    <3> QED
      BY <3>1, <3>2
  <2>2. \A node : Levels(node)[0] = {node}
    BY LevelsAreAWalk
  <2> QED
    BY <2>1, <2>2
<1>3. ASSUME NEW m \in Nat, m \in P PROVE m + 1 \in P
  <2> SUFFICES ASSUME m + 1 + 1 \in 1 .. MaxNesting PROVE At(m + 1 + 1)
    OBVIOUS
  <2>1. /\ m + 1 \in 1 .. MaxNesting /\ m + 1 + 1 - 1 = m + 1 /\ m + 1 - 1 = m
    BY <1>1
  <2>2. Levels(root)[m + 1] = UNION {Levels(node)[m] : node \in Contents(root)}
    BY <1>3, <2>1
  <2>3. Levels(root)[m + 1 + 1] = UNION {Contents(x) : x \in Levels(root)[m + 1]}
    BY <2>1, LevelsAreAWalk
  <2>4. \A node : Levels(node)[m + 1] = UNION {Contents(x) : x \in Levels(node)[m]}
    BY <2>1, LevelsAreAWalk
  <2>5. Levels(root)[m + 1 + 1] = UNION {Levels(node)[m + 1] : node \in Contents(root)}
    BY <2>2, <2>3, <2>4
  <2> QED
    BY <2>1, <2>5
<1>4. \A m \in Nat : m \in P
  <2> HIDE DEF P
  <2> QED
    BY <1>2, <1>3, NatSetInduction
<1>5. ASSUME NEW d \in 1 .. MaxNesting PROVE At(d)
  <2>1. d - 1 \in Nat /\ d - 1 + 1 = d
    BY <1>1
  <2>2. d - 1 \in P
    BY <1>4, <2>1
  <2> QED
    BY <2>1, <2>2
<1> QED
  BY <1>5

IsText(root, s) == root.tag = "str" /\ s = root.text

LEMMA StringsAreLevels ==
  ASSUME NEW root, NEW s
  PROVE  s \in Strings(root) <=>
           \E d \in 0 .. MaxNesting : \E n \in Levels(root)[d] : IsText(n, s)
BY DEF Strings, IsText

\* A string of a tree that is not too deep to be one of a tree around it.
Within(root, s) == \E e \in 1 .. MaxNesting : \E n \in Levels(root)[e - 1] : IsText(n, s)

LEMMA WithinIsAString ==
  ASSUME NEW root, NEW s
  PROVE  /\ Within(root, s) => s \in Strings(root)
         /\ s \in Strings(root) /\ Levels(root)[MaxNesting] = {} => Within(root, s)
<1>1. MaxNesting \in Nat
  BY NestingAssumption DEF NestingAssumption
<1>2. \A e \in 1 .. MaxNesting : e - 1 \in 0 .. MaxNesting
  BY <1>1
<1>3. \A d \in 0 .. MaxNesting : d # MaxNesting => d + 1 \in 1 .. MaxNesting /\ d + 1 - 1 = d
  BY <1>1
<1>4. Within(root, s) => s \in Strings(root)
  BY <1>2, StringsAreLevels DEF Within
<1>5. ASSUME s \in Strings(root), Levels(root)[MaxNesting] = {} PROVE Within(root, s)
  <2>1. PICK d \in 0 .. MaxNesting : \E n \in Levels(root)[d] : IsText(n, s)
    BY <1>5, StringsAreLevels
  <2>2. d # MaxNesting
    BY <1>5, <2>1
  <2>3. d + 1 \in 1 .. MaxNesting /\ d + 1 - 1 = d
    BY <1>3, <2>2
  <2> QED
    BY <2>1, <2>3 DEF Within
<1> QED
  BY <1>4, <1>5

\* The strings of a mapping or list are those of what it contains.
LEMMA StringsOfContents ==
  ASSUME NEW root, root.tag # "str", NEW s
  PROVE  s \in Strings(root) <=> \E node \in Contents(root) : Within(node, s)
<1>1. MaxNesting \in Nat
  BY NestingAssumption DEF NestingAssumption
<1>2. \A e \in 1 .. MaxNesting : e \in 0 .. MaxNesting
  BY <1>1
<1>3. \A d \in 0 .. MaxNesting : d # 0 => d \in 1 .. MaxNesting
  BY <1>1
<1>4. ASSUME s \in Strings(root) PROVE \E node \in Contents(root) : Within(node, s)
  <2>1. PICK d \in 0 .. MaxNesting : \E n \in Levels(root)[d] : IsText(n, s)
    BY <1>4, StringsAreLevels
  <2>2. d # 0
    BY <2>1, LevelsAreAWalk DEF IsText
  <2>3. d \in 1 .. MaxNesting
    BY <1>3, <2>2
  <2>4. PICK n \in Levels(root)[d] : IsText(n, s)
    BY <2>1
  <2>5. PICK node \in Contents(root) : n \in Levels(node)[d - 1]
    BY <2>3, <2>4, LevelsOfContents
  <2> QED
    BY <2>3, <2>4, <2>5 DEF Within
<1>5. ASSUME NEW node \in Contents(root), Within(node, s) PROVE s \in Strings(root)
  <2>1. PICK e \in 1 .. MaxNesting : \E n \in Levels(node)[e - 1] : IsText(n, s)
    BY <1>5 DEF Within
  <2>2. \A n \in Levels(node)[e - 1] : n \in Levels(root)[e]
    BY <2>1, LevelsOfContents
  <2> QED
    BY <1>2, <2>1, <2>2, StringsAreLevels
<1> QED
  BY <1>4, <1>5

(***************************************************************************)
(* An entry put into a mapping.                                            *)
(***************************************************************************)
IsMapping(tree) ==
  /\ tree = Node("map", tree.text, tree.kids)
  /\ Len(tree.kids) \in Nat /\ DOMAIN tree.kids = 1 .. Len(tree.kids)
  /\ \A i \in DOMAIN tree.kids : tree.kids[i] = Entry(tree.kids[i].key, tree.kids[i].node)

Put(tree, key, node) == [tree EXCEPT !.kids = SetKey(tree.kids, key, node)]

\* The places at which a key is found.
Places(kids, key) == {i \in DOMAIN kids : kids[i].key = key}

\* SetKey: the entry is at one place, where its key is first found, and the
\* others are where they were.
LEMMA SetKeyPuts ==
  ASSUME NEW tree, IsMapping(tree), NEW key, NEW node
  PROVE  LET kids == tree.kids
             out  == SetKey(kids, key, node)
         IN \E at \in DOMAIN out :
              /\ out[at] = Entry(key, node)
              /\ DOMAIN out = DOMAIN kids \cup {at} /\ DOMAIN out \subseteq Nat
              /\ \A i \in DOMAIN out : i # at => out[i] = kids[i]
              /\ \A i \in Places(kids, key) : at <= i
              /\ at \in DOMAIN kids => at \in Places(kids, key)
<1> DEFINE kids == tree.kids
           same == Places(kids, key)
           out  == SetKey(kids, key, node)
<1>1. /\ Len(kids) \in Nat /\ DOMAIN kids = 1 .. Len(kids)
      /\ \A i \in DOMAIN kids : kids[i] = Entry(kids[i].key, kids[i].node)
  BY DEF IsMapping
<1>2. out = IF same = {} THEN Append(kids, Entry(key, node))
                         ELSE [kids EXCEPT ![Min(same)].node = node]
  BY DEF SetKey, Places
<1> HIDE DEF out, kids
<1>3. CASE same = {}
  <2> DEFINE at == Len(kids) + 1
             e  == Entry(key, node)
  <2>1. out = Append(kids, e)
    BY <1>2, <1>3
  <2> HIDE DEF e
  <2>2. /\ DOMAIN out = 1 .. Len(kids) + 1
        /\ \A i \in 1 .. Len(kids) + 1 : out[i] = IF i = Len(kids) + 1 THEN e ELSE kids[i]
    BY <1>1, <2>1
  <2>3. at \in DOMAIN out /\ out[at] = e /\ at \notin DOMAIN kids
    BY <1>1, <2>2
  <2>4. DOMAIN out = DOMAIN kids \cup {at} /\ DOMAIN out \subseteq Nat
    BY <1>1, <2>2
  <2>5. \A i \in DOMAIN out : i # at => out[i] = kids[i]
    BY <1>1, <2>2
  <2>6. (\A i \in same : at <= i) /\ (at \in DOMAIN kids => at \in same)
    BY <1>3, <2>3
  <2> HIDE DEF at
  <2>7. \E x \in DOMAIN out :
          /\ out[x] = e
          /\ DOMAIN out = DOMAIN kids \cup {x} /\ DOMAIN out \subseteq Nat
          /\ \A i \in DOMAIN out : i # x => out[i] = kids[i]
          /\ \A i \in same : x <= i
          /\ x \in DOMAIN kids => x \in same
    BY <2>3, <2>4, <2>5, <2>6
  <2> QED
    BY <2>7 DEF e, out, kids
<1>4. CASE same # {}
  <2> DEFINE at == Min(same)
  <2>1. same \in SUBSET Nat /\ same \subseteq DOMAIN kids
    BY <1>1 DEF Places
  <2>2. at \in same /\ \A i \in same : at <= i
    BY <1>4, <2>1, MinIsAMember
  <2> HIDE DEF at
  <2>3. at \in DOMAIN kids /\ kids[at] = Entry(key, kids[at].node)
    BY <1>1, <2>1, <2>2 DEF Places
  <2>4. out = [kids EXCEPT ![at].node = node]
    BY <1>2, <1>4 DEF at
  <2>5. out[at] = Entry(key, node)
    BY <2>3, <2>4 DEF Entry
  <2>6. DOMAIN out = DOMAIN kids /\ \A i \in DOMAIN out : i # at => out[i] = kids[i]
    BY <2>4
  <2> QED
    BY <1>1, <2>2, <2>3, <2>5, <2>6 DEF out, kids
<1> QED
  BY <1>3, <1>4

LEMMA PutFacts ==
  ASSUME NEW tree, IsMapping(tree), NEW key, NEW node
  PROVE  /\ Put(tree, key, node).tag = "map"
         /\ Put(tree, key, node).kids = SetKey(tree.kids, key, node)
BY DEF Put, IsMapping, Node

\* It is what the mapping contains besides some of what it contained,
LEMMA PutContents ==
  ASSUME NEW tree, IsMapping(tree), NEW key, NEW node
  PROVE  /\ node \in Contents(Put(tree, key, node))
         /\ Contents(Put(tree, key, node)) \subseteq Contents(tree) \cup {node}
<1> DEFINE kids == tree.kids
           out  == SetKey(kids, key, node)
<1>1. PICK at \in DOMAIN out :
        /\ out[at] = Entry(key, node)
        /\ DOMAIN out = DOMAIN kids \cup {at} /\ DOMAIN out \subseteq Nat
        /\ \A i \in DOMAIN out : i # at => out[i] = kids[i]
        /\ \A i \in Places(kids, key) : at <= i
        /\ at \in DOMAIN kids => at \in Places(kids, key)
  BY SetKeyPuts
<1>2. Put(tree, key, node).kids = out
  BY PutFacts
<1> HIDE DEF out
<1>3. out[at].node = node
  BY <1>1 DEF Entry
<1> QED
  BY <1>1, <1>2, <1>3 DEF Contents

\* and what is read under its key, and nothing else is read under another.
LEMMA PutIsRead ==
  ASSUME NEW tree, IsMapping(tree), NEW node, NEW name, NEW key
  PROVE  Get(Put(tree, key, node), name) = IF key = <<name>> THEN node ELSE Get(tree, name)
<1> DEFINE kids == tree.kids
           out  == SetKey(kids, key, node)
           new  == Places(out, <<name>>)
           old  == Places(kids, <<name>>)
<1>1. PICK at \in DOMAIN out :
        /\ out[at] = Entry(key, node)
        /\ DOMAIN out = DOMAIN kids \cup {at} /\ DOMAIN out \subseteq Nat
        /\ \A i \in DOMAIN out : i # at => out[i] = kids[i]
        /\ \A i \in Places(kids, key) : at <= i
        /\ at \in DOMAIN kids => at \in Places(kids, key)
  BY SetKeyPuts
<1>2. /\ Get(Put(tree, key, node), name) = IF new = {} THEN Null ELSE out[Min(new)].node
      /\ Get(tree, name) = IF old = {} THEN Null ELSE kids[Min(old)].node
  <2>1. tree.tag = "map"
    BY DEF IsMapping, Node
  <2> QED
    BY <2>1, PutFacts DEF Get, Places
<1> HIDE DEF out, kids
<1>3. out[at].key = key /\ out[at].node = node
  BY <1>1 DEF Entry
<1>4. new \in SUBSET Nat /\ old \in SUBSET Nat
  BY <1>1 DEF Places
<1>5. CASE key = <<name>>
  <2>1. at \in new /\ \A i \in new : i = at \/ i \in Places(kids, key)
    BY <1>1, <1>3, <1>5 DEF Places
  <2>2. \A i \in new : at <= i
    BY <1>1, <1>4, <2>1
  <2>3. Min(new) = at
    BY <1>4, <2>1, <2>2, MinIsAMember
  <2> QED
    BY <1>2, <1>3, <1>5, <2>1, <2>3
<1>6. CASE key # <<name>>
  <2>1. new = old
    BY <1>1, <1>3, <1>6 DEF Places
  <2>2. at \notin new
    BY <1>3, <1>6 DEF Places
  <2>3. new # {} => out[Min(new)] = kids[Min(old)]
    <3>1. new # {} => Min(new) \in new
      BY <1>4, MinIsAMember
    <3>2. \A i \in new : i \in DOMAIN out /\ i # at
      BY <2>2 DEF Places
    <3> QED
      BY <1>1, <2>1, <3>1, <3>2
  <2> QED
    BY <1>2, <1>6, <2>1, <2>3
<1> QED
  BY <1>5, <1>6

HasPlaceholder(tree) == \E s \in Strings(tree) : Placeholder \in ToSet(s)

\* What is put into a deliverable mapping decides alone whether it still is one.
LEMMA PutIsDelivered ==
  ASSUME NEW tree, IsMapping(tree), DeliveryCheck(tree), NEW key, NEW node,
         Levels(node)[MaxNesting] = {}
  PROVE  DeliveryCheck(Put(tree, key, node)) <=>
           /\ ~HasPlaceholder(node)
           /\ key = <<"audit">>   => ~RetentionIsDemo(node)
           /\ key = <<"signing">> => ~IsUnsigned(node)
<1> DEFINE out == Put(tree, key, node)
<1>1. /\ out.tag = "map" /\ node \in Contents(out)
      /\ Contents(out) \subseteq Contents(tree) \cup {node}
  BY PutFacts, PutContents
<1>2. /\ Get(out, "audit") = IF key = <<"audit">> THEN node ELSE Get(tree, "audit")
      /\ Get(out, "signing") = IF key = <<"signing">> THEN node ELSE Get(tree, "signing")
  BY PutIsRead
<1>3. /\ ~HasPlaceholder(tree)
      /\ ~RetentionIsDemo(Get(tree, "audit"))
      /\ ~IsUnsigned(Get(tree, "signing"))
  BY DEF DeliveryCheck, HasPlaceholder
<1> HIDE DEF out
<1>4. ASSUME NEW s \in Strings(node) PROVE s \in Strings(out)
  BY <1>1, WithinIsAString, StringsOfContents
<1>5. ASSUME NEW s \in Strings(out) PROVE s \in Strings(node) \/ s \in Strings(tree)
  <2>1. PICK c \in Contents(out) : Within(c, s)
    BY <1>1, StringsOfContents
  <2>2. tree.tag = "map"
    BY DEF IsMapping, Node
  <2>3. CASE c = node
    BY <2>1, <2>3, WithinIsAString
  <2>4. CASE c \in Contents(tree)
    BY <2>1, <2>2, <2>4, StringsOfContents
  <2> QED
    BY <1>1, <2>3, <2>4
<1>6. HasPlaceholder(out) <=> HasPlaceholder(node)
  BY <1>3, <1>4, <1>5, Zenon DEF HasPlaceholder
<1>7. DeliveryCheck(out) <=> /\ ~HasPlaceholder(out)
                             /\ ~RetentionIsDemo(Get(out, "audit"))
                             /\ ~IsUnsigned(Get(out, "signing"))
  BY <1>1 DEF DeliveryCheck, HasPlaceholder
<1>8. DeliveryCheck(out) <=>
        /\ ~HasPlaceholder(node)
        /\ key = <<"audit">>   => ~RetentionIsDemo(node)
        /\ key = <<"signing">> => ~IsUnsigned(node)
  BY <1>2, <1>3, <1>6, <1>7, Zenon
<1> QED
  BY <1>8 DEF out

\* A manifest is delivered exactly when what is put into it holds no placeholder
\* at any depth, its audit section is hollow or names no mode but COMPLIANCE and
\* thirty days or more, and its signing section is hollow or has a signature that
\* is not blank (manifest_validator.py:123-193), for every deliverable tree it is
\* put into, under every key, in place of an entry or as a further one.
THEOREM DeliveredIsCleanHolds == RulingSpec => []DeliveredIsClean
<1>1. RulingInv => DeliveredIsClean
  <2> SUFFICES ASSUME RulingInv, Answered("deliver") PROVE DeliveredIsClean
    BY DEF DeliveredIsClean
  <2>0. asked.case \in Deliveries /\ answer[1] = DeliveryCheck(Delivered(asked.case))
    BY DEF RulingInv, Answered
  <2> SUFFICES ASSUME NEW case \in Deliveries
               PROVE  DeliveryCheck(Delivered(case)) <=> ~Spoils(case)
    BY <2>0 DEF DeliveredIsClean
  <2> DEFINE clean == case.clean
             node  == case.node
             key   == case.key
  <2>1. /\ clean = Node(clean.tag, clean.text, clean.kids)
        /\ Len(clean.kids) \in Nat /\ DOMAIN clean.kids = 1 .. Len(clean.kids)
        /\ \A i \in DOMAIN clean.kids :
             clean.kids[i] = Entry(clean.kids[i].key, clean.kids[i].node)
        /\ DeliveryCheck(clean) /\ Levels(node)[MaxNesting] = {}
        /\ case.hasPlaceholder <=> HasPlaceholder(node)
        /\ key \in {<<"audit">>, <<"signing">>} => ~case.hasPlaceholder
    BY DeliveriesAssumption DEF DeliveriesAssumption, HasPlaceholder
  <2> DEFINE isDemo == /\ case.mode # "hollow"
                       /\ case.mode \notin {"COMPLIANCE", "unset"} \/ case.days < 30
  <2>2. key = <<"audit">> => (RetentionIsDemo(node) <=> isDemo)
    <3> SUFFICES ASSUME key = <<"audit">>
                 PROVE  RetentionIsDemo(node) <=> isDemo
      OBVIOUS
    <3>1. /\ case.mode = "hollow" <=> node.tag # "map" \/ node.kids = <<>>
          /\ case.mode = "unset" <=>
               node.tag = "map" /\ node.kids # <<>> /\ ~Has(node, "object_lock_mode")
          /\ case.mode \notin {"hollow", "unset"} =>
               Get(node, "object_lock_mode") = Str(<<case.mode>>)
          /\ case.days = Days(Get(node, "retention_days"))
      BY DeliveriesAssumption DEF DeliveriesAssumption, IsHollow
    <3>2. /\ Str(<<case.mode>>) # Str(<<>>)
          /\ Str(<<case.mode>>) = Str(<<"COMPLIANCE">>) <=> case.mode = "COMPLIANCE"
      BY DEF Str, Node
    <3> QED
      BY <3>1, <3>2 DEF RetentionIsDemo, MinRetentionDays
  <2>3. key = <<"signing">> => (IsUnsigned(node) <=> case.signing = "unsigned")
    <3> SUFFICES ASSUME key = <<"signing">>
                 PROVE  IsUnsigned(node) <=> case.signing = "unsigned"
      OBVIOUS
    <3> DEFINE signature == Get(node, "signature")
               isBlank   == \/ IsFalsy(signature)
                            \/ signature.tag = "str" /\ Strip(signature.text) = <<>>
    <3>1. case.signing = CASE IsHollow(node) -> "hollow"
                           [] ~IsHollow(node) /\ isBlank  -> "unsigned"
                           [] ~IsHollow(node) /\ ~isBlank -> "signed"
      BY DeliveriesAssumption DEF DeliveriesAssumption
    <3>2. IsUnsigned(node) <=> ~IsHollow(node) /\ isBlank
      BY DEF IsUnsigned, IsHollow
    <3> HIDE DEF isBlank
    <3> QED
      BY <3>1, <3>2
  <2>4. Delivered(case) = Put(clean, key, node)
    BY DEF Delivered, Put
  <2> HIDE DEF clean, node, key
  <2>5. IsMapping(clean)
    BY <2>1 DEF IsMapping, DeliveryCheck
  <2>6. DeliveryCheck(Put(clean, key, node)) <=>
          /\ ~HasPlaceholder(node)
          /\ key = <<"audit">>   => ~RetentionIsDemo(node)
          /\ key = <<"signing">> => ~IsUnsigned(node)
    BY <2>1, <2>5, PutIsDelivered
  <2>7. Spoils(case) <=>
          \/ key = <<"audit">> /\ isDemo
          \/ key = <<"signing">> /\ case.signing = "unsigned"
          \/ key # <<"audit">> /\ key # <<"signing">> /\ case.hasPlaceholder
    BY DEF Spoils, key
  <2> QED
    BY <2>1, <2>2, <2>3, <2>4, <2>6, <2>7
<1> QED
  BY <1>1, RulingInvHolds, PTL

-----------------------------------------------------------------------------
(***************************************************************************)
(* The check digit of a card number.                                        *)
(***************************************************************************)
Doubled(d) == IF 2 * d > 9 THEN 2 * d - 9 ELSE 2 * d

Weighed(digits) ==
  [i \in 1 .. Len(digits) |->
     IF (i - 1) % 2 = Len(digits) % 2 THEN Doubled(digits[i]) ELSE digits[i]]

LEMMA LuhnWeighs ==
  ASSUME NEW digits
  PROVE  LuhnOk(digits) <=> Len(digits) \in 13 .. 19 /\ SumFunction(Weighed(digits)) % 10 = 0
BY DEF LuhnOk, Weighed, Doubled

\* One digit typed wrong is always noticed: a number that differs from a card number
\* in a single digit is none.  That is what the reduction of a doubled digit above nine
\* is for (masker.py, luhn_ok): without it 0 and 5, doubled, weigh the same.
THEOREM LuhnNoticesADigit ==
  ASSUME NEW digits \in Seq(0 .. 9), LuhnOk(digits),
         NEW i \in 1 .. Len(digits), NEW d \in 0 .. 9, d # digits[i]
  PROVE  ~LuhnOk([digits EXCEPT ![i] = d])
<1> DEFINE typed == [digits EXCEPT ![i] = d]
           n     == Len(digits)
           v     == Weighed(digits)
           w     == Weighed(typed)
           S     == 1 .. n
<1>1. n \in Nat /\ \A k \in S : digits[k] \in 0 .. 9
  OBVIOUS
<1>2. Len(typed) = n /\ \A k \in S : typed[k] = IF k = i THEN d ELSE digits[k]
  OBVIOUS
<1> HIDE DEF typed
<1>3. ASSUME NEW a \in 0 .. 9, NEW b \in 0 .. 9, a # b
      PROVE  Doubled(a) \in 0 .. 9 /\ Doubled(b) \in 0 .. 9 /\ Doubled(a) # Doubled(b)
  BY <1>3 DEF Doubled
<1>4. DOMAIN v = S /\ DOMAIN w = S
  BY <1>2 DEF Weighed
<1>5. ASSUME NEW k \in S, k # i PROVE v[k] = w[k] 
  BY <1>2, <1>5 DEF Weighed
<1>6. v[i] \in 0 .. 9 /\ w[i] \in 0 .. 9 /\ v[i] # w[i]
  <2>1. digits[i] \in 0 .. 9 /\ typed[i] = d /\ digits[i] # d /\ i \in S
    BY <1>1, <1>2
  <2>2. /\ v[i] = IF (i - 1) % 2 = n % 2 THEN Doubled(digits[i]) ELSE digits[i]
        /\ w[i] = IF (i - 1) % 2 = n % 2 THEN Doubled(d) ELSE d
    BY <1>2, <2>1 DEF Weighed
  <2> QED
    BY <1>3, <2>1, <2>2
<1>7. \A k \in S : v[k] \in Int /\ w[k] \in Int
  <2>1. \A a \in 0 .. 9 : Doubled(a) \in Int /\ a \in Int
    BY DEF Doubled
  <2>2. \A k \in S : typed[k] \in 0 .. 9
    BY <1>1, <1>2
  <2> QED
    BY <1>1, <1>2, <2>1, <2>2 DEF Weighed
<1>8. IsFiniteSet(S) /\ IsFiniteSet(S \ {i})
  <2>1. IsFiniteSet(S)
    BY <1>1, FS_Interval
  <2> QED
    BY <2>1, FS_Subset, S \ {i} \subseteq S
<1>9. /\ SumFunctionOnSet(v, S) = SumFunctionOnSet(v, S \ {i}) + v[i]
      /\ SumFunctionOnSet(w, S) = SumFunctionOnSet(w, S \ {i}) + w[i]
      /\ SumFunctionOnSet(v, S \ {i}) \in Int
  <2>1. i \in S
    OBVIOUS
  <2> HIDE DEF v, w, S
  <2> DEFINE R == S \ {i}
  <2>2. R \cup {i} = S /\ i \notin R
    BY <2>1
  <2>3. IsFiniteSet(R) /\ \A k \in R \cup {i} : v[k] \in Int /\ w[k] \in Int
    BY <1>7, <1>8, <2>2
  <2> HIDE DEF R
  <2>4. SumFunctionOnSet(v, R \cup {i}) = SumFunctionOnSet(v, R) + v[i]
    BY <2>2, <2>3, SumAdds
  <2>5. SumFunctionOnSet(w, R \cup {i}) = SumFunctionOnSet(w, R) + w[i]
    BY <2>2, <2>3, SumAdds
  <2>6. SumFunctionOnSet(v, R) \in Int
    BY <2>3, SumType
  <2> QED
    BY <2>2, <2>4, <2>5, <2>6 DEF R
<1> HIDE DEF v, w, S
<1>10. SumFunctionOnSet(v, S \ {i}) = SumFunctionOnSet(w, S \ {i})
  BY <1>5, <1>7, <1>8, SumOfSame
<1>11. ASSUME NEW a \in 0 .. 9, NEW b \in 0 .. 9, NEW c \in Int, a # b, (c + a) % 10 = 0
       PROVE  (c + b) % 10 # 0
  BY <1>11
<1>12. SumFunction(v) = SumFunctionOnSet(v, S) /\ SumFunction(w) = SumFunctionOnSet(w, S)
  BY <1>4 DEF SumFunction
<1>13. ASSUME SumFunction(v) % 10 = 0 PROVE SumFunction(w) % 10 # 0
  <2>1. (SumFunctionOnSet(v, S \ {i}) + v[i]) % 10 = 0
    BY <1>9, <1>12, <1>13
  <2>2. (SumFunctionOnSet(v, S \ {i}) + w[i]) % 10 # 0
    BY <1>6, <1>9, <1>11, <2>1
  <2> QED
    BY <1>9, <1>10, <1>12, <2>2
<1> QED
  BY <1>13, LuhnWeighs DEF typed, v, w

=============================================================================
