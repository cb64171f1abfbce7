------------------------------- MODULE ModelGateway -------------------------------
(***************************************************************************)
(* platform_core/model_gateway.py: profile allowlist, prompt pins, the two *)
(* deterministic tasks and the grounding of what they answer.              *)
(*                                                                         *)
(* Texts are the sets of their content words (three letters or more); the  *)
(* trigger words of a prompt are given as the categories they belong to,   *)
(* and scores in hundredths.  Token estimates are lengths and left out.    *)
(***************************************************************************)
EXTENDS Integers, Sequences, FiniteSets

\* _profile_for_task, and what register_agent keeps of an agent.
ProfileFor(task) == IF task = "classify" THEN "haiku" ELSE "sonnet"

Registration(profiles, pins) ==
  [profiles |-> IF profiles = {} THEN {"haiku", "sonnet"} ELSE profiles,
   pins     |-> pins]

\* The first category with a trigger word in the prompt; its words and priority.
CategoryOrder == <<"access", "performance", "sanitation", "streets">>

Category(prompt) ==
  LET hits == {i \in DOMAIN CategoryOrder : CategoryOrder[i] \in prompt}
  IN IF hits = {} THEN "general"
     ELSE CategoryOrder[CHOOSE i \in hits : \A j \in hits : i <= j]

Priority(category) ==
  CASE category = "access"  -> "high"
    [] category = "general" -> "low"
    [] OTHER                -> "medium"

CategoryWords(category) ==
  CASE category = "access" -> {"access", "management"}
    [] category \in {"sanitation", "streets"} -> {category, "311"}
    [] OTHER -> {category}

\* Variant: the prompt is quoted in the answer as well.
AnswerWords_QuotesPrompt(task, prompt, sources) ==
  prompt \cup IF sources = {} THEN {"unverified"} ELSE UNION sources

\* The content words of the answer: a classification with the sources behind
\* it, or a draft composed of the sources, or of nothing when there are none.
AnswerWords(task, prompt, sources) ==
  IF task = "classify"
    THEN LET category == Category(prompt)
         IN {"classified", "priority", Priority(category)}
              \cup CategoryWords(category) \cup UNION sources
  ELSE IF sources = {}
    THEN {"unverified", "free", "form", "answer", "with", "supporting", "source"}
  ELSE UNION sources

\* round(k / n, 2) in hundredths, ties to even.
Hundredths(k, n) ==
  LET q == (100 * k) \div n
      r == 2 * ((100 * k) % n)
  IN IF r > n \/ (r = n /\ q % 2 = 1) THEN q + 1 ELSE q

GroundingScore(answer, sources) ==
  LET known == UNION sources
      score == Hundredths(Cardinality(answer \cap known), Cardinality(answer))
  IN IF answer = {} \/ known = {} THEN 0
     ELSE IF score > 99 THEN 99 ELSE score

\* Without pins anything goes; a caller that names no hash is not compared.
PinHolds(pins, req) ==
  DOMAIN pins # {} => /\ req.version \in DOMAIN pins
                      /\ req.hash \in {"none", pins[req.version]}

\* _validate_against_schema on the structured output: its keys, and the
\* enumeration a schema may put on the category.
SchemaHolds(schema, task, category) ==
  /\ schema.required \subseteq IF task = "classify" THEN {"category", "priority"}
                                                    ELSE {"draft", "source_ids"}
  /\ task = "classify" /\ schema.enum # {} => category \in schema.enum

Refusal == [raised |-> TRUE, grounded |-> FALSE, answer |-> {}]

Invoke(allowlist, req) ==
  LET cfg    == allowlist[req.agent]
      answer == AnswerWords(req.task, req.prompt, req.sources)
  IN IF \/ req.agent \notin DOMAIN allowlist
        \/ ProfileFor(req.task) \notin cfg.profiles
        \/ ~PinHolds(cfg.pins, req)
        \/ ~SchemaHolds(req.schema, req.task, Category(req.prompt))
       THEN Refusal
       ELSE [raised   |-> FALSE,
             grounded |-> GroundingScore(answer, req.sources) >= req.threshold,
             answer   |-> answer]
=============================================================================
