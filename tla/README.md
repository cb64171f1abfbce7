# Verification of the AEGIS governance core

AEGIS is a governance layer for AI agents. It exists twice: as an offline
library (`platform_core`), in which every tool call of an agent goes through one
broker, `AuthorizationGateway.call`, and as hosted parts on AWS (`infra`), where
Lambdas, DynamoDB tables and Step Functions do the same work under crashes,
time-outs and concurrent invocations.

This directory models both in TLA+, checks them with TLC on small instances, and
proves their main safety properties for all instances with TLAPS.

## 1. Inventory

State, operations and neighbours of each part. "Correct" is what has to hold.

| Component | State | Operations | Interacts with | Correct when |
|---|---|---|---|---|
| Gateway `platform_core/gateway.py` | registered agents and tools, `_completed` outbox | `call`, `register_agent`, `register_tool`, `idempotency_key` | the six rows below, by direct calls | nothing runs unauthorized, unrecorded or twice; what the caller is told is true |
| Approval ledger `approval_ledger.py` | dictionary of approvals | `request_approval`, `approve`, `consume`, `get` | gateway peeks, then consumes | an approval is bound, reviewed by someone else, used once |
| Token budget `token_budget.py` | a meter per agent, alerts fired | `preflight`, `commit`, registration | gateway; registry handed to the kill switch | cap is respected, alerts follow the meter |
| Kill switch `kill_switch.py` | engaged flag, engager, history | `engage`, `disengage` | read first by the gateway; writes audit | engaged means nothing new runs; released by another |
| Audit ledger `audit_ledger.py` | list of rows, hash chain, frozen hashes, JSONL file | `append`, `verify_chain`, `export_worm` | every part appends | rows are never lost, changed or reordered; an edit is noticed, nothing else is |
| Policy engine `policy_engine.py` | none | `evaluate` | both gateways | deny by default, first failing clause decides |
| Usage ledger `chargeback.py` | list of events | `record`, reports | gateway | bills what the meter counts; lines add up to totals |
| Masker `masker.py` | none | `mask_report` | gateway, model gateway | fails closed; no pass eats what a later one looks for |
| Model gateway `model_gateway.py` | registered allowlists | `invoke` | masker, callers | only allowed profiles and pinned prompts; grounded text has a source |
| Manifest loader `manifest_loader.py` | none | `parse_yaml`, `load_manifest`, `validate_manifest` | registration | the tree is what the author wrote |
| Manifest validation and signing `prod/manifest_validator.py`, `prod/manifest_signing.py` | none | validate, delivery check, sign, verify | delivery, registration | what is delivered is clean, what verifies was signed |
| Cedar compiler `prod/cedar_compiler.py` | none | compile a manifest | hosted policy store | reaches no withheld tool; differs from the policy engine in known ways only |
| DynamoDB budget `prod/budget_manager_ddb.py` | a table item per budget key | `reserve` | DynamoDB | the cap holds under concurrency and resends |
| Pilot handler `infra/golden-pilot/gateway-src/handler.py` | approval and audit tables | MCP requests in Lambda | reviewer service, policy engine | an approval is consumed once, before what it allows |
| Reviewer service `infra/golden-pilot/reviewer-service.yaml` | pending, ledger and audit tables; Step Functions | classify, open gate, review, time out, finalize | pilot handler, through the ledger | a gate opens once, for a supervisor other than the requester |
| Connector pilot `infra/golden-pilot/connector-pilot.yaml` | tickets, idempotency table | create, notify, void | Step Functions | one ticket for a claimed key; a failure is compensated |
| Governance core gateway `infra/terraform/modules/governance_core/index.py` | SSM parameter, a cache per container, audit table | handle a request | operator, guardrail | stale for no longer than the cache lives; answers have their row |
| Templates, CDK, scripts, tools, demos, packs | files | batch | | not part of the running system |

Hard behaviours. None of the in-process parts takes a lock, so what concurrent
callers see is up to the host. Every check (completed key, meter, approval, kill
switch) is made well before the effect it protects. An audit append may fail
before or after a side effect. Approvals expire while a call is in flight. In
the hosted parts a Lambda may die between any two table accesses, a response may
be lost and its request sent again, DynamoDB removes expired rows at its own
pace, and values are cached. `PROJECT.json` lists each hazard at its line with
the properties that cover it. Three have no property and say why: the swallowed
audit row of a kill-switch change, the audit of a denial that raises, and the
overselling of a hard cap by overlapping calls. Where a property covers one side of
a hazard and the other is simply what the code does, the hazard has a note.

## 2. Modules

### The offline gateway

| Module | Models | Correspondence |
|---|---|---|
| `PolicyEngine` | the nine clauses of `evaluate` | `ClauseHolds` has a case per clause, `Rank` their order, `Evaluate` the decision. Clause 2 contains an approval test of its own, named `human_gate` |
| `ApprovalLedger` | `ApprovalLedger` | `approvals` is `_store`; each approval id is one `request_approval` call whose arguments are `Asked[id]`. `Consumable` is `consume` up to its write, `AfterRefusal` what a raising `consume` leaves |
| `TokenBudget` | `BudgetMeter`, `BudgetRegistry` | `used`, `alertsFired`; `PreflightAllows`, `CommitSpend`, `RegisterMeter` |
| `KillSwitch` | `KillSwitch` | `engaged`, `engagedBy`, `history` |
| `AuditTrail` | `AuditLedger.append` as a caller sees it | `records` is the list in memory, `journal` the file. An append that raises leaves the row in neither, or in memory only |
| `Gateway` | `AuthorizationGateway` over the five above | `pc[c]` is the point activation `c` of `call()` has reached; one action per stretch between two accesses to shared state |
| `GovernedAction` | nothing: the promise in the header of `gateway.py` | anchor, spend, run, tell |
| `GatewayProperties`, `MCGateway` | | properties and refinement mapping; manifests, approvals and calls for TLC |
| `GatewayProofs` | | theorems on approvals, the record and the refinement |
| `ControlProofs` | | theorems on the meters, the switch and the answers |
| `FiniteSums` | | lemmas on sums over finite sets, for every proof about counts of tokens or costs |

Each activation walks

    idle - Receive -> masked - Deduplicate -> fresh - PreflightBudget -> metered
      - PeekApproval -> peeked - Authorize -> authorized - AppendIntent -> anchored
      - CheckApproval -> checked - TakeApproval -> cleared - Execute -> executed
      - CommitTokens -> committed - RecordUsage -> settled
      - AppendCompletion -> recorded | unrecorded - Complete -> done

and any of the checking steps may go straight to `done` with an answer. A call
of a tool that is not consequential goes from `authorized` to `cleared`.

### The offline stores under threads

| Module | Models | Correspondence |
|---|---|---|
| `AuditLedger` | `append`, `verify_chain`, `export_worm` | `recs`, `frozen`, `lines` are `_records`, `_frozen_hashes` and the file. Each read of the length, read of the head, append, freeze and write is a step; so are the three readings of an export. `Edit` changes a record behind the ledger's back |
| `SwitchThreads` | `engage`, `disengage` | one step per assignment, the history entry and the audit call included; the tests of `disengage` are a step apart from its write |
| `ApprovalThreads` | `approve`, `consume` | the status test and the status write are separate steps |
| `OfflineThreads`, `MCThreads` | the three side by side | they share nothing, so `cast` picks one per behaviour |
| `ThreadProofs` | | theorems |

### The hosted parts

| Module | Models | Correspondence |
|---|---|---|
| `ReviewerService` | `reviewer-service.yaml` | `wf[r]` is the execution of request `r` (`Classify`, `OpenGate`, `GateTimesOut`, `Finalize`); `at[a]` is one invocation of the reviewer Lambda (`Ask`, `ReadGate`, `Deny`, `Issue`, `RecordApproval`, `Release`, `Close`). Every table access is a step; `AttemptDies` may come between any two; `Sweep` is DynamoDB's removal of expired rows |
| `PilotHandler` | `gateway-src/handler.py` | `step[c]` is one activation of `handler()`: `Receive` up to the first table access, `ConsumeApproval` with its condition, `AuditRow`, `Execute`. `PolicyEngine` decides, as in the code |
| `HostedApproval`, `MCHosted` | both over one ledger table and one clock | `cast` is the set of invocations a behaviour has |
| `GrantPromise` | nothing: what the gate promises | a decision makes a grant, one action takes it, only an action that took its grant runs, a gate opens for a grant that was made, grants lapse |
| `HostedProofs` | | theorems |
| `ConnectorSaga`, `MCSaga`, `SagaProofs` | `connector-pilot.yaml` | `pc[x]` is one execution: claim the key or look it up, announce, put the ticket, name it, confirm, notify, void, note |
| `FrontDoor` | `governance_core/index.py` | `flag` is the SSM parameter, `cache[c]` what container `c` keeps of it, `table` the audit rows; `door[q]` is one request |
| `BudgetReserve` | both `reserve` of `budget_manager_ddb.py` | `item` is the table's `used` attribute, absent at first; `used` the in-memory entry. An update may be applied and its response lost, and is then sent again |
| `CloudControls`, `MCCloud`, `CloudProofs` | the two side by side | `cast` picks one per behaviour |

### The stateless library

| Module | Models | Correspondence |
|---|---|---|
| `ManifestTree` | what a manifest is once it is loaded | nodes `[tag, text, kids]`; `SetKey` is the assignment to a dictionary, `Strip` that of strings |
| `ManifestYaml` | the YAML-subset parser | a document is a sequence of indented lines of lexemes, a tree comes back |
| `ManifestRules` | `validate_manifest` of the loader and of `prod/manifest_validator.py` | a manifest is the shape of its sections, the state of its plain fields, and the values the checks relate |
| `DeliveryGate` | `delivery_check` | `Levels` are the nodes `_walk_strings` visits, by depth, to at most `MaxNesting` |
| `CedarCompiler` | `prod/cedar_compiler.py` | the compiled permit as a predicate on the request its schema describes |
| `ManifestSigning` | `prod/manifest_signing.py` | what the canonical bytes cover; RSA and KMS are ideal |
| `Masker` | `masker.py` | `Pass` is one `pattern.sub`, from the end of the text; `SafeHarbor` the ordered passes; Luhn, the NER pass and its faults; over tokens |
| `ModelGateway` | `model_gateway.py` | allowlist, pins, the two tasks, grounding, the output schema |
| `Chargeback` | the reports of `chargeback.py` | `Tally` is what the loop of `_aggregate` leaves in the row of one tag; per-line and total rounding |
| `Rulings` | what is accepted, delivered, verified, masked, invoked, billed | one question and its answer; the properties relate the answer to what was asked |
| `RulingProofs` | | theorems on the rulings |
| `Library`, `MCLibrary` | the rulings, and the loading of manifests | the parser recurses, so this module has no theorems. `Written` puts a tree down as a document in several layouts, which is what `ParsedAsWritten` compares the parser with; texts are put together from known fragments |

### Abstractions

Arguments, purposes, regions and classes are opaque values. Hashes are taken to
be injective, so a key is the tuple it is computed from, and an approval id of
the reviewer service is named by its request. In the gateway, `user` and
`authenticated` are one flag for the predicate, and masking is the flag
`maskable` of a call, since only whether it fails matters there. A predicate that
raises (`PolicyFault`) stands for a manifest or an injected engine that `evaluate`
cannot digest and may happen on any call. The journal is the JSONL file (or the
production table); a ledger made without a path has no durable copy. `spender`,
`caught`, `issued`, `claims`, `died`, `offAt`, `up`, `namer`, `met`, `overlap`,
`edits` and `reopened` are history variables and so named where they are declared.

Arguments can be serialised as JSON; otherwise `arguments_hash` at
`gateway.py:210` raises before anything is audited. An agent is registered again
with the manifest it has. A refusal of the gateway and its audit row are one step,
and so are the reads of `consume` in `Gateway`. The reviewer service takes the
verified claims as they come: the handler knows a caller by `sub` and the
reviewer by `cognito:username`, and the models equate the two. The saga's audit
puts swallow their errors, so its rows stand for attempted ones. Every request of
the pilot handler has a `request_id` of its own.

The stateless modules work on what the code distinguishes: lexemes, tokens,
words, section shapes. Left out are floats, signs and escapes of YAML; dots,
parentheses, colons and plus signs of the masker's patterns; token estimates and
the array and number types in the model gateway's schema check. An address and a
redaction are one token each, so nothing matches inside them and an address takes
nothing of what stands in front of it. A text before it is masked is therefore taken
to be one as people write it (`IsAsWritten`): no redaction is in it yet, a blank or a
hyphen is between any two tokens, and an address stands behind a blank and not behind
a bare `MRN` or `SID`.

A Cedar request has what the schema has: the tool's data class and its purposes as
they were registered, and the human's entitlements and clearance. Neither the former
nor the clearance comes from the manifest or from the call (`ctx.registered`,
`ctx.clearance`).

A conditional put whose response is lost is sent again by the SDK and meets its own
row: `Issue`, `Claim`, `RecordDecision` and `BudgetReserve` have that outcome, and
`ConsumeApproval` a lost response, which the handler reads as a refusal.

Definitions whose name ends in `_Something` and whose comment starts with
"Variant:" are plausible mistakes in the definition that follows. No
specification uses them; `PROJECT.json` pairs each with the property that
notices it.

### Granularity of the gateway

A step is one access to shared state with the local computation around it. The
constant `Preemptible` says at which points others may run:

* `Points`: threads, switched between any two steps.
* `Points \ {"checked"}`: the same, with `consume()` atomic. The header of
  `approval_ledger.py` promises this, the code does not see to it, and the
  production store would with its conditional write.

`approve`, `engage`, `disengage`, and `used += n` with its alerts are one step
each in the gateway's runs. The run `threads` has the first three statement by
statement, on their own.

## 3. Runs

| Run | Question | Instance |
|---|---|---|
| `gw_review` | Does one approval underwrite one execution, under review, after a durable intent, with truthful refusals? Does the gateway implement `GovernedAction`? | one approval that expires after one tick, a first call, a retry, other arguments, another purpose; two in flight, three in all; audit appends and connectors may fail |
| `gw_paths` | When calls do not overlap: is every answer on the record, does a completed key stay completed, do alerts follow the meter, does a hard cap hold? | fifteen calls, one per way through `call()` and some that reach or pass a hard or a soft cap; any two in sequence; both ways an append may fail; re-registration at any moment |
| `gw_containment` | What runs while the switch is engaged, who releases it, and is every call answered with its intent closed or its caller told? | two operators, three changes, two calls on one approval in flight, refused appends, connectors that fail; fairness of the calls |
| `hosted` | Is what ran reviewed and recorded, is an approval answered 200 a gate opened once, does the path implement `GrantPromise`, and does every workflow end? | three requests, of which one is filed for another agent and one for another purpose; nine casts of a request with up to three invocations (a review and its retry with a call, two calls on one approval, other arguments, another user, the other agent's and the other purpose's approval, an unentitled user, a requester who reviews, a clerk, `tools/list`, ...); one death anywhere, any response lost; both lifetimes one tick, two ticks in all; audit puts may fail |
| `saga` | One ticket per claim, no named ticket missing, rollbacks complete, failures compensated? | three executions, two of them with one key, one failing downstream; a key lives one tick of two; two deaths anywhere |
| `threads` | What do the unlocked stores promise when threads overlap, and which overlap lets an operator release his own switch or an approval be used again? | three appends, an export and an edit; four switch changes by two operators; two reviewers, the requester and two consumers on one approval |
| `cloud` | How stale may the kill switch be, does each answer have its row, does the cap hold? | three requests on two containers, one of them without a parameter, two with one request id; cache life two of three ticks, the flag flipped at will. Five reservations (0, 2, 3, 5 and -1 tokens) against a cap of 4, each resent up to once, responses lost |
| `library` | Does the loader return what was written, where do validators, engine and Cedar agree, does a signature cover what it should, is what is delivered clean, masked text masked, grounded text sourced, and do reports add up? | every combination of the cases `MCLibrary` enumerates, about 110 000 questions: texts of one and two fragments with words in between and of three without, trees that hold a value up to three levels down (`MaxNesting` is 5, deeper than any of them) |

Why the bounds suffice. A violation of single use needs two activations on one
approval, and one more shows a retry after the two have settled; expiry needs a
tick before and a tick after; an overrun of the cap needs two spends; overwriting
an engager needs two engagements and a release. In the hosted path one death
reaches every point at which an invocation can be abandoned, and two ticks let a
row expire, be swept and be issued again while a gate times out. Two executions
with one key and a tick past its life are a claim, a hit and a second claim; two
deaths are a notification and its compensation. Two cached reads a cache's life
apart need three ticks. Each mutant listed in `PROJECT.json` violates its property
within the same bounds. `MaxStarted`, `MaxInFlight`, `MaxTime`, `MaxChanges`,
`MaxDeaths`, `MaxEdits`, `MaxClock`, `MaxResends` and `MaxNesting` are all the bounds there are,
besides the finite sets. When they are used up nothing more can happen, and a
finished question is finished, so the configurations do not check for deadlock;
the liveness properties are what says that nothing gets stuck.

Fairness.

* `gw_containment`: some call in flight goes on (`WF_vars(\E c : Proceed(c))`).
  Python does not abandon a running function, nothing in `call()` waits, and a
  connector is assumed to return or raise. Calls are finite, so this one condition
  is enough.
* `hosted`: `WF_hostedVars(Ongoing)`. Step Functions and Lambda carry on with what
  was begun, time-outs fire, DynamoDB sweeps, time passes. No one has to start an
  execution, review, or call; `WorkflowsEnd` holds with reviewers who never come
  because `HumanGate` has a time-out.
* `saga`: weak fairness of each started execution's next state.

Nothing is assumed of reviewers, operators, or the arrival of calls.

`HardCapHolds` and `CompletedKeyNeverRuns` pass with `MaxInFlight = 1` and fail
with two in flight: both are checks made long before the step they protect.
`SingleUse` passes with two in flight and `consume` atomic, and fails without.
`ReplayNeedsALateApprove` says the most that is true of `approve` and `consume` as
written: an approval is used again only after an `approve` that tested the status
before the first use and wrote it after, or by two `consume` that overlap.

### Where the code departs from its documentation

These runs end in a counterexample.

| Run | The repository says | What happens |
|---|---|---|
| `doc_single_use` | consume() is "atomic w.r.t. the 'consumed' flag" (`approval_ledger.py:10-11`) | two threads pass the status test before either writes, both execute |
| `doc_zero_budgets` | "Engaging also zeroes every registered budget meter" (`kill_switch.py:19-21`) | `zero_all` does not exist; nothing is zeroed |
| `doc_error_row` | the outcome is recorded as COMPLETED or FAILED (`gateway.py:22`) | an exception whose text is empty is recorded and answered as ALLOW |
| `doc_outcome` | "Append-only audit of every outcome (denied / approved)" (`REVIEWER-SERVICE.md:20`) | a second refusal of one kind finds the row of the first under the same sequence number and leaves none |

More can be read off the models without a run of its own.

Concurrency and retries:

* An approval is bound to "... requester, reviewer, expiry"
  (`approval_ledger.py:4-5`), but `consume` never compares the requester.
* A hard cap "DENIES over-budget calls" (`token_budget.py:14`): two calls may pass
  preflight before either commits.
* "A completed key is never executed twice" (`gateway.py:20-21`): two overlapping
  calls of a tool that is not consequential share a key and both run.
* Who engaged the switch "cannot disengage it" (`kill_switch.py:13-14`): a second
  engagement overwrites the first, whose actor may then release.
* The two budgets have "identical semantics" (`budget_manager_ddb.py:9`) and add
  only "if the resulting total stays within the cap" (`:119`): the table lets a
  first reservation past the cap, having no item to compare with, and a lost
  response charges what it denies.
* A retry with the same key "returns the SAME ticket" (`CONNECTOR-PILOT.md:12`): a
  hit before the ticket is named returns the empty id, and one after the key's
  expiry makes another ticket.
* A saga whose key was a hit and whose notification then fails voids the ticket of
  the first execution.
* The operator who engaged the switch may release it when the two calls overlap:
  `disengage` compares the actors before it takes the flag down, and clears the name
  only after its audit call (`kill_switch.py:85-93`). `OwnReleaseNeedsAnOverlap` says
  that nothing else lets him, and in which of the two ways.
* An APPROVE may be answered 409, "replay rejected", to the very reviewer who gave
  it: the put of the ledger row is sent again when its response is lost, and meets its
  own row (`reviewer-service.yaml:206-215`). The gate then times out with the approval
  issued. In the same way a saga may take its own claim for another's and go on
  without a ticket (`connector-pilot.yaml:95-102`).
* `handler.py:233` consumes the approval although another clause will deny the
  call, as it does when the conditional update succeeds and the predicate then
  refuses for the lack of an entitlement.
* `Key` uses an approval id whenever the call carries one, also for a tool that is
  not consequential, where `gateway.py:148-150` says the request id is used.
* A negative token estimate leaves `call()` as an exception with no audit row,
  where `gateway.py:8-9` says that every attempt is written.

Manifests:

* The production validator, said to replace the checks of the loader
  (`manifest_validator.py:3-4`), accepts executable consequential tool ids and tool
  classes outside the manifest's classification; the offline one rejects both.
  `EnginesAgree` is therefore about manifests both accept.
* The offline validator accepts sections that are scalars, and raises an
  `AttributeError` when `metadata` is a scalar or null and there are tools. A tool
  id listed twice means its last entry.
* The delivery checklist asks for "`audit.object_lock_mode: COMPLIANCE`" and a
  "`signing.signature` present and non-empty"
  (`CUSTOMER-DELIVERY-CHECKLIST.md:13-14`), and the docstring of `delivery_check` for
  a signature where a signing block is declared. The code passes over a lock mode that
  is not set, and over an audit or signing section that is null, empty or no mapping
  (`manifest_validator.py:166-185`). `DeliveredIsClean` is about what it does look at.
* Cedar and the policy engine differ: the permit asks for the human's clearance for
  the tool's data class and for the purposes of the tool's registration, of which the
  engine knows nothing, and does not look at the scope or at the data classes of the
  call. So each may deny what the other allows. `EnginesAgree` says that these are the
  only differences, besides what Cedar leaves to the gateway (human gate, consent,
  residency, budget), and that the permit never reaches a withheld tool.
* A block list at the indentation of its own key is read as null and ends the
  parse. A quoted list item with a colon in it is parsed as a mapping, which is
  why `MCLibrary` has such a string only as a mapping's value. Flow collections
  within flow collections stay strings.
* A JSON file next to the YAML one is preferred even when it is older.
* A `signing` section that is not a mapping is not covered by the signature;
  `VerifiedMeansUntouched` is about the others.

Texts:

* Groups of digits next to each other merge into one card candidate, so a card
  next to another number may fail Luhn and stay. `MaskedAsMeant` is therefore about
  texts with a word between any two fragments, and `NoneIsLeft`, which is about all
  texts, leaves card numbers out.
* "[MRN-REDACTED]" matches the identifier's pattern again, so `contains_sensitive`
  stays true of a masked text. `NoneIsLeft` does not count a redaction as a record
  number.
* A grounding threshold of 0 makes every answer grounded.

## 4. Proofs

Eight modules hold theorems; all obligations are discharged by SMT, Zenon and the
temporal prover, with no assumption besides the named ones on constants.

### The gateway

Most of `GatewayProofs` assumes `ConsumeIsAtomic`, that is
`"checked" \notin Preemptible`; `doc_single_use` shows that the theorems fail
without it. They also use the named assumptions of the modules (caps are
positive, an empty approval id is not an id, and so on). There is no assumption
on the number of calls, approvals, agents, on manifests or on what calls carry.

* `LineageHolds`: `TypeOK /\ Lineage` is inductive. `SingleUse` alone is not:
  nothing in it stops two activations from both standing before the connector
  with one approval. `Lineage` adds what an activation past each point has behind
  it (`CallLineage`: a durable intent once anchored, the approval it holds once
  cleared), and ties each consumed approval back to the one activation that took
  it, its binding and its review (`ApprovalLineage`). There is a lemma per group
  of actions; the interesting ones are `CheckLineage`, where a refusal may mark a
  consumed approval expired, and `TakeLineage`, which needs atomicity so that the
  approval tested is still untaken (`NobodyElseChecked`).
* `TypesHold`, `SingleUseHolds`, `RunsUnderReviewHolds`,
  `AnchoredBeforeRunHolds` follow from it; the last is a part of `CallLineage`, which
  `gw_review` checks, and has no run of its own.
* `CompletedApprovalNeverRunsHolds` uses one more fact, `CompletedRan`: a
  completed key belongs to a call that ran. A second call under the key of a
  consequential one would hold the same approval, which has one taker.
* `RefusalIsTruthfulHolds` and `KeepsItsPromiseHolds`: the
  refinement. The mapping reads the anchor off the journal, the grant off
  `spender`, and what the caller is told off `answer`. `AnswerLineage` is the
  extra invariant: an activation has an answer exactly when it is over, and a
  durable intent belongs to one past the point that writes it. Each action maps
  to one step of `GovernedAction` or to a stutter: `AppendIntent` to `Anchor`,
  `TakeApproval` to `Spend`, `Execute` to `Run`, every return to `Tell`.
* `ReleasedByAnotherHolds` and `OnlyCaughtCallsRunHolds` (`ControlProofs`)
  need no atomicity: they hold for every `Preemptible`.
* `AlertsTrackSpendHolds` (`ControlProofs`) needs none either. It uses that
  thresholds are percentages from 1 to 100, as the manifest schema requires: with
  a threshold of 0 a new meter would have reached an alert it has not fired.
* `HardCapHoldsOneAtATime` and `CompletedKeyNeverRunsOneAtATime`
  (`ControlProofs`) have a hypothesis on the behaviour, `[]OneAtATime`: never two
  calls in flight, which is what `MaxInFlight = 1` gives in `gw_paths`. `HasRoom`
  (a call that was told there is budget still has it until it commits) and
  `IsFresh` (the key of a call past the look-up is not completed) are the
  invariants.
* `AnsweredOnTheRecordHolds` (`ControlProofs`) has no hypothesis. `Accountable`
  adds to the property that a call about to answer ALLOW has written that row, and
  `JournalGrows` that no step takes a row off the file.
* `DoneIsClosedHolds` (`ControlProofs`) is `CallsAreClosed` without its liveness, for
  any number of calls: when a call is over, its intent is closed or its caller knows.
  An intent on the file is of a call past the step that writes it
  (`IntentsAreAnchored`), and every way to end after that step closes it.
* `UsageMatchesMeterHolds` (`ControlProofs`) is about the registrations made at
  the start (`Reregister = FALSE`), as the run `gw_review` is: registering an agent
  again gives it a new meter and keeps its bill. `Booked` says that only calls that
  were started are on a meter, so the sum is over a finite set although `Calls` need
  not be finite, and each commit adds one call to the sum (`SumAdds`).

* `CallsAdvanceHolds` (`ControlProofs`) is the variant behind `CallsAreClosed`:
  `StepsLeft` of a call, at most thirteen, decreases in every step fairness is asked
  for and in no step increases. What is left to TLC is that a call in flight can always
  take a step.

### Sums (`FiniteSums`)

`FoldFunctionOnSet` of the community modules picks the members of a set in an
order nobody knows, and the induction theorems of the library take an operator as
a parameter. `FiniteSums` states induction on a set instead (`NatSetInduction`,
`FinSetInduction`: a set that has the first and with each the next has all), which
follows from the least element of what is missing. `FoldExists` gives the fold its
values, `SumUnfolds` its recursion, and `SumTypeAndSplit` that any member may be
taken out, by induction on the cardinality. What the other proofs cite is
`SumType`, `SumAdds`, `SumOfUnion`, `SumOfPairs`, `SumOfGroups` (what is grouped by
a key adds up to what there is), `SumOfOnes` and `SumIsSmall`.

### The hosted path (`HostedProofs`)

For any number of requests, reviewers and calls, any lifetimes, any cast, and
deaths anywhere. The assumption is `ServiceAssumption`: lifetimes are natural
numbers, and an event names a request or none.

* `HostedInvHolds`: `HostedTypeOK /\ HostedLineage` is inductive. `AttemptLineage`
  says what an invocation past each point has behind it: one that may issue is a
  supervisor's other than the requester, one that is recording or further has issued,
  one told that it is a replay has a decision on its request, its own if the response
  to its put was lost, and one that released has opened the gate and is the only one
  to have done so for its request. `RequestLineage` gives every ledger row and every
  opened gate a decision, also after the row was swept and issued again. `CallLineage`
  gives a call that took an approval the decision and the binding behind it.
  `PilotAsks` is the lemma on the predicate: without an approval it allows no
  consequential tool and asks for one only for those; it needs that the first-failing
  clause exists and is a failing one (`SomeClauseIsFirst`).
* `RunsWereReviewedHolds`, `RecordedBeforeRunHolds`, `ApprovedMeansReleasedHolds`
  follow.
* `KeepsTheGrantPromiseHolds`: the refinement. `Issue` maps to `Make` (one more
  decision, counted by cardinality), `Release` to `Open`, `Sweep` to `Lapse`,
  `ConsumeApproval` when the update takes effect to `Take`, whether or not its
  response arrives, `Execute` to `Run`; every other step changes nothing the promise
  sees.
* `HostedAdvancesHolds`: the variants behind `WorkflowsEnd`. Executions, reviews and
  calls go one way, also where a review opens the gate of an execution, and however
  often a ledger row is swept and issued again.

### The saga and the cloud controls

* `SagaProofs`: `SagaInv` traces a ticket to the execution that put it, and counts
  the executions that hold a claim of a key or put a ticket under one
  (`ClaimsCovered`). The claim's conditional put lets at most one in and is counted, and no
  other step does; `OneTicketPerClaimHolds` follows because a ticket's creator is a
  claimant. `NamedTicketsExistHolds` and `RollbackIsCompleteHolds` come from the
  order put, name, confirm. `FailureIsNotDroppedHolds` is `FailureIsCompensated`
  without its liveness: an execution that ends after a failed notification ends rolled
  back, unless its compensation died. `ExecutionsAdvanceHolds` is its variant: no
  state of the saga is entered twice.
* `CloudProofs`: the cache holds a value read at an instant at which the parameter
  had it, or "engaged", which gives `SwitchHoldsWithinTtlHolds` for any number of
  containers and any lifetime. `AnsweredByItsRowHolds` needs that an answered
  request wrote its row and no put overwrites one. `OnlyTheFirstMayPassTheCapHolds`
  needs that whatever is in the item above the cap was put there at once by the
  update that made it. `AllowedIsChargedHolds` adds up what was applied: an update is
  in the item's total before its caller can be told that it is allowed.

### The offline stores (`ThreadProofs`)

For any number of threads, each overlapping with any other between any two
statements. `ThreadInv` has a part per store.

* `OwnReleaseNeedsAnOverlapHolds` is an action property of the switch. `Meetings` says
  which pairs of an engagement and a release have met: those under way at once, and each
  engagement that raised the flag after a release took it down and before it ended.
  `LastNamed` says that the recorded engager is the one who named himself last, unless
  a release that met him has cleared it, and that a release past its test with that
  very actor has met him too. `TakeDownMet` reads the property off both.
* `ReplayNeedsALateApproveHolds` is an action property: once a consumer has used the
  approval its status is `consumed`, unless an `approve` that tested it before wrote
  over it and so is in `reopened`.
* `ReturnedIsKeptHolds`: records, frozen hashes and lines only grow, an edit changes
  the body of a record in its place, and `KeptFor` says how far a writer has got.
* `VerifyIsTruthfulHolds`: `InOrder`, as long as no appends have overlapped and nothing
  was edited, says that each record's `seq` is its place less one and its `prev` the hash
  before it (`Linked`), and that the frozen hashes are those of the records in order. `EditsShow`
  says that no frozen hash is of an edited record; that needs `Edited \notin Writers`
  (`LedgerAssumption`), an edit that changes nothing being none.
* `SealCoversItsRecordsHolds`: the head is read after the snapshot, from a ledger
  that has grown at most (`ExportLineage`).

Hashes are nested tuples and the set of them is not one the provers can be told of,
so `LedgerTypes` says that the types are over some set `H`, which a step may widen.

### The rulings (`RulingProofs`)

`RulingSpec` is `Library` without the loader. Each question is answered once, so the
invariant `RulingInv` says that the answer is what the code computes, and each
theorem is then about the functions, for every value of the constants: manifests
with any tools, contexts, signatures, prompts, usage, trees, texts of any length.
`RulingsAssumption` bounds them by what the code is given: lists are finite, texts
have finitely many words, a threshold is between 0 and 0.99 as the schema says
(`agent-manifest.schema.json:159-164`), a publisher is not the mark that stands for a
missing section, usage is counted in integers, texts are as people write them
(`IsAsWritten`, section 2).
`DeliveriesAssumption` says of the cases of `delivery_check` that they are described
correctly (what is put into the tree has the retention, the signature and the
placeholder the case says, or is hollow where the case says so, and goes into a tree
that can be delivered) and that a tree is no deeper than `MaxNesting`.

* `EnginesAgreeHolds` unfolds the permit into its four conditions and the nine
  clauses into theirs, for any registration of the tool and any clearance of the human;
  that no accepted manifest grants a withheld tool is
  `AcceptedManifest`. A tool listed twice is handled by `MaxIsAMember`.
* `VerifiedMeansUntouchedHolds` reduces to when canonical bytes are equal.
* `GroundedMeansSourcedHolds` is arithmetic on the rounding (`RoundedShare`: a share
  that rounds to a threshold is at most half a hundredth below it) and finiteness of
  what a model answers.
* `ReportsAddUpHolds` groups the events by tag (`RowsAddUp`, from `SumOfGroups`), and
  bounds what printing line by line loses by a third of a unit a line (`LinesRound`).

* `NoneIsLeftHolds` is about what one pass leaves and what all of them together do.
  `ScanExists` gives the recursive function of a pass its values, by induction from the
  end of the text. A *trace* (`PassTraced`) then ties each token of the output to the
  token it was or to the redaction of a match, and says that what is next to it stood
  next to it before, unless a redaction lies between. A match in the output carries back
  along the trace (`MatchCarries`, one lemma per shape of pattern) to a match in the
  input that the pass would have taken (`NothingAppears`), so a pass leaves none of its
  own (`ThenCleans`) and no later pass makes one (`HarborCleans`); the NER pass only
  hides words (`NamesHideNothing`). Candidates for a card are the exception named above.
* `DeliveredIsCleanHolds`: the nodes at depth d are those that d steps down from value
  to value reach (`LevelsAreAWalk`), so the strings of a tree are those of its values
  (`StringsOfContents`), a key that is assigned adds its value and may hide an old one
  (`PutContents`, `PutIsRead`), and a placeholder is in the tree exactly when it is in
  what was put there (`PutIsDelivered`).
* `LuhnNoticesADigit`: doubling and reducing is one-to-one on the digits, so one other
  digit changes the sum by less than ten and not by nothing (from `SumAdds`, `SumOfSame`).

### Only model-checked

`CallsAreClosed`, `WorkflowsEnd` and `FailureIsCompensated` are liveness, which needs
ENABLED and is beyond the prover. Proved of them is that every step is one nearer the
end and that what ends, ends well (`DoneIsClosedHolds`, `FailureIsNotDroppedHolds`);
that there is always a next step is only checked.

`ParsedAsWritten` compares a recursive parser with a recursive writer, for which the
prover has no backend; it is why `Library` is a module apart from `Rulings`.
`MaskedAsMeant` says exactly what becomes of each fragment, how many there were, and that
a card number in groups is found; that is an induction on a text put together from a list,
and the particular digits of the fragments. `NoneIsLeftHolds` and `LuhnNoticesADigit`
are the parts of it that hold of all texts.

## 5. Not modelled

Not modelled, for good:

* CDK and CloudFormation resource declarations, deployment scripts, evidence and
  report tools, demos and data packs. They have no state of the running system, or
  are sequential batch programs over files. The inline handler of
  `governance-core.yaml` is the one of `FrontDoor` without the kill switch.
* The adapter Lambda in front of the reviewer (`reviewer-api.yaml`): it turns
  verified claims into the event, and its results are the set of events.
* Token minting, result payloads, `AuditLedger.try_mutate` (it raises and changes
  nothing), the texts of reasons and errors.

Partly modelled: the masker (character classes outside its tokens), the model
gateway (token estimates, two schema types). Both could only be completed by
spelling texts out.
