---------------------------- MODULE GatewayProofs ----------------------------
(***************************************************************************)
(* What is proved of Gateway for every value of its constants for which    *)
(* consume() is atomic: what an activation has behind it, and, at the end, *)
(* that the gateway implements GovernedAction.                             *)
(***************************************************************************)
EXTENDS GatewayProperties, TLAPS

\* The predicate answers with an effect the gateway knows.
LEMMA VerdictIsAnEffect ==
  ASSUME NEW c \in Calls, Sent[c].agent \in Agents,
         NEW r \in [budget : BOOLEAN, approval : BOOLEAN]
  PROVE  Verdict[c][r] \in {"ALLOW", "DENY", "APPROVAL_REQUIRED"}
<1>1. Verdict[c][r] = Evaluate(Context(c, r), Manifests[Sent[c].agent]).effect
  BY DEF Verdict
<1>2. Evaluate(Context(c, r), Manifests[Sent[c].agent]).effect
        \in {"ALLOW", "DENY", "APPROVAL_REQUIRED"}
  BY DEF Evaluate
<1> QED
  BY <1>1, <1>2

\* Every variable starts in its domain.
LEMMA InitTypeOK == Init => TypeOK
<1> SUFFICES ASSUME Init PROVE TypeOK
  OBVIOUS
<1>1. LedgerTypeOK
  BY DEF Init, LedgerInit, LedgerTypeOK, Stored, Statuses
<1>2. BudgetTypeOK
  BY DEF Init, BudgetInit, BudgetTypeOK
<1>3. SwitchTypeOK
  <2>1. history = <<>>
    BY DEF Init, SwitchInit
  <2>2. engaged \in BOOLEAN /\ engagedBy \in Operators \cup {NoOperator}
    BY DEF Init, SwitchInit
  <2> QED
    BY <2>1, <2>2 DEF SwitchTypeOK
<1>4. AuditTypeOK
  BY DEF Init, AuditInit, AuditTypeOK
<1>5. CallTypeOK
  BY DEF Init, CallTypeOK, Points, Outcomes, Effects, Reasons
<1> QED
  BY <1>1, <1>2, <1>3, <1>4, <1>5 DEF TypeOK

LEMMA InitLineage == Init => Lineage
  BY DEF Init, Lineage, CallLineage, ApprovalLineage, LedgerInit, Registered,
         Metered, Anchored, Entitled, After, Ran

-----------------------------------------------------------------------------
\* One record of a table of records is updated in one field.
LEMMA SeenUpdate ==
  ASSUME CallTypeOK, NEW c \in Calls, NEW b \in BOOLEAN
  PROVE  /\ [seen EXCEPT ![c].budget = b] \in [Calls -> [budget : BOOLEAN, approval : BOOLEAN]]
         /\ [seen EXCEPT ![c].approval = b] \in [Calls -> [budget : BOOLEAN, approval : BOOLEAN]]
  BY DEF CallTypeOK

LEMMA GotoType ==
  ASSUME CallTypeOK, NEW c \in Calls, NEW point \in Points, Goto(c, point)
  PROVE  pc' \in [Calls -> Points]
  BY DEF CallTypeOK, Goto

LEMMA ReturnType ==
  ASSUME CallTypeOK, NEW c \in Calls, NEW effect \in Effects, NEW reason \in Reasons,
         Return(c, effect, reason)
  PROVE  /\ pc' \in [Calls -> Points]
         /\ answer' \in [Calls -> [effect : Effects, reason : Reasons]]
  BY DEF CallTypeOK, Return, Goto, Points

LEMMA AppendType ==
  ASSUME AuditTypeOK, NEW c \in Calls, NEW decision \in Decisions,
         Appends(Row(c, decision)) \/ AppendRaises(Row(c, decision))
  PROVE  AuditTypeOK' /\ journal \subseteq journal'
  BY DEF AuditTypeOK, Rows, Row, Appends, AppendRaises

LEMMA RefuseType ==
  ASSUME AuditTypeOK, CallTypeOK, NEW c \in Calls, NEW decision \in Decisions,
         NEW effect \in Effects, NEW reason \in Reasons,
         Refuse(c, decision, effect, reason)
  PROVE  /\ AuditTypeOK' /\ journal \subseteq journal'
         /\ pc' = [pc EXCEPT ![c] = "done"]
         /\ pc' \in [Calls -> Points]
         /\ answer' \in [Calls -> [effect : Effects, reason : Reasons]]
<1>1. "RAISED" \in Effects
  BY DEF Effects
<1> QED
  BY <1>1, AppendType, ReturnType DEF Refuse, Return, Goto

\* What an action leaves alone keeps its type.
LEMMA SharedFrame ==
  ASSUME TypeOK, UNCHANGED <<ledgerVars, budgetVars, switchVars>>
  PROVE  LedgerTypeOK' /\ BudgetTypeOK' /\ SwitchTypeOK'
  BY DEF TypeOK, ledgerVars, budgetVars, switchVars, LedgerTypeOK, BudgetTypeOK,
         SwitchTypeOK

LEMMA CallFrame ==
  ASSUME CallTypeOK, pc' \in [Calls -> Points],
         answer' \in [Calls -> [effect : Effects, reason : Reasons]],
         UNCHANGED <<seen, outcome, completed, usage, spender, caught>>
  PROVE  CallTypeOK'
  BY DEF CallTypeOK

\* The actions that either go on to the next point or answer the caller.
LEMMA GuardTypeOK ==
  ASSUME TypeOK, Lineage, NEW c \in Calls,
         \/ Receive(c) \/ Deduplicate(c) \/ Authorize(c) \/ PolicyFault(c)
         \/ AppendIntent(c)
  PROVE  TypeOK'
<1> USE DEF TypeOK
<1>1. LedgerTypeOK' /\ BudgetTypeOK' /\ SwitchTypeOK'
  BY SharedFrame DEF Receive, Deduplicate, Authorize, PolicyFault, AppendIntent
<1> DEFINE Typed == /\ AuditTypeOK'
                    /\ pc' \in [Calls -> Points]
                    /\ answer' \in [Calls -> [effect : Effects, reason : Reasons]]
<1>2. ASSUME NEW point \in Points, Goto(c, point), UNCHANGED <<answer, auditVars>>
      PROVE  Typed
  BY <1>2, GotoType DEF CallTypeOK, AuditTypeOK, auditVars
<1>3. ASSUME NEW decision \in Decisions, NEW effect \in Effects, NEW reason \in Reasons,
             \/ Refuse(c, decision, effect, reason)
             \/ /\ Appends(Row(c, decision)) \/ AppendRaises(Row(c, decision))
                /\ Return(c, effect, reason)
      PROVE  Typed
  BY <1>3, RefuseType, AppendType, ReturnType
<1>4. Typed
  <2>1. CASE Receive(c)
    BY <1>2, <1>3, <2>1 DEF Receive, Points, Decisions, Effects, Reasons
  <2>2. CASE Deduplicate(c)
    BY <1>2, <1>3, <2>2 DEF Deduplicate, Points, Decisions, Effects, Reasons
  <2>3. CASE Authorize(c)
    <3>1. Verdict[c][seen[c]] \in {"ALLOW", "DENY", "APPROVAL_REQUIRED"}
      BY <2>3, VerdictIsAnEffect
      DEF Authorize, At, Lineage, CallLineage, Registered, CallTypeOK
    <3> QED
      BY <1>2, <1>3, <2>3, <3>1 DEF Authorize, Points, Decisions, Effects, Reasons
  <2>4. CASE PolicyFault(c)
    BY <1>3, <2>4 DEF PolicyFault, Decisions, Effects, Reasons
  <2>5. CASE AppendIntent(c)
    <3>1. AuditTypeOK'
      BY <2>5, AppendType DEF AppendIntent, Decisions
    <3>2. CASE Goto(c, IF IsConsequential(c) THEN "anchored" ELSE "cleared")
               /\ UNCHANGED answer
      BY <3>1, <3>2 DEF Goto, Points, CallTypeOK
    <3>3. CASE Return(c, "DENY", "intent_not_durable")
      BY <3>1, <3>3, ReturnType DEF Effects, Reasons
    <3> QED
      BY <2>5, <3>2, <3>3 DEF AppendIntent
  <2> QED
    BY <2>1, <2>2, <2>3, <2>4, <2>5
<1>5. CallTypeOK'
  BY <1>4, CallFrame DEF Receive, Deduplicate, Authorize, PolicyFault, AppendIntent
<1> QED
  BY <1>1, <1>4, <1>5

\* The actions that read the meter or the ledger.
LEMMA ReadingTypeOK ==
  ASSUME TypeOK, NEW c \in Calls, PreflightBudget(c) \/ PeekApproval(c)
  PROVE  TypeOK'
<1> USE DEF TypeOK
<1>1. LedgerTypeOK' /\ BudgetTypeOK' /\ SwitchTypeOK' /\ AuditTypeOK'
  BY SharedFrame DEF PreflightBudget, PeekApproval, auditVars, AuditTypeOK
<1>2. CASE PreflightBudget(c)
  <2> DEFINE b == PreflightAllows(Sent[c].agent, Sent[c].tokens)
  <2>1. b \in BOOLEAN
    BY DEF PreflightAllows
  <2>2. CASE Return(c, "RAISED", "negative_tokens") /\ UNCHANGED seen
    BY <1>1, <1>2, <2>2, ReturnType DEF PreflightBudget, CallTypeOK, Effects, Reasons
  <2>3. CASE seen' = [seen EXCEPT ![c].budget = b] /\ Goto(c, "metered") /\ UNCHANGED answer
    <3>1. seen' \in [Calls -> [budget : BOOLEAN, approval : BOOLEAN]]
      BY <2>1, <2>3, SeenUpdate
    <3> QED
      BY <1>1, <1>2, <2>3, <3>1, GotoType DEF PreflightBudget, CallTypeOK, Points
  <2> QED
    BY <1>2, <2>2, <2>3 DEF PreflightBudget
<1>3. CASE PeekApproval(c)
  <2> DEFINE id == Sent[c].approval
             b  == /\ Known(id)
                   /\ approvals[id].status = "approved"
                   /\ ~IsExpired(id)
                   /\ Asked[id].agent = Sent[c].agent
                   /\ Asked[id].tool = Sent[c].tool
  <2>1. b \in BOOLEAN
    OBVIOUS
  <2>2. seen' = [seen EXCEPT ![c].approval = b]
    BY <1>3 DEF PeekApproval
  <2>3. seen' \in [Calls -> [budget : BOOLEAN, approval : BOOLEAN]]
    <3> HIDE DEF b
    <3> QED
      BY <2>1, <2>2, SeenUpdate
  <2> QED
    BY <1>1, <1>3, <2>3, GotoType DEF PeekApproval, CallTypeOK, Points
<1> QED
  BY <1>2, <1>3

\* consume(), in its two steps.
LEMMA ConsumeTypeOK ==
  ASSUME TypeOK, Lineage, NEW c \in Calls, CheckApproval(c) \/ TakeApproval(c)
  PROVE  TypeOK'
<1> USE DEF TypeOK
<1>1. BudgetTypeOK' /\ SwitchTypeOK'
  BY DEF CheckApproval, TakeApproval, budgetVars, switchVars, BudgetTypeOK, SwitchTypeOK
<1> DEFINE id == Sent[c].approval
<1>2. CASE CheckApproval(c)
  <2>1. LedgerTypeOK'
    BY <1>2 DEF CheckApproval, LedgerTypeOK, AfterRefusal, Stored, Statuses
  <2>2. /\ AuditTypeOK'
        /\ pc' \in [Calls -> Points]
        /\ answer' \in [Calls -> [effect : Effects, reason : Reasons]]
    <3>1. CASE Goto(c, "checked") /\ UNCHANGED <<answer, auditVars>>
      BY <3>1, GotoType DEF Points, CallTypeOK, AuditTypeOK, auditVars
    <3>2. CASE Refuse(c, "DENY", "DENY", "approval_consume_failed")
      BY <3>2, RefuseType DEF Decisions, Effects, Reasons
    <3> QED
      BY <1>2, <3>1, <3>2 DEF CheckApproval
  <2>3. CallTypeOK'
    BY <1>2, <2>2, CallFrame DEF CheckApproval
  <2> QED
    BY <1>1, <2>1, <2>2, <2>3
<1>3. CASE TakeApproval(c)
  <2>1. id \in Approvals
    BY <1>3 DEF TakeApproval, At, Lineage, CallLineage
  <2>2. LedgerTypeOK'
    BY <1>3, <2>1 DEF TakeApproval, LedgerTypeOK, Stored, Statuses
  <2>3. AuditTypeOK'
    BY <1>3 DEF TakeApproval, auditVars, AuditTypeOK
  <2>4. CallTypeOK'
    BY <1>3, <2>1, GotoType DEF TakeApproval, CallTypeOK, Points
  <2> QED
    BY <1>1, <2>2, <2>3, <2>4
<1> QED
  BY <1>2, <1>3

\* The connector, the spend and the closing row.
LEMMA EffectTypeOK ==
  ASSUME TypeOK, Lineage, NEW c \in Calls,
         \/ Execute(c) \/ CommitTokens(c) \/ RecordUsage(c)
         \/ AppendCompletion(c) \/ Complete(c)
  PROVE  TypeOK'
<1> USE DEF TypeOK
<1>1. LedgerTypeOK' /\ SwitchTypeOK'
  BY DEF Execute, CommitTokens, RecordUsage, AppendCompletion, Complete, ledgerVars,
         switchVars, LedgerTypeOK, SwitchTypeOK
<1>2. CASE Execute(c) \/ RecordUsage(c)
  <2>1. BudgetTypeOK' /\ AuditTypeOK'
    BY <1>2 DEF Execute, RecordUsage, budgetVars, auditVars, BudgetTypeOK, AuditTypeOK
  <2>2. CallTypeOK'
    BY <1>2, GatewayAssumption, GotoType
    DEF Execute, RecordUsage, CallTypeOK, Points, Outcomes, GatewayAssumption
  <2> QED
    BY <1>1, <2>1, <2>2
<1>3. CASE CommitTokens(c)
  <2>1. Sent[c].agent \in Agents /\ Sent[c].tokens \in Nat
    BY <1>3, GatewayAssumption
    DEF CommitTokens, At, Lineage, CallLineage, Registered, Metered, Anchored,
        Entitled, After, GatewayAssumption
  <2>2. BudgetTypeOK'
    BY <1>3, <2>1 DEF CommitTokens, CommitSpend, BudgetTypeOK, Reached
  <2>3. AuditTypeOK' /\ CallTypeOK'
    BY <1>3, GotoType DEF CommitTokens, auditVars, AuditTypeOK, CallTypeOK, Points
  <2> QED
    BY <1>1, <2>2, <2>3
<1>4. CASE AppendCompletion(c) \/ Complete(c)
  <2>1. BudgetTypeOK'
    BY <1>4 DEF AppendCompletion, Complete, budgetVars, BudgetTypeOK
  <2>2. AuditTypeOK'
    BY <1>4, AppendType DEF AppendCompletion, Complete, Decisions, auditVars, AuditTypeOK
  <2>3. /\ pc' \in [Calls -> Points]
        /\ answer' \in [Calls -> [effect : Effects, reason : Reasons]]
    BY <1>4, ReturnType, GotoType
    DEF AppendCompletion, Complete, CallTypeOK, Points, Effects, Reasons
  <2>4. completed' \subseteq {Key(d) : d \in Calls}
    BY <1>4 DEF AppendCompletion, Complete, CallTypeOK
  <2>5. CallTypeOK'
    BY <1>4, <2>3, <2>4 DEF AppendCompletion, Complete, CallTypeOK, Key
  <2> QED
    BY <1>1, <2>1, <2>2, <2>5
<1> QED
  BY <1>2, <1>3, <1>4

\* Reviewers, operators, time and administrators.
LEMMA EnvironmentTypeOK ==
  ASSUME TypeOK, Review \/ Contain \/ (\E a \in Agents : RegisterAgent(a))
  PROVE  TypeOK'
<1> USE DEF TypeOK
<1>1. CASE Review
  <2>1. LedgerTypeOK'
    <3>1. ASSUME NEW id \in Approvals, RequestApproval(id) PROVE LedgerTypeOK'
      <4> DEFINE expiry == IF Asked[id].ttl = 0 THEN 0 ELSE clock + Asked[id].ttl
      <4>1. expiry \in Nat
        BY ApprovalAssumption DEF ApprovalAssumption, LedgerTypeOK
      <4>2. approvals' = [approvals EXCEPT ![id].status = "pending", ![id].expires_at = expiry]
            /\ clock' = clock
        BY <3>1 DEF RequestApproval
      <4> HIDE DEF expiry
      <4> QED
        BY <4>1, <4>2 DEF LedgerTypeOK, Stored, Statuses
    <3>2. ASSUME NEW id \in Approvals, NEW reviewer \in People, Approve(id, reviewer)
          PROVE  LedgerTypeOK'
      BY <3>2 DEF Approve, LedgerTypeOK, Stored, Statuses
    <3>3. ASSUME NEW id \in Approvals, ApproveTooLate(id) PROVE LedgerTypeOK'
      BY <3>3 DEF ApproveTooLate, LedgerTypeOK, Stored, Statuses
    <3>4. CASE Tick
      BY <3>4 DEF Tick, LedgerTypeOK
    <3> QED
      BY <1>1, <3>1, <3>2, <3>3, <3>4 DEF Review, LedgerStep
  <2> QED
    BY <1>1, <2>1
    DEF Review, budgetVars, switchVars, auditVars, callVars, BudgetTypeOK,
        SwitchTypeOK, AuditTypeOK, CallTypeOK
<1>2. CASE Contain
  <2>1. SwitchTypeOK'
    <3>1. ASSUME NEW actor \in Operators, NEW action \in {"ENGAGE", "DISENGAGE"},
                 Log(action, actor)
          PROVE  history' \in Seq(Change)
      <4>1. [action |-> action, actor |-> actor] \in Change
        BY DEF Change
      <4> QED
        BY <3>1, <4>1 DEF Log, SwitchTypeOK
    <3>2. PICK actor \in Operators : Engage(actor) \/ Disengage(actor)
      BY <1>2 DEF Contain
    <3>3. history' \in Seq(Change)
      BY <3>1, <3>2 DEF Engage, Disengage
    <3> QED
      BY <3>2, <3>3 DEF Engage, Disengage, SwitchTypeOK
  <2>2. caught' \subseteq Calls
    BY <1>2 DEF Contain, InFlight, CallTypeOK
  <2> QED
    BY <1>2, <2>1, <2>2
    DEF Contain, ledgerVars, budgetVars, auditVars, LedgerTypeOK, BudgetTypeOK,
        AuditTypeOK, CallTypeOK
<1>3. CASE \E a \in Agents : RegisterAgent(a)
  <2>1. BudgetTypeOK'
    BY <1>3 DEF RegisterAgent, RegisterMeter, BudgetTypeOK
  <2> QED
    BY <1>3, <2>1
    DEF RegisterAgent, ledgerVars, switchVars, auditVars, callVars, LedgerTypeOK,
        SwitchTypeOK, AuditTypeOK, CallTypeOK
<1> QED
  BY <1>1, <1>2, <1>3

-----------------------------------------------------------------------------
\* Nobody else is inside consume() when a step is taken.
LEMMA NobodyElseChecked ==
  ASSUME ConsumeIsAtomic, TypeOK, NEW S, OthersYield(S), NEW d \in Calls \ S
  PROVE  pc[d] # "checked"
  BY DEF ConsumeIsAtomic, OthersYield, InFlight

\* A step of c that touches no approval keeps the lineage if it keeps c's own.
LEMMA QuietStep ==
  ASSUME TypeOK, Lineage, NEW c \in Calls, NEW point \in Points,
         pc' = [pc EXCEPT ![c] = point], journal \subseteq journal',
         UNCHANGED <<approvals, outcome, spender>>,
         pc[c] \in Entitled => point \in Entitled \/ c \in Ran,
         CallLineage(c)'
  PROVE  Lineage'
<1>1. ASSUME NEW d \in Calls PROVE CallLineage(d)'
  <2>1. CASE d # c
    <3>1. pc'[d] = pc[d] /\ Ran' = Ran
      BY <2>1 DEF TypeOK, CallTypeOK, Ran
    <3> QED
      BY <3>1 DEF Lineage, CallLineage, TypeOK, CallTypeOK
  <2> QED
    BY <2>1
<1>2. ASSUME NEW id \in Approvals PROVE ApprovalLineage(id)'
  BY DEF Lineage, ApprovalLineage, Reviewed, TypeOK, CallTypeOK, Ran
<1> QED
  BY <1>1, <1>2 DEF Lineage

\* Refusing a call that holds no approval, or answering one that ran.
LEMMA AnswerStep ==
  ASSUME TypeOK, Lineage, NEW c \in Calls,
         pc' = [pc EXCEPT ![c] = "done"], journal \subseteq journal',
         UNCHANGED <<approvals, outcome, spender>>, pc[c] \notin {"cleared"}
  PROVE  Lineage'
<1>1. pc'[c] = "done"
  BY DEF TypeOK, CallTypeOK
<1>2. CallLineage(c)'
  BY <1>1 DEF Lineage, CallLineage, Ran, Registered, Metered, Anchored, Entitled, After
<1>3. pc[c] \in Entitled => c \in Ran
  BY DEF Lineage, CallLineage, Entitled, After
<1> QED
  BY <1>2, <1>3, QuietStep DEF Points

LEMMA GuardLineage ==
  ASSUME TypeOK, Lineage, NEW c \in Calls,
         \/ Receive(c) \/ Deduplicate(c) \/ PreflightBudget(c) \/ PeekApproval(c)
         \/ Authorize(c) \/ PolicyFault(c) \/ AppendIntent(c)
  PROVE  Lineage'
<1>1. UNCHANGED <<approvals, outcome, spender>>
  BY DEF Receive, Deduplicate, PreflightBudget, PeekApproval, Authorize, PolicyFault,
         AppendIntent, ledgerVars
<1>2. journal \subseteq journal'
  BY DEF Receive, Deduplicate, PreflightBudget, PeekApproval, Authorize, PolicyFault,
         AppendIntent, Refuse, Appends, AppendRaises, auditVars
<1>3. pc[c] \in {"idle", "masked", "fresh", "metered", "peeked", "authorized"}
  BY DEF Receive, Deduplicate, PreflightBudget, PeekApproval, Authorize, PolicyFault,
         AppendIntent, At
<1>4. CASE pc' = [pc EXCEPT ![c] = "done"]
  BY <1>1, <1>2, <1>3, <1>4, AnswerStep
<1>5. ASSUME NEW point \in Points \ {"done"}, Goto(c, point),
             point \in Registered \ (Entitled \cup {"anchored", "checked"}),
             Sent[c].agent \in Agents,
             point \in Metered => Sent[c].tokens >= 0
      PROVE  Lineage'
  <2>1. pc' = [pc EXCEPT ![c] = point] /\ pc'[c] = point
    BY <1>5 DEF Goto, TypeOK, CallTypeOK
  <2>2. CallLineage(c)'
    BY <1>1, <1>2, <1>3, <1>5, <2>1
    DEF Lineage, CallLineage, Ran, Registered, Metered, Anchored, Entitled, After
  <2> QED
    BY <1>1, <1>2, <1>3, <2>1, <2>2, QuietStep DEF Entitled
<1>6. CASE Receive(c)
  BY <1>4, <1>5, <1>6
  DEF Receive, Refuse, Return, Goto, Points, Registered, Metered, Entitled
<1>7. CASE Deduplicate(c)
  BY <1>4, <1>5, <1>7
  DEF Deduplicate, Return, Goto, At, Points, Registered, Metered, Entitled, Lineage,
      CallLineage
<1>8. CASE PreflightBudget(c)
  BY <1>4, <1>5, <1>8
  DEF PreflightBudget, Return, Goto, At, Points, Registered, Metered, Entitled,
      Lineage, CallLineage
<1>9. CASE PeekApproval(c)
  BY <1>5, <1>9
  DEF PeekApproval, At, Points, Registered, Metered, Entitled, Lineage, CallLineage
<1>10. CASE Authorize(c)
  BY <1>4, <1>5, <1>10
  DEF Authorize, Refuse, Return, Goto, At, Points, Registered, Metered, Entitled,
      Lineage, CallLineage
<1>11. CASE PolicyFault(c)
  BY <1>4, <1>11 DEF PolicyFault, Refuse, Return, Goto
<1>12. CASE AppendIntent(c)
  <2>1. CASE Return(c, "DENY", "intent_not_durable")
    BY <1>4, <2>1 DEF Return, Goto
  <2>2. CASE /\ Appends(Row(c, "INTENT"))
             /\ Goto(c, IF IsConsequential(c) THEN "anchored" ELSE "cleared")
    <3> DEFINE point == IF IsConsequential(c) THEN "anchored" ELSE "cleared"
    <3>1. pc' = [pc EXCEPT ![c] = point] /\ pc'[c] = point /\ point \in Points
      BY <2>2 DEF Goto, TypeOK, CallTypeOK, Points
    <3>2. Row(c, "INTENT") \in journal'
      BY <2>2 DEF Appends
    <3>3. CallLineage(c)'
      BY <1>1, <1>3, <1>12, <3>1, <3>2
      DEF AppendIntent, At, Lineage, CallLineage, Ran, Registered, Metered, Anchored,
          Entitled, After
    <3> HIDE DEF point
    <3> QED
      BY <1>1, <1>2, <1>3, <3>1, <3>3, QuietStep DEF Entitled
  <2> QED
    BY <1>12, <2>1, <2>2 DEF AppendIntent
<1> QED
  BY <1>6, <1>7, <1>8, <1>9, <1>10, <1>11, <1>12

\* A step that marks an approval expired, nobody being about to take it.
LEMMA ExpiryStep ==
  ASSUME TypeOK, Lineage, NEW id \in Approvals,
         approvals' = [approvals EXCEPT ![id].status = "expired"],
         UNCHANGED <<pc, outcome, spender, journal>>,
         \A d \in Calls : pc[d] # "checked"
  PROVE  Lineage'
<1>1. ASSUME NEW d \in Calls PROVE CallLineage(d)'
  BY DEF Lineage, CallLineage, Ran
<1>2. ASSUME NEW a \in Approvals PROVE ApprovalLineage(a)'
  BY DEF Lineage, ApprovalLineage, Reviewed, TypeOK, LedgerTypeOK, Stored, Ran
<1> QED
  BY <1>1, <1>2 DEF Lineage

\* The test of consume(): the approval has a reviewer and is bound to the call.
LEMMA CheckLineage ==
  ASSUME ConsumeIsAtomic, TypeOK, Lineage, NEW c \in Calls, CheckApproval(c)
  PROVE  Lineage'
<1> DEFINE id == Sent[c].approval
<1>1. pc[c] = "anchored" /\ OthersYield({c}) /\ UNCHANGED <<outcome, spender>>
  BY DEF CheckApproval, At
<1>2. \A d \in Calls : pc[d] # "checked"
  BY <1>1, NobodyElseChecked
<1>3. CASE Consumable(id, Sent[c]) /\ Goto(c, "checked") /\ UNCHANGED <<approvals, auditVars>>
  <2>1. pc' = [pc EXCEPT ![c] = "checked"] /\ pc'[c] = "checked" /\ journal' = journal
    BY <1>3 DEF Goto, TypeOK, CallTypeOK, auditVars
  <2>2. CallLineage(c)'
    BY <1>1, <1>3, <2>1
    DEF Consumable, Known, Lineage, CallLineage, Ran, Registered, Metered, Anchored,
        Entitled, After
  <2> QED
    BY <1>1, <1>3, <2>1, <2>2, QuietStep DEF Points, Entitled
<1>4. CASE approvals' = AfterRefusal(id)
           /\ Refuse(c, "DENY", "DENY", "approval_consume_failed")
  <2>1. pc' = [pc EXCEPT ![c] = "done"] /\ pc'[c] = "done" /\ journal \subseteq journal'
    BY <1>4 DEF Refuse, Return, Goto, Appends, AppendRaises, TypeOK, CallTypeOK
  <2>2. CASE approvals' = approvals
    BY <1>1, <2>1, <2>2, AnswerStep
  <2>3. CASE id \in Approvals /\ approvals' = [approvals EXCEPT ![id].status = "expired"]
    <3>1. ASSUME NEW d \in Calls PROVE CallLineage(d)'
      BY <1>1, <1>2, <2>1
      DEF Lineage, CallLineage, Ran, Registered, Metered, Anchored, Entitled, After,
          TypeOK, CallTypeOK
    <3>2. ASSUME NEW a \in Approvals PROVE ApprovalLineage(a)'
      BY <1>1, <2>1, <2>3
      DEF Lineage, ApprovalLineage, Reviewed, Entitled, Ran, TypeOK, LedgerTypeOK,
          CallTypeOK, Stored
    <3> QED
      BY <3>1, <3>2 DEF Lineage
  <2> QED
    BY <1>4, <2>2, <2>3 DEF AfterRefusal, Known
<1> QED
  BY <1>3, <1>4 DEF CheckApproval

\* The write of consume(): the approval is still the one that was tested.
LEMMA TakeLineage ==
  ASSUME ConsumeIsAtomic, TypeOK, Lineage, NEW c \in Calls, TakeApproval(c)
  PROVE  Lineage'
<1> DEFINE id == Sent[c].approval
<1>1. /\ pc[c] = "checked"
      /\ approvals' = [approvals EXCEPT ![id].status = "consumed"]
      /\ spender' = [spender EXCEPT ![id] = c]
      /\ UNCHANGED <<outcome, journal>>
  BY DEF TakeApproval, At, auditVars
<1>2. pc' = [pc EXCEPT ![c] = "cleared"] /\ pc'[c] = "cleared"
  BY DEF TakeApproval, Goto, TypeOK, CallTypeOK
<1>3. \A d \in Calls \ {c} : pc[d] # "checked"
  BY NobodyElseChecked DEF TakeApproval, At
<1>4. /\ id \in Approvals
      /\ approvals[id].status = "approved"
      /\ BoundTo(id, Sent[c])
      /\ IsConsequential(c)
      /\ Reviewed(id)
      /\ spender[id] = NoCall
  BY <1>1 DEF Lineage, CallLineage, ApprovalLineage
<1>5. /\ approvals'[id].status = "consumed"
      /\ approvals'[id].reviewer = approvals[id].reviewer
      /\ spender'[id] = c
      /\ \A a \in Approvals \ {id} : approvals'[a] = approvals[a] /\ spender'[a] = spender[a]
  BY <1>1, <1>4 DEF TypeOK, LedgerTypeOK, CallTypeOK, Stored
<1>6. ASSUME NEW d \in Calls PROVE CallLineage(d)'
  <2>1. CASE d = c
    BY <1>1, <1>2, <1>4, <1>5, <2>1
    DEF Lineage, CallLineage, Ran, Registered, Metered, Anchored, Entitled, After
  <2>2. CASE d # c
    <3>1. pc'[d] = pc[d] /\ pc[d] # "checked" /\ Ran' = Ran
      BY <1>1, <1>2, <1>3, <2>2 DEF TypeOK, CallTypeOK, Ran
    <3>2. NoCall # d
      BY GatewayAssumption DEF GatewayAssumption
    <3> QED
      BY <1>1, <1>4, <1>5, <3>1, <3>2 DEF Lineage, CallLineage
  <2> QED
    BY <2>1, <2>2
<1>7. ASSUME NEW a \in Approvals PROVE ApprovalLineage(a)'
  <2>1. CASE a = id
    BY <1>2, <1>4, <1>5, <2>1 DEF ApprovalLineage, Reviewed, Entitled
  <2>2. CASE a # id
    <3>1. pc'[spender[a]] \in Entitled <=> pc[spender[a]] \in Entitled \/ spender[a] = c
      BY <1>1, <1>2 DEF Entitled, TypeOK, CallTypeOK
    <3> QED
      BY <1>1, <1>4, <1>5, <2>2, <3>1 DEF Lineage, ApprovalLineage, Reviewed, Ran
  <2> QED
    BY <2>1, <2>2
<1> QED
  BY <1>6, <1>7 DEF Lineage

\* An activation that has run goes on, with what it has behind it.
LEMMA AfterStep ==
  ASSUME TypeOK, Lineage, NEW c \in Calls, pc[c] \in After, NEW point \in After,
         pc' = [pc EXCEPT ![c] = point], journal \subseteq journal',
         UNCHANGED <<approvals, outcome, spender>>
  PROVE  Lineage'
<1>1. pc'[c] = point /\ Ran' = Ran
  BY DEF TypeOK, CallTypeOK, Ran
<1>2. CallLineage(c)'
  BY <1>1 DEF Lineage, CallLineage, Registered, Metered, Anchored, Entitled, After
<1> QED
  BY <1>2, QuietStep DEF Points, Entitled, After

\* The connector runs only for the activation that holds the approval.
LEMMA EffectLineage ==
  ASSUME TypeOK, Lineage, NEW c \in Calls,
         \/ Execute(c) \/ CommitTokens(c) \/ RecordUsage(c)
         \/ AppendCompletion(c) \/ Complete(c)
  PROVE  Lineage'
<1>1. CASE Execute(c)
  <2>1. /\ pc[c] = "cleared" /\ pc' = [pc EXCEPT ![c] = "executed"]
        /\ UNCHANGED <<approvals, spender, journal>>
    BY <1>1 DEF Execute, At, Goto, ledgerVars, auditVars
  <2>2. Ran' = Ran \cup {c}
    BY <1>1, GatewayAssumption DEF Execute, Ran, TypeOK, CallTypeOK, GatewayAssumption
  <2>3. ASSUME NEW d \in Calls PROVE CallLineage(d)'
    BY <2>1, <2>2
    DEF Lineage, CallLineage, Registered, Metered, Anchored, Entitled, After, TypeOK,
        CallTypeOK
  <2>4. ASSUME NEW a \in Approvals PROVE ApprovalLineage(a)'
    BY <2>1, <2>2
    DEF Lineage, ApprovalLineage, Reviewed, Entitled, TypeOK, CallTypeOK
  <2> QED
    BY <2>3, <2>4 DEF Lineage
<1>2. CASE CommitTokens(c) \/ RecordUsage(c)
  <2>1. PICK point \in {"committed", "settled"} : pc' = [pc EXCEPT ![c] = point]
    BY <1>2 DEF CommitTokens, RecordUsage, Goto
  <2>2. /\ pc[c] \in After /\ pc'[c] = point
        /\ UNCHANGED <<approvals, outcome, spender, journal>>
    BY <1>2, <2>1
    DEF CommitTokens, RecordUsage, At, After, ledgerVars, auditVars, TypeOK, CallTypeOK
  <2> QED
    BY <2>1, <2>2, AfterStep DEF After
<1>3. CASE AppendCompletion(c) \/ Complete(c)
  <2>1. /\ pc[c] \in After
        /\ UNCHANGED <<approvals, outcome, spender>> /\ journal \subseteq journal'
    BY <1>3
    DEF AppendCompletion, Complete, At, After, ledgerVars, auditVars, Appends, AppendRaises
  <2>2. PICK point \in {"done", "recorded", "unrecorded"} : pc' = [pc EXCEPT ![c] = point]
    BY <1>3 DEF AppendCompletion, Complete, Return, Goto
  <2>3. CASE point = "done"
    BY <2>1, <2>2, <2>3, AnswerStep DEF After
  <2>4. CASE point \in {"recorded", "unrecorded"}
    BY <2>1, <2>2, <2>4, AfterStep DEF After
  <2> QED
    BY <2>3, <2>4
<1> QED
  BY <1>1, <1>2, <1>3

\* Reviewers give approvals they are free to give, and take none back.
LEMMA EnvironmentLineage ==
  ASSUME ConsumeIsAtomic, TypeOK, Lineage,
         Review \/ Contain \/ (\E a \in Agents : RegisterAgent(a))
  PROVE  Lineage'
<1>1. UNCHANGED <<pc, outcome, spender, journal>>
  BY DEF Review, Contain, RegisterAgent, callVars, auditVars
<1>2. CASE UNCHANGED approvals
  BY <1>1, <1>2 DEF Lineage, CallLineage, ApprovalLineage, Reviewed, Ran
<1>3. CASE LedgerStep /\ OthersYield({})
  <2>1. \A d \in Calls : pc[d] # "checked"
    BY <1>3, NobodyElseChecked
  <2>2. ASSUME NEW d \in Calls PROVE CallLineage(d)'
    BY <1>1, <2>1 DEF Lineage, CallLineage, Ran
  <2>3. ASSUME NEW id \in Approvals, RequestApproval(id) PROVE Lineage'
    <3>1. ASSUME NEW a \in Approvals PROVE ApprovalLineage(a)'
      BY <1>1, <2>3
      DEF RequestApproval, Lineage, ApprovalLineage, Reviewed, Ran, TypeOK,
          LedgerTypeOK, Stored
    <3> QED
      BY <2>2, <3>1 DEF Lineage
  <2>4. ASSUME NEW id \in Approvals, NEW reviewer \in People, Approve(id, reviewer)
        PROVE  Lineage'
    <3>1. ASSUME NEW a \in Approvals PROVE ApprovalLineage(a)'
      BY <1>1, <2>4
      DEF Approve, Lineage, ApprovalLineage, Reviewed, Ran, TypeOK, LedgerTypeOK, Stored
    <3> QED
      BY <2>2, <3>1 DEF Lineage
  <2>5. ASSUME NEW id \in Approvals, ApproveTooLate(id) PROVE Lineage'
    BY <1>1, <2>1, <2>5, ExpiryStep DEF ApproveTooLate
  <2> QED
    BY <1>3, <2>3, <2>4, <2>5 DEF LedgerStep
<1> QED
  BY <1>2, <1>3 DEF Review, Contain, RegisterAgent, Tick, ledgerVars

-----------------------------------------------------------------------------
\* One step of the gateway and its environment keeps types and lineage.
LEMMA StepKeepsLineage ==
  ASSUME ConsumeIsAtomic, TypeOK, Lineage, [Next]_vars
  PROVE  TypeOK' /\ Lineage'
<1>1. ASSUME NEW c \in Calls, Receive(c) PROVE TypeOK' /\ Lineage'
  BY <1>1, GuardTypeOK, GuardLineage
<1>2. ASSUME NEW c \in Calls, Proceed(c) PROVE TypeOK' /\ Lineage'
  <2>1. CASE Deduplicate(c) \/ Authorize(c) \/ PolicyFault(c) \/ AppendIntent(c)
    BY <2>1, GuardTypeOK, GuardLineage
  <2>2. CASE PreflightBudget(c) \/ PeekApproval(c)
    BY <2>2, ReadingTypeOK, GuardLineage
  <2>3. CASE CheckApproval(c)
    BY <2>3, ConsumeTypeOK, CheckLineage
  <2>4. CASE TakeApproval(c)
    BY <2>4, ConsumeTypeOK, TakeLineage
  <2>5. CASE \/ Execute(c) \/ CommitTokens(c) \/ RecordUsage(c)
             \/ AppendCompletion(c) \/ Complete(c)
    BY <2>5, EffectTypeOK, EffectLineage
  <2> QED
    BY <1>2, <2>1, <2>2, <2>3, <2>4, <2>5 DEF Proceed
<1>3. CASE Review \/ Contain \/ (\E a \in Agents : RegisterAgent(a))
  BY <1>3, EnvironmentTypeOK, EnvironmentLineage
<1>4. CASE UNCHANGED vars
  <2>1. TypeOK'
    BY <1>4
    DEF vars, ledgerVars, budgetVars, switchVars, auditVars, callVars, TypeOK,
        LedgerTypeOK, BudgetTypeOK, SwitchTypeOK, AuditTypeOK, CallTypeOK
  <2>2. Lineage'
    BY <1>4
    DEF vars, ledgerVars, auditVars, callVars, Lineage, CallLineage, ApprovalLineage,
        Reviewed, Ran
  <2> QED
    BY <2>1, <2>2
<1> QED
  BY <1>1, <1>2, <1>3, <1>4 DEF Next

\* Types and lineage hold for every set of calls, approvals, agents and people,
\* every manifest and every bound, if consume() is not overtaken half way.
THEOREM LineageHolds ==
  ASSUME ConsumeIsAtomic
  PROVE  Spec => [](TypeOK /\ Lineage)
<1>1. Init => TypeOK /\ Lineage
  BY InitTypeOK, InitLineage
<1>2. TypeOK /\ Lineage /\ [Next]_vars => (TypeOK /\ Lineage)'
  BY StepKeepsLineage
<1> QED
  BY <1>1, <1>2, PTL DEF Spec

\* Every variable stays in its domain: token estimates are checked before they
\* are spent, so no meter is ever lowered (token_budget.py:71, gateway.py:390).
THEOREM TypesHold ==
  ASSUME ConsumeIsAtomic
  PROVE  Spec => []TypeOK
<1>1. TypeOK /\ Lineage => TypeOK
  OBVIOUS
<1> QED
  BY <1>1, LineageHolds, PTL

\* An approval underwrites at most one execution (gateway.py:18-21).
THEOREM SingleUseHolds ==
  ASSUME ConsumeIsAtomic
  PROVE  Spec => []SingleUse
<1>1. TypeOK /\ Lineage => SingleUse
  BY DEF SingleUse, Lineage, CallLineage, Ran
<1> QED
  BY <1>1, LineageHolds, PTL

\* What runs was approved, as it runs, by somebody entitled to approve it
\* (approval_ledger.py:3-7).
THEOREM RunsUnderReviewHolds ==
  ASSUME ConsumeIsAtomic
  PROVE  Spec => []RunsUnderReview
<1>1. TypeOK /\ Lineage => RunsUnderReview
  <2> SUFFICES ASSUME TypeOK, Lineage, NEW c \in Ran, IsConsequential(c)
               PROVE  LET id == Sent[c].approval
                      IN /\ id \in Approvals
                         /\ spender[id] = c
                         /\ BoundTo(id, Sent[c])
                         /\ approvals[id].status \in {"consumed", "expired"}
                         /\ approvals[id].reviewer \in People
                         /\ Asked[id].sod => approvals[id].reviewer # Asked[id].requester
    BY DEF RunsUnderReview
  <2>1. c \in Calls /\ c # NoCall
    BY GatewayAssumption DEF Ran, GatewayAssumption
  <2>2. Sent[c].approval \in Approvals /\ spender[Sent[c].approval] = c
    BY <2>1 DEF Lineage, CallLineage
  <2> QED
    BY <2>1, <2>2 DEF Lineage, ApprovalLineage, Reviewed
<1> QED
  BY <1>1, LineageHolds, PTL

\* No side effect without a durable INTENT row (gateway.py:11-12).
THEOREM AnchoredBeforeRunHolds ==
  ASSUME ConsumeIsAtomic
  PROVE  Spec => []AnchoredBeforeRun
<1>1. TypeOK /\ Lineage => AnchoredBeforeRun
  BY DEF AnchoredBeforeRun, Lineage, CallLineage, Ran
<1> QED
  BY <1>1, LineageHolds, PTL

-----------------------------------------------------------------------------
\* A key in the outbox is that of a call that ran.
CompletedRan == \A k \in completed : \E d \in Ran : Key(d) = k

LEMMA StepKeepsCompletedRan ==
  ASSUME TypeOK, Lineage, CompletedRan, [Next]_vars
  PROVE  CompletedRan'
<1>1. ASSUME NEW c \in Calls, Execute(c) PROVE CompletedRan'
  <2>1. completed' = completed
    BY <1>1 DEF Execute
  <2>2. Ran \subseteq Ran'
    BY <1>1, GatewayAssumption DEF Execute, Ran, TypeOK, CallTypeOK, GatewayAssumption
  <2> QED
    BY <2>1, <2>2 DEF CompletedRan, Key
<1>2. ASSUME NEW c \in Calls, Complete(c) PROVE CompletedRan'
  <2>1. completed' = completed \cup {Key(c)} /\ Ran' = Ran
    BY <1>2 DEF Complete, Ran
  <2>2. c \in Ran
    BY <1>2 DEF Complete, At, Lineage, CallLineage, After
  <2> QED
    BY <2>1, <2>2 DEF CompletedRan, Key
<1>3. CASE \A c \in Calls : ~Execute(c) /\ ~Complete(c)
  <2>1. UNCHANGED <<completed, outcome>>
    BY <1>3
    DEF Next, Receive, Proceed, Deduplicate, PreflightBudget, PeekApproval, Authorize,
        PolicyFault, AppendIntent, CheckApproval, TakeApproval, CommitTokens,
        RecordUsage, AppendCompletion, Review, Contain, RegisterAgent, vars, callVars
  <2> QED
    BY <2>1 DEF CompletedRan, Ran, Key
<1> QED
  BY <1>1, <1>2, <1>3

\* A call about to run on an approval is the only one that ever took it, so that
\* no call with the same key has run.
LEMMA CompletedKeyIsAnotherApproval ==
  ASSUME Lineage, CompletedRan, NEW c \in Calls, pc[c] = "cleared", IsConsequential(c)
  PROVE  Key(c) \notin completed
<1> SUFFICES ASSUME Key(c) \in completed PROVE FALSE
  OBVIOUS
<1>1. PICK d \in Ran : Key(d) = Key(c)
  BY DEF CompletedRan
<1>2. /\ d \in Calls
      /\ Sent[c].approval \in Approvals /\ spender[Sent[c].approval] = c
  BY DEF Ran, Lineage, CallLineage, Entitled
<1>3. /\ Sent[d].approval = Sent[c].approval
      /\ Sent[d].agent = Sent[c].agent /\ Sent[d].tool = Sent[c].tool
  BY <1>1, <1>2, GatewayAssumption DEF Key, GatewayAssumption
<1>4. spender[Sent[d].approval] = d
  BY <1>2, <1>3 DEF Lineage, CallLineage, IsConsequential
<1>5. c \in Ran
  BY <1>2, <1>3, <1>4
<1> QED
  BY <1>5 DEF Lineage, CallLineage, After

\* A consequential connector never runs for a key the outbox already holds, so
\* that a retry after INDETERMINATE cannot execute twice (gateway.py:148-151).
THEOREM CompletedApprovalNeverRunsHolds ==
  ASSUME ConsumeIsAtomic
  PROVE  Spec => CompletedApprovalNeverRuns
<1>1. Init => CompletedRan
  BY DEF Init, CompletedRan
<1>2. TypeOK /\ Lineage /\ CompletedRan /\ [Next]_vars => CompletedRan'
  BY StepKeepsCompletedRan
<1>3. TypeOK /\ Lineage /\ CompletedRan /\ [Next]_vars
        => [\A c \in Calls : c \in Ran' \ Ran /\ IsConsequential(c)
              => Key(c) \notin completed]_vars
  <2> SUFFICES ASSUME TypeOK, Lineage, CompletedRan, Next,
                      NEW c \in Calls, c \in Ran' \ Ran, IsConsequential(c)
               PROVE  Key(c) \notin completed
    OBVIOUS
  <2>1. pc[c] = "cleared"
    <3>1. ASSUME NEW d \in Calls, Execute(d) PROVE pc[c] = "cleared"
      BY <3>1 DEF Execute, At, Ran, TypeOK, CallTypeOK
    <3>2. CASE \A d \in Calls : ~Execute(d)
      BY <3>2
      DEF Next, Receive, Proceed, Deduplicate, PreflightBudget, PeekApproval, Authorize,
          PolicyFault, AppendIntent, CheckApproval, TakeApproval, CommitTokens,
          RecordUsage, AppendCompletion, Complete, Review, Contain, RegisterAgent,
          callVars, Ran
    <3> QED
      BY <3>1, <3>2
  <2> QED
    BY <2>1, CompletedKeyIsAnotherApproval
<1> QED
  BY <1>1, <1>2, <1>3, LineageHolds, PTL DEF Spec, CompletedApprovalNeverRuns

-----------------------------------------------------------------------------
(***************************************************************************)
(* The gateway implements GovernedAction.                                  *)
(***************************************************************************)

\* A call that returns is over and told.
LEMMA ReturnTells ==
  ASSUME TypeOK, NEW c \in Calls, NEW effect, NEW reason, Return(c, effect, reason)
  PROVE  /\ pc' = [pc EXCEPT ![c] = "done"]
         /\ answer' = [answer EXCEPT ![c] = [effect |-> effect, reason |-> reason]]
         /\ pc'[c] = "done"
         /\ answer'[c] = [effect |-> effect, reason |-> reason]
         /\ \A d \in Calls \ {c} : pc'[d] = pc[d] /\ answer'[d] = answer[d]
  BY DEF Return, Goto, TypeOK, CallTypeOK

LEMMA InitPromise == Init => AnswerLineage /\ RefusalIsTruthful /\ Promise!Init
<1> SUFFICES ASSUME Init PROVE AnswerLineage /\ RefusalIsTruthful /\ Promise!Init
  OBVIOUS
<1>1. AnswerLineage /\ RefusalIsTruthful
  BY DEF Init, AuditInit, AnswerLineage, RefusalIsTruthful
<1>2. Promise!Init
  BY DEF Init, AuditInit, Promise!Init, Ran, Told
<1> QED
  BY <1>1, <1>2

-----------------------------------------------------------------------------
\* The four variables of the promise.
Anchors == {c \in Calls : Row(c, "INTENT") \in journal}
Answers == [c \in Calls |-> Told(c)]

\* What the proofs below carry along.
Kept == AnswerLineage /\ RefusalIsTruthful

LEMMA SameAnchors ==
  ASSUME NEW c \in Calls, NEW decision, decision # "INTENT",
         \/ Appends(Row(c, decision)) \/ AppendRaises(Row(c, decision))
         \/ UNCHANGED journal
  PROVE  Anchors' = Anchors
  BY DEF Anchors, Row, Appends, AppendRaises

\* A step that anchors, spends, runs and tells nothing is a stutter.
LEMMA SilentStep ==
  ASSUME TypeOK, Lineage, Kept, Anchors' = Anchors,
         UNCHANGED <<outcome, spender, answer>>,
         \A d \in Calls : \/ pc'[d] = pc[d]
                          \/ /\ pc[d] # "done" /\ pc'[d] # "done"
                             /\ pc[d] \in Anchored => pc'[d] \in Anchored
  PROVE  Kept' /\ UNCHANGED <<Anchors, spender, Ran, Answers>>
<1>1. UNCHANGED <<Anchors, spender, Ran, Answers>>
  BY DEF Ran, Answers, Told
<1>2. AnswerLineage'
  <2> SUFFICES ASSUME NEW d \in Calls
               PROVE  /\ pc'[d] = "done" <=> answer'[d].effect # "none"
                      /\ Row(d, "INTENT") \in journal' => pc'[d] \in Anchored \cup {"done"}
    BY DEF AnswerLineage
  <2>1. Row(d, "INTENT") \in journal' <=> Row(d, "INTENT") \in journal
    BY DEF Anchors
  <2> QED
    BY <2>1 DEF Kept, AnswerLineage
<1>3. RefusalIsTruthful'
  BY <1>1 DEF Kept, RefusalIsTruthful
<1> QED
  BY <1>1, <1>2, <1>3 DEF Kept

\* The answer of a call that is over tells the truth, and tells it once.
LEMMA TellStep ==
  ASSUME TypeOK, Lineage, Kept, NEW c \in Calls, pc[c] # "done", Anchors' = Anchors,
         UNCHANGED <<outcome, spender>>,
         NEW effect \in Effects \ {"none"}, NEW reason, Return(c, effect, reason),
         IF effect \in {"ALLOW", "INDETERMINATE"} \/ reason = "tool_exec_error"
           THEN c \in Ran
           ELSE c \notin Ran /\ \A id \in Approvals : spender[id] # c
  PROVE  Kept' /\ Promise!Next
<1>1. Ran' = Ran
  BY DEF Ran
<1>2. /\ pc'[c] = "done" /\ answer'[c] = [effect |-> effect, reason |-> reason]
      /\ \A d \in Calls \ {c} : pc'[d] = pc[d] /\ answer'[d] = answer[d]
  BY ReturnTells
<1>3. Kept'
  <2>1. ASSUME NEW d \in Calls
        PROVE  /\ pc'[d] = "done" <=> answer'[d].effect # "none"
               /\ Row(d, "INTENT") \in journal' => pc'[d] \in Anchored \cup {"done"}
    <3>1. Row(d, "INTENT") \in journal' <=> Row(d, "INTENT") \in journal
      BY DEF Anchors
    <3> QED
      BY <1>2, <3>1 DEF Kept, AnswerLineage
  <2>2. RefusalIsTruthful'
    BY <1>1, <1>2 DEF Kept, RefusalIsTruthful
  <2> QED
    BY <2>1, <2>2 DEF Kept, AnswerLineage
<1> DEFINE what == IF effect = "INDETERMINATE" THEN "unknown"
                   ELSE IF effect = "ALLOW" \/ reason = "tool_exec_error"
                     THEN "ran" ELSE "refused"
<1>4. Answers' = [Answers EXCEPT ![c] = what]
  <2>1. Told(c)' = what
    BY <1>2 DEF Told
  <2>2. \A d \in Calls \ {c} : Told(d)' = Told(d)
    BY <1>2 DEF Told
  <2> HIDE DEF what
  <2> QED
    BY <2>1, <2>2 DEF Answers
<1>5. Answers[c] = "nothing"
  BY DEF Answers, Told, Kept, AnswerLineage
<1>6. Promise!Tell(c, what)
  BY <1>1, <1>4, <1>5 DEF Promise!Tell, Anchors, Answers
<1>7. what \in {"refused", "ran", "unknown"}
  OBVIOUS
<1> QED
  BY <1>3, <1>6, <1>7 DEF Promise!Next

-----------------------------------------------------------------------------
\* A step of the promise, or none.
Keeping == Kept' /\ (Promise!Next \/ UNCHANGED <<Anchors, spender, Ran, Answers>>)

\* A call that has taken nothing and run nothing may be refused.
LEMMA RefusalStep ==
  ASSUME TypeOK, Lineage, Kept, NEW c \in Calls,
         pc[c] \notin Entitled \cup {"done"}, UNCHANGED <<outcome, spender>>,
         NEW decision \in Decisions \ {"INTENT"},
         NEW effect \in {"DENY", "APPROVAL_REQUIRED"},
         NEW reason, reason # "tool_exec_error",
         \/ Refuse(c, decision, effect, reason)
         \/ /\ Appends(Row(c, decision)) \/ AppendRaises(Row(c, decision))
            /\ Return(c, effect, reason)
  PROVE  Keeping
<1>1. Anchors' = Anchors
  BY SameAnchors DEF Refuse
<1>2. c \notin Ran
  BY DEF Lineage, CallLineage, After, Entitled
<1>3. ASSUME NEW id \in Approvals PROVE spender[id] # c
  BY <1>2, GatewayAssumption DEF Lineage, ApprovalLineage, GatewayAssumption
<1>4. PICK told \in {effect, "RAISED"} : Return(c, told, reason)
  BY DEF Refuse
<1>5. told \in Effects \ {"none"} /\ told \notin {"ALLOW", "INDETERMINATE"}
  BY DEF Effects
<1>6. Kept' /\ Promise!Next
  BY <1>1, <1>2, <1>3, <1>4, <1>5, TellStep
<1> QED
  BY <1>6 DEF Keeping

LEMMA GuardKeeps ==
  ASSUME TypeOK, Lineage, Kept, NEW c \in Calls,
         \/ Receive(c) \/ Deduplicate(c) \/ PreflightBudget(c) \/ PeekApproval(c)
         \/ Authorize(c) \/ PolicyFault(c)
  PROVE  Keeping
<1>1. /\ UNCHANGED <<outcome, spender>>
      /\ pc[c] \in {"idle", "masked", "fresh", "metered", "peeked"}
  BY DEF Receive, Deduplicate, PreflightBudget, PeekApproval, Authorize, PolicyFault, At
<1>2. ASSUME NEW point, point # "done", Goto(c, point), UNCHANGED <<answer, auditVars>>
      PROVE  Keeping
  <2>1. Anchors' = Anchors
    BY <1>2 DEF Anchors, auditVars
  <2>2. /\ pc[c] # "done" /\ pc'[c] # "done" /\ pc[c] \notin Anchored
        /\ \A d \in Calls \ {c} : pc'[d] = pc[d]
    BY <1>1, <1>2 DEF Goto, TypeOK, CallTypeOK, Anchored, Metered, Registered
  <2> QED
    BY <1>1, <1>2, <2>1, <2>2, SilentStep DEF Keeping
<1>3. pc[c] \notin Entitled \cup {"done"}
  BY <1>1 DEF Entitled
<1>4. CASE Receive(c)
  BY <1>1, <1>2, <1>3, <1>4, RefusalStep DEF Receive, Decisions
<1>5. CASE Deduplicate(c)
  BY <1>1, <1>2, <1>3, <1>5, RefusalStep DEF Deduplicate, Decisions
<1>6. CASE PreflightBudget(c)
  <2>1. CASE Return(c, "RAISED", "negative_tokens")
    <3>1. Anchors' = Anchors
      BY <1>6 DEF PreflightBudget, auditVars, Anchors
    <3>2. c \notin Ran /\ \A id \in Approvals : spender[id] # c
      BY <1>1, GatewayAssumption
      DEF Lineage, CallLineage, ApprovalLineage, After, Entitled, GatewayAssumption
    <3>3. "RAISED" \in Effects \ {"none"}
      BY DEF Effects
    <3> QED
      BY <1>1, <2>1, <3>1, <3>2, <3>3, TellStep DEF Keeping
  <2> QED
    BY <1>2, <1>6, <2>1 DEF PreflightBudget
<1>7. CASE PeekApproval(c)
  BY <1>2, <1>7 DEF PeekApproval
<1>8. CASE Authorize(c)
  <2>1. Verdict[c][seen[c]] \in {"ALLOW", "DENY", "APPROVAL_REQUIRED"}
    BY <1>8, VerdictIsAnEffect
    DEF Authorize, At, Lineage, CallLineage, Registered, TypeOK, CallTypeOK
  <2> QED
    BY <1>1, <1>2, <1>3, <1>8, <2>1, RefusalStep DEF Authorize, Decisions
<1>9. CASE PolicyFault(c)
  BY <1>1, <1>3, <1>9, RefusalStep DEF PolicyFault, Decisions
<1> QED
  BY <1>4, <1>5, <1>6, <1>7, <1>8, <1>9

\* The INTENT row is the anchor.
LEMMA IntentKeeps ==
  ASSUME TypeOK, Lineage, Kept, NEW c \in Calls, AppendIntent(c)
  PROVE  Keeping
<1>1. pc[c] = "authorized" /\ UNCHANGED <<outcome, spender>>
  BY DEF AppendIntent, At
<1>2. c \notin Ran /\ \A id \in Approvals : spender[id] # c
  BY <1>1, GatewayAssumption
  DEF Lineage, CallLineage, ApprovalLineage, After, Entitled, GatewayAssumption
<1>3. CASE AppendRaises(Row(c, "INTENT")) /\ Return(c, "DENY", "intent_not_durable")
  <2>1. Anchors' = Anchors
    BY <1>3 DEF AppendRaises, Anchors
  <2>2. "DENY" \in Effects \ {"none"}
    BY DEF Effects
  <2> QED
    BY <1>1, <1>2, <1>3, <2>1, <2>2, TellStep DEF Keeping
<1>4. CASE /\ Appends(Row(c, "INTENT"))
           /\ Goto(c, IF IsConsequential(c) THEN "anchored" ELSE "cleared")
           /\ UNCHANGED answer
  <2>1. /\ pc'[c] \in {"anchored", "cleared"}
        /\ \A d \in Calls \ {c} : pc'[d] = pc[d]
    BY <1>4 DEF Goto, TypeOK, CallTypeOK
  <2>2. Anchors' = Anchors \cup {c}
    BY <1>4 DEF Appends, Anchors, Row
  <2>3. c \notin Anchors /\ Told(c) = "nothing"
    BY <1>1 DEF Kept, AnswerLineage, Anchors, Anchored, Metered, Registered, Told
  <2>4. Ran' = Ran /\ Answers' = Answers
    BY <1>1, <1>4 DEF Ran, Answers, Told
  <2>5. Promise!Anchor(c)
    BY <1>1, <2>2, <2>3, <2>4 DEF Promise!Anchor, Anchors, Answers
  <2>6. ASSUME NEW d \in Calls
        PROVE  /\ pc'[d] = "done" <=> answer'[d].effect # "none"
               /\ Row(d, "INTENT") \in journal' => pc'[d] \in Anchored \cup {"done"}
    <3>1. Row(d, "INTENT") \in journal' <=> d = c \/ Row(d, "INTENT") \in journal
      BY <2>2 DEF Anchors
    <3> QED
      BY <1>1, <1>4, <2>1, <3>1
      DEF Kept, AnswerLineage, Anchored, Metered, Registered
  <2>7. RefusalIsTruthful'
    BY <1>1, <1>4, <2>1, <2>4 DEF Kept, RefusalIsTruthful
  <2> QED
    BY <2>5, <2>6, <2>7 DEF Keeping, Kept, AnswerLineage, Promise!Next
<1> QED
  BY <1>3, <1>4 DEF AppendIntent

\* The test of consume() is silent, or a refusal.
LEMMA CheckKeeps ==
  ASSUME TypeOK, Lineage, Kept, NEW c \in Calls, CheckApproval(c)
  PROVE  Keeping
<1>1. pc[c] = "anchored" /\ UNCHANGED <<outcome, spender>>
  BY DEF CheckApproval, At
<1>2. CASE Goto(c, "checked") /\ UNCHANGED <<answer, auditVars>>
  <2>1. /\ Anchors' = Anchors
        /\ pc'[c] = "checked" /\ \A d \in Calls \ {c} : pc'[d] = pc[d]
    BY <1>2 DEF Anchors, auditVars, Goto, TypeOK, CallTypeOK
  <2> QED
    BY <1>1, <1>2, <2>1, SilentStep DEF Keeping, Anchored, Metered, Registered
<1>3. CASE Refuse(c, "DENY", "DENY", "approval_consume_failed")
  BY <1>1, <1>3, RefusalStep DEF Decisions, Entitled
<1> QED
  BY <1>2, <1>3 DEF CheckApproval

\* The write of consume() spends the grant the call needs.
LEMMA TakeKeeps ==
  ASSUME TypeOK, Lineage, Kept, NEW c \in Calls, TakeApproval(c)
  PROVE  Keeping
<1> DEFINE id == Sent[c].approval
<1>1. /\ pc[c] = "checked"
      /\ spender' = [spender EXCEPT ![id] = c]
      /\ UNCHANGED <<outcome, answer, journal>>
  BY DEF TakeApproval, At, auditVars
<1>2. pc'[c] = "cleared" /\ \A d \in Calls \ {c} : pc'[d] = pc[d]
  BY DEF TakeApproval, Goto, TypeOK, CallTypeOK
<1>3. id \in Approvals /\ IsConsequential(c) /\ spender[id] = NoCall /\ c \in Anchors
  BY <1>1
  DEF Lineage, CallLineage, ApprovalLineage, Anchors, Anchored, Metered, Registered
<1>4. Ran' = Ran /\ Answers' = Answers /\ Anchors' = Anchors
  BY <1>1 DEF Ran, Answers, Told, Anchors
<1>5. Told(c) = "nothing"
  BY <1>1 DEF Kept, AnswerLineage, Told
<1>6. Promise!Spend(c)
  BY <1>1, <1>3, <1>4, <1>5 DEF Promise!Spend, Anchors, Answers
<1>7. AnswerLineage'
  BY <1>1, <1>2 DEF Kept, AnswerLineage, Anchored, Metered, Registered
<1>8. RefusalIsTruthful'
  <2> SUFFICES ASSUME NEW d \in Calls, pc'[d] = "done"
               PROVE  IF \/ answer'[d].effect \in {"ALLOW", "INDETERMINATE"}
                         \/ answer'[d].reason = "tool_exec_error"
                        THEN d \in Ran'
                        ELSE d \notin Ran' /\ \A a \in Approvals : spender'[a] # d
    BY DEF RefusalIsTruthful
  <2>1. d # c /\ pc[d] = "done"
    BY <1>2
  <2>2. \A a \in Approvals : spender[a] # d => spender'[a] # d
    BY <1>1, <2>1 DEF TypeOK, CallTypeOK
  <2> QED
    BY <1>1, <1>4, <2>1, <2>2 DEF Kept, RefusalIsTruthful
<1> QED
  BY <1>6, <1>7, <1>8 DEF Keeping, Kept, Promise!Next

\* The connector runs once, for a call that is anchored and holds its grant.
LEMMA ExecuteKeeps ==
  ASSUME TypeOK, Lineage, Kept, NEW c \in Calls, Execute(c)
  PROVE  Keeping
<1>1. /\ pc[c] = "cleared"
      /\ UNCHANGED <<spender, answer, journal>>
  BY DEF Execute, At, auditVars
<1>2. pc'[c] = "executed" /\ \A d \in Calls \ {c} : pc'[d] = pc[d]
  BY DEF Execute, Goto, TypeOK, CallTypeOK
<1>3. Ran' = Ran \cup {c}
  BY GatewayAssumption DEF Execute, Ran, TypeOK, CallTypeOK, GatewayAssumption
<1>4. /\ c \in Anchors /\ c \notin Ran
      /\ IsConsequential(c) => spender[Sent[c].approval] = c
  BY <1>1
  DEF Lineage, CallLineage, Anchors, Anchored, Metered, Registered, Entitled, After
<1>5. Answers' = Answers /\ Anchors' = Anchors /\ Told(c) = "nothing"
  BY <1>1 DEF Answers, Told, Anchors, Kept, AnswerLineage
<1>6. Promise!Run(c)
  BY <1>1, <1>3, <1>4, <1>5 DEF Promise!Run, Anchors, Answers
<1>7. AnswerLineage'
  BY <1>1, <1>2 DEF Kept, AnswerLineage, Anchored, Metered, Registered
<1>8. RefusalIsTruthful'
  BY <1>1, <1>2, <1>3 DEF Kept, RefusalIsTruthful
<1> QED
  BY <1>6, <1>7, <1>8 DEF Keeping, Kept, Promise!Next

\* The closing row anchors nothing.
LEMMA CloseAnchors ==
  ASSUME NEW c \in Calls, AppendCompletion(c) \/ Complete(c)
  PROVE  Anchors' = Anchors
<1>1. CASE AppendCompletion(c)
  <2>1. PICK decision \in {"ERROR", "ALLOW"} :
          Appends(Row(c, decision)) \/ AppendRaises(Row(c, decision))
    BY <1>1 DEF AppendCompletion
  <2> QED
    BY <2>1, SameAnchors
<1>2. CASE Complete(c)
  BY <1>2 DEF Complete, auditVars, Anchors
<1> QED
  BY <1>1, <1>2

\* Booking and closing are silent; the answer tells that the action ran.
LEMMA CloseKeeps ==
  ASSUME TypeOK, Lineage, Kept, NEW c \in Calls,
         CommitTokens(c) \/ RecordUsage(c) \/ AppendCompletion(c) \/ Complete(c)
  PROVE  Keeping
<1>1. /\ pc[c] \in After /\ c \in Ran
      /\ UNCHANGED <<outcome, spender>> /\ Anchors' = Anchors
  <2>1. pc[c] \in After /\ UNCHANGED <<outcome, spender>>
    BY DEF CommitTokens, RecordUsage, AppendCompletion, Complete, At, After
  <2>2. Anchors' = Anchors
    BY CloseAnchors DEF CommitTokens, RecordUsage, auditVars, Anchors
  <2> QED
    BY <2>1, <2>2 DEF Lineage, CallLineage
<1>2. \/ /\ UNCHANGED answer
         /\ \E point \in After : Goto(c, point)
      \/ Return(c, "DENY", "tool_exec_error")
      \/ Return(c, "ALLOW", "executed")
      \/ Return(c, "INDETERMINATE", "reconciliation_required")
  BY DEF CommitTokens, RecordUsage, AppendCompletion, Complete, After
<1>3. ASSUME NEW point \in After, Goto(c, point), UNCHANGED answer PROVE Keeping
  <2>1. pc'[c] = point /\ \A d \in Calls \ {c} : pc'[d] = pc[d]
    BY <1>3 DEF Goto, TypeOK, CallTypeOK
  <2>2. "done" \notin After /\ After \subseteq Anchored
    BY DEF After, Anchored, Metered, Registered
  <2> QED
    BY <1>1, <1>3, <2>1, <2>2, SilentStep DEF Keeping
<1>4. CASE \/ Return(c, "DENY", "tool_exec_error")
           \/ Return(c, "ALLOW", "executed")
           \/ Return(c, "INDETERMINATE", "reconciliation_required")
  <2>1. {"DENY", "ALLOW", "INDETERMINATE"} \subseteq Effects \ {"none"} /\ pc[c] # "done"
    BY <1>1 DEF Effects, After
  <2>2. Kept' /\ Promise!Next
    BY <1>1, <1>4, <2>1, TellStep
  <2> QED
    BY <2>2 DEF Keeping
<1> QED
  BY <1>2, <1>3, <1>4

\* Reviewers, operators, time and administrators do nothing to an action.
LEMMA EnvironmentKeeps ==
  ASSUME TypeOK, Lineage, Kept,
         \/ Review \/ Contain \/ (\E a \in Agents : RegisterAgent(a))
         \/ UNCHANGED vars
  PROVE  Keeping
<1>1. UNCHANGED <<pc, outcome, spender, answer, journal>>
  BY DEF Review, Contain, RegisterAgent, vars, callVars, auditVars
<1>2. Anchors' = Anchors
  BY <1>1 DEF Anchors
<1> QED
  BY <1>1, <1>2, SilentStep DEF Keeping

LEMMA StepKeeps ==
  ASSUME TypeOK, Lineage, Kept, [Next]_vars
  PROVE  Keeping
<1>1. ASSUME NEW c \in Calls, Receive(c) \/ Proceed(c) PROVE Keeping
  BY <1>1, GuardKeeps, IntentKeeps, CheckKeeps, TakeKeeps, ExecuteKeeps, CloseKeeps
  DEF Proceed
<1> QED
  BY <1>1, EnvironmentKeeps DEF Next

-----------------------------------------------------------------------------
\* What a caller is told about its action is true (gateway.py:12-14): a refusal
\* means that nothing ran and nothing was used up, anything else that it ran.
THEOREM RefusalIsTruthfulHolds ==
  ASSUME ConsumeIsAtomic
  PROVE  Spec => []RefusalIsTruthful
<1>1. Init => Kept
  BY InitPromise DEF Kept
<1>2. TypeOK /\ Lineage /\ Kept /\ [Next]_vars => Kept'
  BY StepKeeps DEF Keeping
<1>3. Kept => RefusalIsTruthful
  BY DEF Kept
<1> QED
  BY <1>1, <1>2, <1>3, LineageHolds, PTL DEF Spec

\* The gateway keeps the promise of its header: anchor, take the grant, run once,
\* tell the truth, in that order (gateway.py:11-24).
THEOREM KeepsItsPromiseHolds ==
  ASSUME ConsumeIsAtomic
  PROVE  Spec => KeepsItsPromise
<1>1. Init => Kept /\ Promise!Init
  BY InitPromise DEF Kept
<1>2. TypeOK /\ Lineage /\ Kept /\ [Next]_vars
        => Kept' /\ [Promise!Next]_(Promise!actionVars)
  BY StepKeeps DEF Keeping, Promise!actionVars, Anchors, Answers
<1> QED
  BY <1>1, <1>2, LineageHolds, PTL DEF Spec, KeepsItsPromise, Promise!Spec
=============================================================================
