---------------------------- MODULE ControlProofs ----------------------------
(***************************************************************************)
(* The controls around an action: the meters, the outbox, the audit record *)
(* and the kill switch.  Nothing here needs consume() to be atomic: what   *)
(* is proved holds at any granularity, or of calls that do not overlap.    *)
(***************************************************************************)
EXTENDS GatewayProofs, FiniteSums

\* What has to be known of types, and of the estimate of a call that goes on.
Budgeted ==
  /\ BudgetTypeOK
  /\ pc \in [Calls -> Points]
  /\ seen \in [Calls -> [budget : BOOLEAN, approval : BOOLEAN]]
  /\ outcome \in [Calls -> Outcomes]
  /\ \A c \in Calls : pc[c] \in Registered => Sent[c].agent \in Agents
  /\ \A c \in Calls : pc[c] \in Metered => Sent[c].tokens \in Nat

LEMMA InitBudgeted == Init => Budgeted
  BY DEF Init, BudgetInit, Budgeted, BudgetTypeOK, Points, Outcomes, Registered, Metered

\* Where a step of c leaves c, and what it reads.
LEMMA CallMoves ==
  ASSUME Budgeted, NEW c \in Calls, Receive(c) \/ Proceed(c)
  PROVE  /\ \E point \in Points : pc' = [pc EXCEPT ![c] = point]
         /\ seen' \in [Calls -> [budget : BOOLEAN, approval : BOOLEAN]]
         /\ pc'[c] \in Registered => Sent[c].agent \in Agents
         /\ pc'[c] \in Metered => Sent[c].tokens \in Nat
<1> DEFINE Moves(point) ==
      /\ point \in Points /\ pc' = [pc EXCEPT ![c] = point]
      /\ point \in Registered => Sent[c].agent \in Agents
      /\ point \in Metered => Sent[c].tokens \in Nat
<1>1. ASSUME NEW point \in Points, Goto(c, point), pc[c] \in Registered,
             pc[c] \in Metered \/ point \notin Metered
      PROVE  Moves(point)
  BY <1>1 DEF Goto, Budgeted
<1>2. ASSUME NEW effect, NEW reason, Return(c, effect, reason) PROVE Moves("done")
  BY <1>2 DEF Return, Goto, Points, Registered, Metered
<1>3. ASSUME NEW decision, NEW effect, NEW reason, Refuse(c, decision, effect, reason)
      PROVE  Moves("done")
  BY <1>2, <1>3 DEF Refuse
<1> DEFINE Readings == [Calls -> [budget : BOOLEAN, approval : BOOLEAN]]
<1>4. seen' = seen => seen' \in Readings
  BY DEF Budgeted
<1>5. CASE Receive(c)
  <2>1. seen' = seen
    BY <1>5 DEF Receive
  <2>2. \/ Goto(c, "masked") /\ Sent[c].agent \in Agents
        \/ Refuse(c, "DENY", "DENY", "kill_switch_engaged")
        \/ Refuse(c, "ERROR", "DENY", "unregistered_agent")
        \/ Refuse(c, "DENY", "DENY", "masking_fail_closed")
    BY <1>5 DEF Receive
  <2>3. Goto(c, "masked") /\ Sent[c].agent \in Agents => Moves("masked")
    BY DEF Goto, Points, Registered, Metered
  <2>4. Moves("masked") \/ Moves("done")
    BY <1>3, <2>2, <2>3
  <2> QED
    BY <1>4, <2>1, <2>4 DEF Budgeted
<1>6. CASE PreflightBudget(c)
  <2>1. pc[c] = "fresh" /\ pc[c] \in Registered
    BY <1>6 DEF PreflightBudget, At, Registered
  <2>2. CASE Sent[c].tokens < 0
    BY <1>2, <1>4, <1>6, <2>2, GatewayAssumption
    DEF PreflightBudget, Points, GatewayAssumption, Budgeted
  <2>3. CASE Sent[c].tokens >= 0
    <3>1. Sent[c].tokens \in Nat /\ ~(Sent[c].tokens < 0)
      BY <2>3, GatewayAssumption DEF GatewayAssumption
    <3>2. PICK b \in BOOLEAN : seen' = [seen EXCEPT ![c].budget = b]
      <4>1. PreflightAllows(Sent[c].agent, Sent[c].tokens) \in BOOLEAN
        BY DEF PreflightAllows
      <4> QED
        BY <1>6, <3>1, <4>1 DEF PreflightBudget
    <3>3. seen' \in Readings
      BY <3>2 DEF Budgeted
    <3>4. Goto(c, "metered")
      BY <1>6, <3>1 DEF PreflightBudget
    <3>5. Moves("metered")
      BY <2>1, <3>1, <3>4 DEF Goto, Budgeted, Points
    <3> QED
      BY <3>3, <3>5 DEF Budgeted
  <2> QED
    BY <2>2, <2>3, GatewayAssumption DEF GatewayAssumption
<1>7. CASE PeekApproval(c)
  <2>1. PICK b \in BOOLEAN : seen' = [seen EXCEPT ![c].approval = b]
    BY <1>7 DEF PeekApproval
  <2>2. seen' \in Readings
    BY <2>1 DEF Budgeted
  <2>3. Moves("peeked")
    BY <1>1, <1>7 DEF PeekApproval, At, Points, Registered, Metered
  <2> QED
    BY <2>2, <2>3 DEF Budgeted
<1>8. CASE Deduplicate(c) \/ Authorize(c) \/ PolicyFault(c)
  <2>1. seen' = seen /\ pc[c] \in Registered
    BY <1>8 DEF Deduplicate, Authorize, PolicyFault, At, Registered
  <2>2. \E point \in Points : Moves(point)
    <3>1. CASE Deduplicate(c)
      BY <1>1, <1>2, <2>1, <3>1 DEF Deduplicate, Points, Metered
    <3>2. CASE Authorize(c)
      BY <1>1, <1>3, <3>2 DEF Authorize, At, Points, Registered, Metered
    <3>3. CASE PolicyFault(c)
      BY <1>3, <3>3 DEF PolicyFault, Points
    <3> QED
      BY <1>8, <3>1, <3>2, <3>3
  <2> QED
    BY <1>4, <2>1, <2>2 DEF Budgeted
<1>9. CASE AppendIntent(c) \/ CheckApproval(c) \/ TakeApproval(c)
  <2>1. seen' = seen /\ pc[c] \in Registered /\ pc[c] \in Metered
    BY <1>9 DEF AppendIntent, CheckApproval, TakeApproval, At, Registered, Metered
  <2>2. \E point \in Points : Moves(point)
    BY <1>1, <1>2, <1>3, <1>9, <2>1
    DEF AppendIntent, CheckApproval, TakeApproval, Points
  <2> QED
    BY <1>4, <2>1, <2>2 DEF Budgeted
<1>10. CASE \/ Execute(c) \/ CommitTokens(c) \/ RecordUsage(c)
            \/ AppendCompletion(c) \/ Complete(c)
  <2>1. seen' = seen /\ pc[c] \in Registered /\ pc[c] \in Metered
    BY <1>10
    DEF Execute, CommitTokens, RecordUsage, AppendCompletion, Complete, At, Registered,
        Metered
  <2>2. \E point \in Points : Moves(point)
    BY <1>1, <1>2, <1>10, <2>1
    DEF Execute, CommitTokens, RecordUsage, AppendCompletion, Complete, Points
  <2> QED
    BY <1>4, <2>1, <2>2 DEF Budgeted
<1> QED
  BY <1>5, <1>6, <1>7, <1>8, <1>9, <1>10 DEF Proceed

\* A meter changes when a call is booked and when its agent is registered again.
LEMMA MeterChanges ==
  ASSUME Budgeted, [Next]_vars
  PROVE  \/ \E c \in Calls : CommitTokens(c)
         \/ \E a \in Agents : RegisterAgent(a)
         \/ UNCHANGED budgetVars
<1>1. ASSUME NEW c \in Calls, Receive(c) \/ Proceed(c), ~CommitTokens(c)
      PROVE  UNCHANGED budgetVars
  BY <1>1
  DEF Receive, Proceed, Deduplicate, PreflightBudget, PeekApproval, Authorize,
      PolicyFault, AppendIntent, CheckApproval, TakeApproval, Execute, RecordUsage,
      AppendCompletion, Complete
<1> QED
  BY <1>1 DEF Next, Review, Contain, vars

LEMMA BookingTypeOK ==
  ASSUME Budgeted, NEW c \in Calls, CommitTokens(c)
  PROVE  /\ Sent[c].agent \in Agents /\ Sent[c].tokens \in Nat
         /\ used' = [used EXCEPT ![Sent[c].agent] = @ + Sent[c].tokens]
         /\ BudgetTypeOK'
<1>1. pc[c] \in Registered /\ pc[c] \in Metered
  BY DEF CommitTokens, At, Metered, Registered
<1>2. Sent[c].agent \in Agents /\ Sent[c].tokens \in Nat
  BY <1>1 DEF Budgeted
<1> QED
  BY <1>2 DEF CommitTokens, CommitSpend, Budgeted, BudgetTypeOK, Reached

LEMMA StepKeepsBudgeted ==
  ASSUME Budgeted, [Next]_vars
  PROVE  Budgeted'
<1>1. BudgetTypeOK'
  <2>1. ASSUME NEW a \in Agents, RegisterAgent(a) PROVE BudgetTypeOK'
    BY <2>1 DEF RegisterAgent, RegisterMeter, Budgeted, BudgetTypeOK
  <2>2. CASE UNCHANGED budgetVars
    BY <2>2 DEF budgetVars, Budgeted, BudgetTypeOK
  <2> QED
    BY <2>1, <2>2, MeterChanges, BookingTypeOK
<1>2. ASSUME NEW c \in Calls, Receive(c) \/ Proceed(c) PROVE Budgeted'
  <2>1. outcome' \in [Calls -> Outcomes]
    BY <1>2, GatewayAssumption
    DEF Receive, Proceed, Deduplicate, PreflightBudget, PeekApproval, Authorize,
        PolicyFault, AppendIntent, CheckApproval, TakeApproval, Execute, CommitTokens,
        RecordUsage, AppendCompletion, Complete, Budgeted, GatewayAssumption
  <2> QED
    BY <1>1, <1>2, <2>1, CallMoves DEF Budgeted
<1>3. CASE UNCHANGED <<pc, seen, outcome>>
  BY <1>1, <1>3 DEF Budgeted
<1> QED
  BY <1>2, <1>3 DEF Next, Review, Contain, RegisterAgent, vars, callVars

-----------------------------------------------------------------------------
\* The thresholds a level reaches, a higher level reaches.
LEMMA ReachedGrows ==
  ASSUME NEW a \in Agents, NEW low \in Nat, NEW high \in Nat, low <= high
  PROVE  Reached(a, low) \subseteq Reached(a, high)
<1>1. ASSUME NEW t \in Thresholds, low * 100 >= t * Manifests[a].cap
      PROVE  high * 100 >= t * Manifests[a].cap
  <2>1. t * Manifests[a].cap \in Int
    BY BudgetAssumption DEF BudgetAssumption
  <2> DEFINE mark == t * Manifests[a].cap
  <2> HIDE DEF mark
  <2>2. low * 100 >= mark /\ mark \in Int
    BY <1>1, <2>1 DEF mark
  <2>3. high * 100 >= mark
    BY <2>2
  <2> QED
    BY <2>3 DEF mark
<1> QED
  BY <1>1 DEF Reached

LEMMA NothingReachedAtZero ==
  ASSUME NEW a \in Agents
  PROVE  Reached(a, 0) = {}
<1>1. ASSUME NEW t \in Thresholds PROVE ~(0 * 100 >= t * Manifests[a].cap)
  <2>1. t \in Nat \ {0} /\ Manifests[a].cap \in Nat \ {0}
    BY BudgetAssumption DEF BudgetAssumption
  <2> DEFINE cap == Manifests[a].cap
  <2> HIDE DEF cap
  <2>2. cap \in Nat \ {0}
    BY <2>1 DEF cap
  <2>3. t * cap \in Nat \ {0}
    BY <2>1, <2>2
  <2>4. ~(0 * 100 >= t * cap)
    BY <2>3
  <2> QED
    BY <2>4 DEF cap
<1> QED
  BY <1>1 DEF Reached

\* The alerts of a meter are those its total has reached, across commits from
\* connectors that failed and registrations in mid-flight (token_budget.py:122-159).
THEOREM AlertsTrackSpendHolds == Spec => []AlertsTrackSpend
<1>1. Init => Budgeted /\ AlertsTrackSpend
  BY InitBudgeted, NothingReachedAtZero DEF Init, BudgetInit, AlertsTrackSpend
<1>2. Budgeted /\ AlertsTrackSpend /\ [Next]_vars => Budgeted' /\ AlertsTrackSpend'
  <2> SUFFICES ASSUME Budgeted, AlertsTrackSpend, [Next]_vars PROVE AlertsTrackSpend'
    BY StepKeepsBudgeted
  <2>1. ASSUME NEW c \in Calls, CommitTokens(c), NEW a \in Agents
        PROVE  alertsFired'[a] = Reached(a, used'[a])
    <3> DEFINE agent == Sent[c].agent
               level == used[agent] + Sent[c].tokens
    <3>1. /\ agent \in Agents /\ Sent[c].tokens \in Nat /\ used[agent] \in Nat
          /\ used'[a] = IF a = agent THEN level ELSE used[a]
      BY <2>1, BookingTypeOK DEF Budgeted, BudgetTypeOK
    <3>2. alertsFired'[a] = IF a = agent THEN alertsFired[a] \cup Reached(a, level)
                                         ELSE alertsFired[a]
      BY <2>1 DEF CommitTokens, CommitSpend, Budgeted, BudgetTypeOK
    <3>3. Reached(agent, used[agent]) \subseteq Reached(agent, level)
      BY <3>1, ReachedGrows
    <3>4. alertsFired[a] = Reached(a, used[a])
      BY DEF AlertsTrackSpend
    <3> HIDE DEF agent, level
    <3> QED
      BY <3>1, <3>2, <3>3, <3>4
  <2>2. ASSUME NEW b \in Agents, RegisterAgent(b), NEW a \in Agents
        PROVE  alertsFired'[a] = Reached(a, used'[a])
    BY <2>2, NothingReachedAtZero
    DEF RegisterAgent, RegisterMeter, Budgeted, BudgetTypeOK, AlertsTrackSpend
  <2>3. CASE UNCHANGED budgetVars
    BY <2>3 DEF budgetVars, AlertsTrackSpend, Reached
  <2> QED
    BY <2>1, <2>2, <2>3, MeterChanges DEF AlertsTrackSpend
<1> QED
  BY <1>1, <1>2, PTL DEF Spec

-----------------------------------------------------------------------------
\* A clause that fails keeps the predicate from allowing.
LEMMA AllowNeedsBudget ==
  ASSUME NEW c \in Calls, Sent[c].agent \in Agents,
         NEW r \in [budget : BOOLEAN, approval : BOOLEAN], Verdict[c][r] = "ALLOW"
  PROVE  r.budget
<1> DEFINE ctx == Context(c, r)
           manifest == Manifests[Sent[c].agent]
<1>1. Evaluate(ctx, manifest).effect = "ALLOW"
  BY DEF Verdict
<1>2. Failing(ctx, manifest) = {}
  <2> HIDE DEF ctx, manifest
  <2> QED
    BY <1>1 DEF Evaluate
<1>3. "budget" \in DOMAIN Rank
  BY DEF Rank
<1>4. ClauseHolds("budget", ctx, manifest)
  <2> HIDE DEF ctx, manifest
  <2> QED
    BY <1>2, <1>3 DEF Failing
<1>5. ClauseHolds("budget", ctx, manifest) = ctx.budget_ok
  <2> HIDE DEF ctx, manifest
  <2> QED
    BY DEF ClauseHolds
<1> QED
  BY <1>4, <1>5 DEF Context

(***************************************************************************)
(* What a call past the meter was told by it, and what a call past the     *)
(* outbox did not find there, while calls do not overlap.                  *)
(***************************************************************************)
Informed == {"metered", "peeked"}
Granting == {"authorized", "anchored", "checked", "cleared", "executed"}
Fresh    == {"fresh", "metered", "peeked", "authorized", "anchored", "checked", "cleared"}

Room(c) == PreflightAllows(Sent[c].agent, Sent[c].tokens)

HasRoom == \A c \in Calls :
  /\ pc[c] \in Informed /\ seen[c].budget => Room(c)
  /\ pc[c] \in Granting => Room(c)

IsFresh == \A c \in Calls : pc[c] \in Fresh => Key(c) \notin completed

\* A call that proceeds is in flight, and then no other is.
LEMMA ProceedsAlone ==
  ASSUME OneAtATime, NEW c \in Calls, Proceed(c)
  PROVE  \A d \in Calls \ {c} : pc[d] \in {"idle", "done"}
<1>1. pc[c] \notin {"idle", "done"}
  BY DEF Proceed, Deduplicate, PreflightBudget, PeekApproval, Authorize, PolicyFault,
         AppendIntent, CheckApproval, TakeApproval, Execute, CommitTokens, RecordUsage,
         AppendCompletion, Complete, At
<1> QED
  BY <1>1 DEF OneAtATime, InFlight

\* A call that is received books nothing and is not yet informed.
LEMMA ReceivedHasNone ==
  ASSUME Budgeted, NEW c \in Calls, Receive(c)
  PROVE  /\ UNCHANGED <<used, seen, completed>>
         /\ pc'[c] \in {"masked", "done"} /\ \A d \in Calls \ {c} : pc'[d] = pc[d]
BY DEF Receive, Refuse, Return, Goto, budgetVars, Budgeted

\* The room a call was granted is still there when it is booked.
LEMMA ProceedKeepsRoom ==
  ASSUME Budgeted, OneAtATime, HasRoom, NEW c \in Calls, Proceed(c)
  PROVE  HasRoom'
<1>1. \A d \in Calls \ {c} : pc'[d] \in {"idle", "done"}
  BY ProceedsAlone, CallMoves DEF Budgeted
<1>2. \A d \in Calls \ {c} : pc'[d] \notin Informed \cup Granting
  BY <1>1 DEF Informed, Granting
<1> SUFFICES /\ pc'[c] \in Informed /\ seen'[c].budget => Room(c)'
             /\ pc'[c] \in Granting => Room(c)'
  BY <1>2 DEF HasRoom
<1>3. CASE CommitTokens(c)
  <2>1. pc'[c] = "committed"
    BY <1>3 DEF CommitTokens, Goto, Budgeted
  <2> QED
    BY <2>1 DEF Informed, Granting
<1>4. CASE ~CommitTokens(c)
  <2>1. UNCHANGED used
    BY <1>4
    DEF Proceed, Deduplicate, PreflightBudget, PeekApproval, Authorize, PolicyFault,
        AppendIntent, CheckApproval, TakeApproval, Execute, RecordUsage,
        AppendCompletion, Complete, budgetVars
  <2>2. Room(c)' = Room(c)
    BY <2>1 DEF Room, PreflightAllows
  <2>3. CASE PreflightBudget(c)
    <3>1. pc'[c] \in {"metered", "done"}
      BY <2>3 DEF PreflightBudget, Return, Goto, Budgeted
    <3>2. pc'[c] = "metered" => seen'[c].budget = Room(c)
      BY <2>3 DEF PreflightBudget, Return, Goto, Budgeted, Room
    <3> QED
      BY <2>2, <3>1, <3>2 DEF Informed, Granting
  <2>4. CASE PeekApproval(c)
    <3>1. PICK b : seen' = [seen EXCEPT ![c].approval = b]
      BY <2>4 DEF PeekApproval
    <3>2. pc[c] \in Informed /\ pc'[c] = "peeked" /\ seen'[c].budget = seen[c].budget
      BY <2>4, <3>1 DEF PeekApproval, At, Goto, Budgeted, Informed
    <3> QED
      BY <2>2, <3>2 DEF HasRoom, Granting
  <2>5. CASE Authorize(c)
    <3>1. pc[c] = "peeked" /\ Sent[c].agent \in Agents
      BY <2>5 DEF Authorize, At, Budgeted, Registered
    <3>2. pc'[c] \in {"authorized", "done"}
      BY <2>5 DEF Authorize, Refuse, Return, Goto, Budgeted
    <3>3. pc'[c] = "authorized" => Verdict[c][seen[c]] = "ALLOW"
      BY <2>5 DEF Authorize, Refuse, Return, Goto, Budgeted
    <3>4. Verdict[c][seen[c]] = "ALLOW" => seen[c].budget
      BY <3>1, AllowNeedsBudget DEF Budgeted
    <3>5. pc'[c] = "authorized" => Room(c)
      BY <3>1, <3>3, <3>4 DEF HasRoom, Informed
    <3> QED
      BY <2>2, <3>2, <3>5 DEF Informed, Granting
  <2>6. CASE \/ Deduplicate(c) \/ PolicyFault(c) \/ RecordUsage(c)
             \/ AppendCompletion(c) \/ Complete(c)
    <3>1. pc'[c] \in {"fresh", "done", "settled", "recorded", "unrecorded"}
      BY <2>6
      DEF Deduplicate, PolicyFault, RecordUsage, AppendCompletion, Complete, Refuse,
          Return, Goto, Budgeted
    <3> QED
      BY <3>1 DEF Informed, Granting
  <2>7. CASE AppendIntent(c) \/ CheckApproval(c) \/ TakeApproval(c) \/ Execute(c)
    <3>1. pc[c] \in Granting
      BY <2>7 DEF AppendIntent, CheckApproval, TakeApproval, Execute, At, Granting
    <3>2. pc'[c] \in {"anchored", "checked", "cleared", "executed", "done"}
      BY <2>7
      DEF AppendIntent, CheckApproval, TakeApproval, Execute, Refuse, Return, Goto,
          Budgeted
    <3> QED
      BY <2>2, <3>1, <3>2 DEF HasRoom, Informed
  <2> QED
    BY <1>4, <2>3, <2>4, <2>5, <2>6, <2>7 DEF Proceed
<1> QED
  BY <1>3, <1>4

LEMMA StepKeepsRoom ==
  ASSUME Budgeted, OneAtATime, HasRoom, [Next]_vars
  PROVE  HasRoom'
<1>1. ASSUME NEW c \in Calls, Receive(c) PROVE HasRoom'
  BY <1>1, ReceivedHasNone
  DEF HasRoom, Room, PreflightAllows, Informed, Granting
<1>2. ASSUME NEW a \in Agents, RegisterAgent(a) PROVE HasRoom'
  <2>1. UNCHANGED <<pc, seen>> /\ used' = [used EXCEPT ![a] = 0]
    BY <1>2 DEF RegisterAgent, RegisterMeter, callVars
  <2>2. ASSUME NEW c \in Calls, pc[c] \in Informed \cup Granting, Room(c)
        PROVE  Room(c)'
    <3>1. Sent[c].agent \in Agents /\ Sent[c].tokens \in Nat
      BY <2>2 DEF Budgeted, Registered, Metered, Informed, Granting
    <3>2. /\ used[Sent[c].agent] \in Nat /\ Manifests[Sent[c].agent].cap \in Nat
          /\ used'[Sent[c].agent] \in {used[Sent[c].agent], 0}
      BY <2>1, <3>1, BudgetAssumption DEF Budgeted, BudgetTypeOK, BudgetAssumption
    <3> QED
      BY <2>2, <3>1, <3>2 DEF Room, PreflightAllows
  <2> QED
    BY <2>1, <2>2 DEF HasRoom
<1>3. CASE UNCHANGED <<pc, seen, used>>
  BY <1>3 DEF HasRoom, Room, PreflightAllows
<1> QED
  BY <1>1, <1>2, <1>3, ProceedKeepsRoom
  DEF Next, Review, Contain, vars, callVars, budgetVars

\* A hard cap is never passed by calls that do not overlap, whichever connectors
\* fail and whenever agents are registered again (token_budget.py:14).
THEOREM HardCapHoldsOneAtATime == Spec /\ []OneAtATime => []HardCapHolds
<1>1. Init => Budgeted /\ HasRoom /\ HardCapHolds
  <2>1. Init => HasRoom
    BY DEF Init, HasRoom, Informed, Granting
  <2>2. Init => HardCapHolds
    BY BudgetAssumption DEF Init, BudgetInit, HardCapHolds, BudgetAssumption
  <2> QED
    BY <2>1, <2>2, InitBudgeted
<1>2. Budgeted /\ OneAtATime /\ HasRoom /\ HardCapHolds /\ [Next]_vars
        => Budgeted' /\ HasRoom' /\ HardCapHolds'
  <2> SUFFICES ASSUME Budgeted, OneAtATime, HasRoom, HardCapHolds, [Next]_vars
               PROVE  HardCapHolds'
    BY StepKeepsBudgeted, StepKeepsRoom
  <2>1. ASSUME NEW c \in Calls, CommitTokens(c) PROVE HardCapHolds'
    <3>1. Room(c)
      BY <2>1 DEF CommitTokens, At, HasRoom, Granting
    <3>2. /\ Sent[c].agent \in Agents /\ Sent[c].tokens \in Nat
          /\ used' = [used EXCEPT ![Sent[c].agent] = @ + Sent[c].tokens]
      BY <2>1, BookingTypeOK
    <3>3. ASSUME NEW a \in Agents, Manifests[a].behavior = "hard"
          PROVE  used'[a] <= Manifests[a].cap
      <4>1. /\ used[a] \in Nat /\ Manifests[a].cap \in Nat
            /\ used'[a] = IF a = Sent[c].agent THEN used[a] + Sent[c].tokens ELSE used[a]
        BY <3>2, BudgetAssumption DEF Budgeted, BudgetTypeOK, BudgetAssumption
      <4>2. CASE a = Sent[c].agent
        BY <3>1, <3>2, <3>3, <4>1, <4>2 DEF Room, PreflightAllows
      <4>3. CASE a # Sent[c].agent
        BY <3>3, <4>1, <4>3 DEF HardCapHolds
      <4> QED
        BY <4>2, <4>3
    <3> QED
      BY <3>3 DEF HardCapHolds
  <2>2. ASSUME NEW b \in Agents, RegisterAgent(b) PROVE HardCapHolds'
    BY <2>2, BudgetAssumption
    DEF RegisterAgent, RegisterMeter, Budgeted, BudgetTypeOK, HardCapHolds,
        BudgetAssumption
  <2>3. CASE UNCHANGED budgetVars
    BY <2>3 DEF budgetVars, HardCapHolds
  <2> QED
    BY <2>1, <2>2, <2>3, MeterChanges
<1> QED
  BY <1>1, <1>2, PTL DEF Spec

-----------------------------------------------------------------------------
LEMMA StepKeepsFresh ==
  ASSUME Budgeted, OneAtATime, IsFresh, [Next]_vars
  PROVE  IsFresh'
<1>1. ASSUME NEW c \in Calls, Receive(c) PROVE IsFresh'
  BY <1>1, ReceivedHasNone DEF IsFresh, Fresh, Key
<1>2. ASSUME NEW c \in Calls, Proceed(c) PROVE IsFresh'
  <2>1. \A d \in Calls \ {c} : pc'[d] \in {"idle", "done"}
    BY <1>2, ProceedsAlone, CallMoves DEF Budgeted
  <2>2. \A d \in Calls \ {c} : pc'[d] \notin Fresh
    BY <2>1 DEF Fresh
  <2>3. CASE Deduplicate(c)
    BY <2>2, <2>3 DEF Deduplicate, Return, Goto, Budgeted, IsFresh, Fresh, Key
  <2>4. CASE \/ PreflightBudget(c) \/ PeekApproval(c) \/ Authorize(c) \/ PolicyFault(c)
             \/ AppendIntent(c) \/ CheckApproval(c) \/ TakeApproval(c)
    <3>1. pc[c] \in Fresh /\ completed' = completed
      BY <2>4
      DEF PreflightBudget, PeekApproval, Authorize, PolicyFault, AppendIntent,
          CheckApproval, TakeApproval, At, Fresh
    <3> QED
      BY <2>2, <3>1 DEF IsFresh, Key
  <2>5. CASE \/ Execute(c) \/ CommitTokens(c) \/ RecordUsage(c)
             \/ AppendCompletion(c) \/ Complete(c)
    <3>1. pc'[c] \notin Fresh
      BY <2>5
      DEF Execute, CommitTokens, RecordUsage, AppendCompletion, Complete, Return, Goto,
          Budgeted, Fresh
    <3> QED
      BY <2>2, <3>1 DEF IsFresh
  <2> QED
    BY <1>2, <2>3, <2>4, <2>5 DEF Proceed
<1>3. CASE UNCHANGED <<pc, completed>>
  BY <1>3 DEF IsFresh, Key
<1> QED
  BY <1>1, <1>2, <1>3 DEF Next, Review, Contain, RegisterAgent, vars, callVars

\* A connector starts in a step that executes the call.
LEMMA OnlyExecuteRuns ==
  ASSUME Budgeted, [Next]_vars, NEW c \in Calls, c \in Ran' \ Ran
  PROVE  pc[c] = "cleared"
<1>1. ASSUME NEW d \in Calls, Execute(d) PROVE pc[c] = "cleared"
  BY <1>1 DEF Execute, At, Ran, Budgeted
<1>2. CASE \A d \in Calls : ~Execute(d)
  BY <1>2
  DEF Next, Receive, Proceed, Deduplicate, PreflightBudget, PeekApproval, Authorize,
      PolicyFault, AppendIntent, CheckApproval, TakeApproval, CommitTokens,
      RecordUsage, AppendCompletion, Complete, Review, Contain, RegisterAgent, vars,
      callVars, Ran
<1> QED
  BY <1>1, <1>2

\* No connector, consequential or not, runs for a completed key as long as calls
\* do not overlap (gateway.py:20-21).
THEOREM CompletedKeyNeverRunsOneAtATime ==
  Spec /\ []OneAtATime => CompletedKeyNeverRuns
<1>1. Init => Budgeted /\ IsFresh
  BY InitBudgeted DEF Init, IsFresh, Fresh
<1>2. Budgeted /\ OneAtATime /\ IsFresh /\ [Next]_vars => Budgeted' /\ IsFresh'
  BY StepKeepsBudgeted, StepKeepsFresh
<1>3. Budgeted /\ IsFresh /\ [Next]_vars
        => [\A c \in Calls : c \in Ran' \ Ran => Key(c) \notin completed]_vars
  BY OnlyExecuteRuns DEF IsFresh, Fresh
<1> QED
  BY <1>1, <1>2, <1>3, PTL DEF Spec, CompletedKeyNeverRuns

-----------------------------------------------------------------------------
(***************************************************************************)
(* What is told and what is written.                                       *)
(***************************************************************************)

\* The record accounts for the answer of c.
Accounted(c) ==
  \/ \E decision \in Decisions \ {"INTENT"} : Row(c, decision) \in journal
  \/ answer[c].effect \in {"RAISED", "INDETERMINATE"}
  \/ answer[c].reason \in {"intent_not_durable", "already_completed"}

\* A call about to answer ALLOW has written it, and answers are accounted for.
Accountable ==
  /\ answer = [c \in Calls |-> answer[c]]
  /\ \A c \in Calls : pc[c] = "recorded" => Row(c, "ALLOW") \in journal
  /\ AnsweredOnTheRecord

\* No step takes a row off the file.
LEMMA JournalGrows ==
  ASSUME [Next]_vars
  PROVE  journal \subseteq journal'
<1>1. ASSUME NEW c \in Calls, Receive(c) \/ Proceed(c) PROVE journal \subseteq journal'
  BY <1>1
  DEF Receive, Proceed, Deduplicate, PreflightBudget, PeekApproval, Authorize,
      PolicyFault, AppendIntent, CheckApproval, TakeApproval, Execute, CommitTokens,
      RecordUsage, AppendCompletion, Complete, Refuse, Appends, AppendRaises, auditVars
<1> QED
  BY <1>1 DEF Next, Review, Contain, RegisterAgent, vars, auditVars

\* A step of a call changes what that call is told, and no other.
LEMMA AnswersOwnCaller ==
  ASSUME Budgeted, Accountable, NEW c \in Calls, Receive(c) \/ Proceed(c)
  PROVE  /\ answer' = [d \in Calls |-> answer'[d]]
         /\ \A d \in Calls \ {c} : pc'[d] = pc[d] /\ answer'[d] = answer[d]
<1>1. \A d \in Calls \ {c} : pc'[d] = pc[d]
  BY CallMoves DEF Budgeted
<1>2. \/ answer' = answer
      \/ \E effect, reason : Return(c, effect, reason)
  BY DEF Receive, Proceed, Deduplicate, PreflightBudget, PeekApproval, Authorize,
         PolicyFault, AppendIntent, CheckApproval, TakeApproval, Execute, CommitTokens,
         RecordUsage, AppendCompletion, Complete, Refuse
<1> QED
  BY <1>1, <1>2 DEF Return, Accountable

LEMMA ReturnIsTold ==
  ASSUME Budgeted, Accountable, NEW c \in Calls, NEW effect, NEW reason,
         Return(c, effect, reason)
  PROVE  /\ pc'[c] = "done"
         /\ answer'[c] = [effect |-> effect, reason |-> reason]
BY DEF Return, Goto, Budgeted, Accountable

LEMMA RefusalIsAccounted ==
  ASSUME Budgeted, Accountable, NEW c \in Calls, NEW decision \in Decisions \ {"INTENT"},
         NEW effect, NEW reason, Refuse(c, decision, effect, reason)
  PROVE  pc'[c] = "done" /\ Accounted(c)'
<1>1. CASE Appends(Row(c, decision)) /\ Return(c, effect, reason)
  <2>1. Row(c, decision) \in journal'
    BY <1>1 DEF Appends
  <2> QED
    BY <1>1, <2>1, ReturnIsTold DEF Accounted
<1>2. CASE AppendRaises(Row(c, decision)) /\ Return(c, "RAISED", reason)
  <2>1. pc'[c] = "done" /\ answer'[c] = [effect |-> "RAISED", reason |-> reason]
    BY <1>2 DEF Return, Goto, Budgeted, Accountable
  <2> QED
    BY <2>1 DEF Accounted
<1> QED
  BY <1>1, <1>2 DEF Refuse

\* A step of c accounts for c.
LEMMA CallIsAccounted ==
  ASSUME Budgeted, Accountable, NEW c \in Calls, Receive(c) \/ Proceed(c)
  PROVE  /\ pc'[c] = "recorded" => Row(c, "ALLOW") \in journal'
         /\ pc'[c] = "done" => Accounted(c)'
<1> DEFINE Goal == /\ pc'[c] = "recorded" => Row(c, "ALLOW") \in journal'
                   /\ pc'[c] = "done" => Accounted(c)'
<1>1. ASSUME NEW decision \in Decisions \ {"INTENT"}, NEW effect, NEW reason,
             Refuse(c, decision, effect, reason)
      PROVE  Goal
  BY <1>1, RefusalIsAccounted
<1>2. ASSUME NEW point, point \notin {"recorded", "done"}, Goto(c, point) PROVE Goal
  BY <1>2 DEF Goto, Budgeted
<1>3. ASSUME NEW effect, NEW reason, Return(c, effect, reason),
             \/ effect \in {"RAISED", "INDETERMINATE"}
             \/ reason \in {"intent_not_durable", "already_completed"}
             \/ \E decision \in Decisions \ {"INTENT"} : Row(c, decision) \in journal'
      PROVE  Goal
  <2>1. pc'[c] = "done" /\ answer'[c] = [effect |-> effect, reason |-> reason]
    BY <1>3, ReturnIsTold
  <2>2. Accounted(c)'
    BY <1>3, <2>1 DEF Accounted
  <2> QED
    BY <2>1, <2>2
<1>4. /\ {"DENY", "ERROR", "ALLOW", "APPROVAL_REQUIRED"} \subseteq Decisions \ {"INTENT"}
  BY DEF Decisions
<1>5. CASE Receive(c)
  BY <1>1, <1>2, <1>4, <1>5 DEF Receive
<1>6. CASE Deduplicate(c)
  BY <1>2, <1>3, <1>6 DEF Deduplicate
<1>7. CASE PreflightBudget(c)
  BY <1>2, <1>3, <1>7 DEF PreflightBudget
<1>8. CASE Authorize(c)
  <2>1. Sent[c].agent \in Agents /\ seen[c] \in [budget : BOOLEAN, approval : BOOLEAN]
    BY <1>8 DEF Authorize, At, Budgeted, Registered
  <2>2. Verdict[c][seen[c]] \in {"ALLOW", "DENY", "APPROVAL_REQUIRED"}
    BY <2>1, VerdictIsAnEffect
  <2> QED
    BY <1>1, <1>2, <1>4, <1>8, <2>2 DEF Authorize
<1>9. CASE AppendIntent(c)
  BY <1>2, <1>3, <1>9 DEF AppendIntent
<1>10. CASE CheckApproval(c)
  BY <1>1, <1>2, <1>4, <1>10 DEF CheckApproval
<1>11. CASE AppendCompletion(c)
  <2>1. CASE Appends(Row(c, "ERROR")) /\ Return(c, "DENY", "tool_exec_error")
    BY <1>3, <1>4, <2>1 DEF Appends
  <2>2. CASE Appends(Row(c, "ALLOW")) /\ Goto(c, "recorded")
    BY <2>2 DEF Appends, Goto, Budgeted
  <2> QED
    BY <1>2, <1>3, <1>11, <2>1, <2>2 DEF AppendCompletion
<1>12. CASE Complete(c)
  <2>1. CASE At(c, "recorded") /\ Return(c, "ALLOW", "executed") /\ UNCHANGED journal
    BY <1>3, <1>4, <2>1 DEF At, Accountable
  <2> QED
    BY <1>3, <1>12, <2>1 DEF Complete, auditVars
<1>13. CASE PeekApproval(c) \/ TakeApproval(c) \/ Execute(c) \/ CommitTokens(c) \/ RecordUsage(c)
  BY <1>2, <1>13 DEF PeekApproval, TakeApproval, Execute, CommitTokens, RecordUsage
<1>14. CASE PolicyFault(c)
  BY <1>1, <1>4, <1>14 DEF PolicyFault
<1> QED
  BY <1>5, <1>6, <1>7, <1>8, <1>9, <1>10, <1>11, <1>12, <1>13, <1>14 DEF Proceed

LEMMA StepKeepsAccounts ==
  ASSUME Budgeted, Accountable, [Next]_vars
  PROVE  Accountable'
<1>1. ASSUME NEW c \in Calls, Receive(c) \/ Proceed(c) PROVE Accountable'
  <2>1. answer' = [d \in Calls |-> answer'[d]]
    BY <1>1, AnswersOwnCaller
  <2>2. ASSUME NEW d \in Calls
        PROVE  /\ pc'[d] = "recorded" => Row(d, "ALLOW") \in journal'
               /\ pc'[d] = "done" => Accounted(d)'
    <3>1. CASE d = c
      BY <1>1, <3>1, CallIsAccounted
    <3>2. CASE d # c
      <4>1. pc'[d] = pc[d] /\ answer'[d] = answer[d] /\ journal \subseteq journal'
        BY <1>1, <3>2, AnswersOwnCaller, JournalGrows
      <4> QED
        BY <4>1 DEF Accountable, AnsweredOnTheRecord, Accounted
    <3> QED
      BY <3>1, <3>2
  <2> QED
    BY <2>1, <2>2 DEF Accountable, AnsweredOnTheRecord, Accounted
<1>2. CASE UNCHANGED <<pc, answer>>
  BY <1>2, JournalGrows DEF Accountable, AnsweredOnTheRecord
<1> QED
  BY <1>1, <1>2 DEF Next, Review, Contain, RegisterAgent, vars, callVars

\* Every attempt is on the durable record, whatever fails and however calls
\* overlap, unless its caller was told otherwise (gateway.py:8-9).
THEOREM AnsweredOnTheRecordHolds == Spec => []AnsweredOnTheRecord
<1>1. Init => Budgeted /\ Accountable
  BY InitBudgeted DEF Init, Accountable, AnsweredOnTheRecord
<1>2. Budgeted /\ Accountable /\ [Next]_vars => Budgeted' /\ Accountable'
  BY StepKeepsBudgeted, StepKeepsAccounts
<1>3. Accountable => AnsweredOnTheRecord
  BY DEF Accountable
<1> QED
  BY <1>1, <1>2, <1>3, PTL DEF Spec

\* What CallsAreClosed promises, without its liveness: a call that is over has
\* closed its intent, or its caller knows.
DoneIsClosed == \A c \in Calls : pc[c] = "done" => Closed(c)

\* An intent on the file is of a call past the step that writes it.
IntentsAreAnchored ==
  \A c \in Calls : Row(c, "INTENT") \in journal => pc[c] \in Anchored \cup {"done"}

LEMMA RowsOfOthers ==
  ASSUME NEW c \in Calls, Receive(c) \/ Proceed(c), NEW d \in Calls \ {c}, NEW decision
  PROVE  Row(d, decision) \in journal' <=> Row(d, decision) \in journal
<1>1. \/ journal' = journal
      \/ \E other : journal' = journal \cup {Row(c, other)}
  BY DEF Receive, Proceed, Deduplicate, PreflightBudget, PeekApproval, Authorize,
         PolicyFault, AppendIntent, CheckApproval, TakeApproval, Execute, CommitTokens,
         RecordUsage, AppendCompletion, Complete, Refuse, Appends, AppendRaises, auditVars
<1>2. \A other : Row(d, decision) # Row(c, other)
  BY DEF Row
<1> QED
  BY <1>1, <1>2

\* A step before the intent leaves none, and one after it closes what it ends.
LEMMA CallIsClosed ==
  ASSUME Budgeted, Accountable, IntentsAreAnchored, NEW c \in Calls,
         Receive(c) \/ Proceed(c)
  PROVE  /\ Row(c, "INTENT") \in journal' => pc'[c] \in Anchored \cup {"done"}
         /\ pc'[c] = "done" => Closed(c)'
<1> DEFINE Early == {"idle", "masked", "fresh", "metered", "peeked", "authorized"}
           Goal == /\ Row(c, "INTENT") \in journal' => pc'[c] \in Anchored \cup {"done"}
                   /\ pc'[c] = "done" => Closed(c)'
<1>1. pc[c] \in Early => Row(c, "INTENT") \notin journal
  BY DEF IntentsAreAnchored, Anchored, Metered, Registered
<1>2. ASSUME Row(c, "INTENT") \notin journal' PROVE Goal
  BY <1>2 DEF Closed
<1>3. ASSUME NEW decision, decision # "INTENT", pc[c] \in Early,
             \/ Appends(Row(c, decision)) \/ AppendRaises(Row(c, decision))
             \/ UNCHANGED journal
      PROVE  Goal
  <2>1. Row(c, "INTENT") \notin journal'
    BY <1>1, <1>3 DEF Appends, AppendRaises, Row
  <2> QED
    BY <1>2, <2>1
<1>4. ASSUME NEW point \in Anchored, Goto(c, point) PROVE Goal
  <2>1. pc'[c] = point /\ point # "done"
    BY <1>4 DEF Goto, Budgeted, Anchored, Metered, Registered
  <2> QED
    BY <1>4, <2>1
<1>5. ASSUME NEW effect, NEW reason, Return(c, effect, reason),
             \/ effect \in {"RAISED", "INDETERMINATE"}
             \/ \E decision \in {"ALLOW", "ERROR", "DENY"} : Row(c, decision) \in journal'
      PROVE  Goal
  <2>1. pc'[c] = "done" /\ answer'[c] = [effect |-> effect, reason |-> reason]
    BY <1>5, ReturnIsTold
  <2> QED
    BY <1>5, <2>1 DEF Closed
<1>6. CASE Receive(c) \/ PolicyFault(c)
  BY <1>3, <1>6 DEF Receive, PolicyFault, At, Refuse, auditVars
<1>7. CASE Deduplicate(c) \/ PreflightBudget(c) \/ PeekApproval(c)
  BY <1>3, <1>7 DEF Deduplicate, PreflightBudget, PeekApproval, At, auditVars
<1>8. CASE Authorize(c)
  <2>1. Sent[c].agent \in Agents /\ seen[c] \in [budget : BOOLEAN, approval : BOOLEAN]
    BY <1>8 DEF Authorize, At, Budgeted, Registered
  <2>2. Verdict[c][seen[c]] # "INTENT"
    BY <2>1, VerdictIsAnEffect
  <2> QED
    BY <1>3, <1>8, <2>2 DEF Authorize, At, Refuse, auditVars
<1>9. CASE AppendIntent(c)
  <2>1. CASE AppendRaises(Row(c, "INTENT"))
    BY <1>1, <1>2, <1>9, <2>1 DEF AppendIntent, At, AppendRaises
  <2>2. CASE Goto(c, IF IsConsequential(c) THEN "anchored" ELSE "cleared")
    BY <1>4, <2>2 DEF Anchored, Metered, Registered
  <2> QED
    BY <1>9, <2>1, <2>2 DEF AppendIntent
<1>10. CASE CheckApproval(c)
  <2>1. CASE Refuse(c, "DENY", "DENY", "approval_consume_failed")
    BY <1>5, <2>1 DEF Refuse, Appends
  <2>2. CASE Goto(c, "checked")
    BY <1>4, <2>2 DEF Anchored, Metered, Registered
  <2> QED
    BY <1>10, <2>1, <2>2 DEF CheckApproval
<1>11. CASE TakeApproval(c) \/ Execute(c) \/ CommitTokens(c) \/ RecordUsage(c)
  BY <1>4, <1>11
  DEF TakeApproval, Execute, CommitTokens, RecordUsage, Anchored, Metered, Registered
<1>12. CASE AppendCompletion(c)
  <2>1. CASE Appends(Row(c, "ERROR")) /\ Return(c, "DENY", "tool_exec_error")
    BY <1>5, <2>1 DEF Appends
  <2>2. CASE Goto(c, "recorded") \/ Goto(c, "unrecorded")
    BY <1>4, <2>2 DEF Anchored, Metered, Registered
  <2>3. CASE Return(c, "INDETERMINATE", "reconciliation_required")
    BY <1>5, <2>3
  <2> QED
    BY <1>12, <2>1, <2>2, <2>3 DEF AppendCompletion
<1>13. CASE Complete(c)
  <2>1. CASE At(c, "recorded") /\ Return(c, "ALLOW", "executed") /\ UNCHANGED journal
    BY <1>5, <2>1 DEF At, Accountable
  <2>2. CASE Return(c, "INDETERMINATE", "reconciliation_required")
    BY <1>5, <2>2
  <2> QED
    BY <1>13, <2>1, <2>2 DEF Complete, auditVars
<1> QED
  BY <1>6, <1>7, <1>8, <1>9, <1>10, <1>11, <1>12, <1>13 DEF Proceed

\* No call ends with its intent open unless its caller was told to reconcile or
\* got the audit's own exception, whatever fails on the way (gateway.py:330-455).
THEOREM DoneIsClosedHolds == Spec => []DoneIsClosed
<1> DEFINE Inv == Budgeted /\ Accountable /\ IntentsAreAnchored /\ DoneIsClosed
<1>1. Init => Inv
  BY InitBudgeted
  DEF Init, AuditInit, Accountable, AnsweredOnTheRecord, IntentsAreAnchored, DoneIsClosed
<1>2. Inv /\ [Next]_vars => Inv'
  <2> SUFFICES ASSUME Inv, [Next]_vars PROVE IntentsAreAnchored' /\ DoneIsClosed'
    BY StepKeepsBudgeted, StepKeepsAccounts
  <2>1. ASSUME NEW c \in Calls, Receive(c) \/ Proceed(c)
        PROVE  IntentsAreAnchored' /\ DoneIsClosed'
    <3>1. ASSUME NEW d \in Calls
          PROVE  /\ Row(d, "INTENT") \in journal' => pc'[d] \in Anchored \cup {"done"}
                 /\ pc'[d] = "done" => Closed(d)'
      <4>1. CASE d = c
        BY <2>1, <4>1, CallIsClosed
      <4>2. CASE d # c
        <5>1. pc'[d] = pc[d] /\ answer'[d] = answer[d]
          BY <2>1, <4>2, AnswersOwnCaller
        <5>2. \A decision : Row(d, decision) \in journal' <=> Row(d, decision) \in journal
          BY <2>1, <4>2, RowsOfOthers
        <5> QED
          BY <5>1, <5>2 DEF IntentsAreAnchored, DoneIsClosed, Closed
      <4> QED
        BY <4>1, <4>2
    <3> QED
      BY <3>1 DEF IntentsAreAnchored, DoneIsClosed
  <2>2. CASE UNCHANGED <<pc, answer, journal>>
    BY <2>2 DEF IntentsAreAnchored, DoneIsClosed, Closed
  <2> QED
    BY <2>1, <2>2 DEF Next, Review, Contain, RegisterAgent, vars, callVars, auditVars
<1>3. Inv => DoneIsClosed
  OBVIOUS
<1> QED
  BY <1>1, <1>2, <1>3, PTL DEF Spec

-----------------------------------------------------------------------------
(***************************************************************************)
(* The meter and the bill.                                                 *)
(***************************************************************************)
Billed == {"settled", "recorded", "unrecorded", "done"}

\* What the books rest on: a finite number of calls has begun, and one that is
\* billed is past its booking.
Booked ==
  /\ IsFiniteSet(Started)
  /\ usage \subseteq Calls
  /\ \A c \in usage : pc[c] \in Billed
  /\ UsageMatchesMeter

LEMMA SpendersAreFinite ==
  ASSUME Budgeted, Booked, NEW a \in Agents
  PROVE  IsFiniteSet(Spenders(a)) /\ Spenders(a) \subseteq Calls
<1>1. Spenders(a) \subseteq Started
  BY DEF Spenders, Booked, Billed, Started
<1> QED
  BY <1>1, FS_Subset DEF Booked, Started

\* One call at most begins in a step.
LEMMA FewBegin ==
  ASSUME Budgeted, Booked, [Next]_vars
  PROVE  IsFiniteSet(Started)'
<1>1. ASSUME NEW c \in Calls, \A d \in Calls \ {c} : pc'[d] = pc[d]
      PROVE  IsFiniteSet(Started)'
  <2>1. Started' \subseteq Started \cup {c}
    BY <1>1 DEF Started
  <2>2. IsFiniteSet(Started \cup {c})
    BY FS_AddElement DEF Booked
  <2> QED
    BY <2>1, <2>2, FS_Subset
<1>2. ASSUME NEW c \in Calls, Receive(c) \/ Proceed(c) PROVE IsFiniteSet(Started)'
  BY <1>1, <1>2, CallMoves DEF Budgeted
<1>3. CASE UNCHANGED pc
  BY <1>3 DEF Booked, Started
<1> QED
  BY <1>2, <1>3 DEF Next, Review, Contain, RegisterAgent, vars, callVars

\* A booking adds the call's spend to both sides.
LEMMA BookingMatches ==
  ASSUME Budgeted, Booked, NEW c \in Calls, CommitTokens(c)
  PROVE  UsageMatchesMeter'
<1> DEFINE agent == Sent[c].agent
           spend == [d \in Calls |-> Sent[d].tokens]
<1>1. /\ agent \in Agents /\ Sent[c].tokens \in Nat
      /\ used' = [used EXCEPT ![agent] = @ + Sent[c].tokens]
  BY BookingTypeOK
<1>2. /\ pc[c] = "executed" /\ usage' = usage
      /\ pc'[c] = "committed" /\ \A d \in Calls \ {c} : pc'[d] = pc[d]
  BY DEF CommitTokens, At, Goto, Budgeted
<1>3. c \notin Spenders(agent)
  BY <1>2 DEF Spenders, Booked, Billed
<1>4. \A a \in Agents : Spenders(a)' = IF a = agent THEN Spenders(a) \cup {c} ELSE Spenders(a)
  BY <1>2 DEF Spenders
<1>5. \A d \in Calls : spend[d] \in Int
  BY GatewayAssumption DEF GatewayAssumption
<1> SUFFICES ASSUME NEW a \in Agents
             PROVE  used'[a] = SumFunctionOnSet(spend, Spenders(a)')
  BY DEF UsageMatchesMeter, Tokens
<1>6. used[a] = SumFunctionOnSet(spend, Spenders(a))
  BY DEF Booked, UsageMatchesMeter, Tokens
<1>7. CASE a = agent
  <2>1. IsFiniteSet(Spenders(a)) /\ Spenders(a) \subseteq Calls
    BY SpendersAreFinite
  <2>2. spend[c] = Sent[c].tokens
    OBVIOUS
  <2> HIDE DEF spend, agent
  <2>3. SumFunctionOnSet(spend, Spenders(a) \cup {c})
          = SumFunctionOnSet(spend, Spenders(a)) + spend[c]
    BY <1>3, <1>5, <1>7, <2>1, SumAdds
  <2> QED
    BY <1>1, <1>4, <1>6, <1>7, <2>2, <2>3 DEF Budgeted, BudgetTypeOK
<1>8. CASE a # agent
  BY <1>1, <1>4, <1>6, <1>8 DEF Budgeted, BudgetTypeOK
<1> QED
  BY <1>7, <1>8

\* A step that books and bills nothing.
LEMMA OthersMatch ==
  ASSUME Budgeted, Booked, UNCHANGED <<used, usage>>,
         \A d \in Calls : pc'[d] = "committed" <=> pc[d] = "committed"
  PROVE  UsageMatchesMeter'
<1>1. \A a \in Agents : Spenders(a)' = Spenders(a)
  BY DEF Spenders
<1> QED
  BY <1>1 DEF Booked, UsageMatchesMeter, Tokens

LEMMA CallKeepsBooks ==
  ASSUME Budgeted, Booked, NEW c \in Calls, Receive(c) \/ Proceed(c)
  PROVE  /\ usage' \subseteq Calls
         /\ \A d \in usage' : pc'[d] \in Billed
         /\ UsageMatchesMeter'
<1>1. \A d \in Calls \ {c} : pc'[d] = pc[d]
  BY CallMoves DEF Budgeted
<1>2. CASE CommitTokens(c)
  <2>1. usage' = usage /\ c \notin usage
    BY <1>2 DEF CommitTokens, At, Booked, Billed
  <2> QED
    BY <1>1, <1>2, <2>1, BookingMatches DEF Booked
<1>3. CASE RecordUsage(c)
  <2>1. /\ pc[c] = "committed" /\ pc'[c] = "settled"
        /\ usage' = usage \cup {c} /\ used' = used
    BY <1>3 DEF RecordUsage, At, Goto, Budgeted, budgetVars
  <2>2. \A a \in Agents : Spenders(a)' = Spenders(a)
    BY <1>1, <2>1 DEF Spenders
  <2>3. UsageMatchesMeter'
    BY <2>1, <2>2 DEF Booked, UsageMatchesMeter, Tokens
  <2> QED
    BY <1>1, <2>1, <2>3 DEF Booked, Billed
<1>4. CASE ~CommitTokens(c) /\ ~RecordUsage(c)
  <2>1. UNCHANGED <<used, usage>>
    BY <1>4
    DEF Receive, Proceed, Deduplicate, PreflightBudget, PeekApproval, Authorize,
        PolicyFault, AppendIntent, CheckApproval, TakeApproval, Execute,
        AppendCompletion, Complete, budgetVars
  <2>2. pc[c] # "committed" /\ pc'[c] # "committed"
    BY <1>4
    DEF Receive, Proceed, Deduplicate, PreflightBudget, PeekApproval, Authorize,
        PolicyFault, AppendIntent, CheckApproval, TakeApproval, Execute,
        AppendCompletion, Complete, At, Refuse, Return, Goto, Budgeted
  <2>3. pc[c] \in Billed => pc'[c] \in Billed
    BY <1>4
    DEF Receive, Proceed, Deduplicate, PreflightBudget, PeekApproval, Authorize,
        PolicyFault, AppendIntent, CheckApproval, TakeApproval, Execute,
        AppendCompletion, Complete, At, Refuse, Return, Goto, Budgeted, Billed
  <2>4. UsageMatchesMeter'
    BY <1>1, <2>1, <2>2, OthersMatch
  <2> QED
    BY <1>1, <2>1, <2>3, <2>4 DEF Booked
<1> QED
  BY <1>2, <1>3, <1>4

\* No spend is billed and not metered, or metered and not billed, however calls
\* overlap and end (gateway.py:385-411); a new registration starts a new meter,
\* so none may happen.
THEOREM UsageMatchesMeterHolds ==
  ASSUME Reregister = FALSE
  PROVE  Spec => []UsageMatchesMeter
<1>1. Init => Budgeted /\ Booked
  <2> SUFFICES ASSUME Init PROVE Booked
    BY InitBudgeted
  <2>1. Started = {} /\ usage = {} /\ \A a \in Agents : Spenders(a) = {}
    BY DEF Init, Started, Spenders
  <2>2. UsageMatchesMeter
    BY <2>1, SumOfNone DEF Init, BudgetInit, UsageMatchesMeter, Tokens
  <2> QED
    BY <2>1, <2>2, FS_EmptySet DEF Booked
<1>2. Budgeted /\ Booked /\ [Next]_vars => Budgeted' /\ Booked'
  <2> SUFFICES ASSUME Budgeted, Booked, [Next]_vars PROVE Booked'
    BY StepKeepsBudgeted
  <2>1. IsFiniteSet(Started)'
    BY FewBegin
  <2>2. ASSUME NEW c \in Calls, Receive(c) \/ Proceed(c) PROVE Booked'
    BY <2>1, <2>2, CallKeepsBooks DEF Booked
  <2>3. CASE UNCHANGED <<pc, used, usage>>
    BY <2>1, <2>3, OthersMatch DEF Booked
  <2> QED
    BY <2>2, <2>3
    DEF Next, Review, Contain, RegisterAgent, vars, callVars, budgetVars
<1>3. Booked => UsageMatchesMeter
  BY DEF Booked
<1> QED
  BY <1>1, <1>2, <1>3, PTL DEF Spec

-----------------------------------------------------------------------------
(***************************************************************************)
(* The kill switch and the calls it contains.                              *)
(***************************************************************************)

\* The engaged switch remembers who engaged it last, and its history agrees.
SwitchLineage ==
  /\ history \in Seq(Change)
  /\ engaged => /\ history # <<>>
                /\ history[Len(history)].action = "ENGAGE"
                /\ history[Len(history)].actor = engagedBy
  /\ ReleasedByAnother

\* While the switch is engaged, what is in flight was in flight when it was.
Contained ==
  /\ pc \in [Calls -> Points]
  /\ outcome \in [Calls -> Outcomes]
  /\ engaged => InFlight \subseteq caught

LEMMA LogAppends ==
  ASSUME SwitchLineage, NEW action \in {"ENGAGE", "DISENGAGE"}, NEW actor \in Operators,
         Log(action, actor)
  PROVE  /\ history' \in Seq(Change)
         /\ Len(history') = Len(history) + 1
         /\ history'[Len(history) + 1].action = action
         /\ history'[Len(history) + 1].actor = actor
         /\ \A i \in 1 .. Len(history) : history'[i] = history[i]
<1>1. [action |-> action, actor |-> actor] \in Change
  BY DEF Change
<1> QED
  BY <1>1 DEF Log, SwitchLineage

LEMMA ContainKeepsSwitch ==
  ASSUME SwitchLineage, Contain
  PROVE  SwitchLineage'
<1>1. PICK actor \in Operators : Engage(actor) \/ Disengage(actor)
  BY DEF Contain
<1>2. CASE Engage(actor)
  <2>1. Log("ENGAGE", actor) /\ engaged' /\ engagedBy' = actor
    BY <1>2 DEF Engage
  <2>2. ReleasedByAnother'
    BY <2>1, LogAppends DEF SwitchLineage, ReleasedByAnother
  <2> QED
    BY <2>1, <2>2, LogAppends DEF SwitchLineage
<1>3. CASE Disengage(actor)
  <2>1. Log("DISENGAGE", actor) /\ ~engaged' /\ engaged /\ actor # engagedBy
    BY <1>3 DEF Disengage
  <2>2. ReleasedByAnother'
    <3> SUFFICES ASSUME NEW i \in 2 .. Len(history'), history'[i].action = "DISENGAGE"
                 PROVE  /\ history'[i - 1].action = "ENGAGE"
                        /\ history'[i - 1].actor # history'[i].actor
      BY DEF ReleasedByAnother
    <3>1. Len(history') = Len(history) + 1 /\ Len(history) \in Nat
      BY <2>1, LogAppends DEF SwitchLineage
    <3>2. CASE i = Len(history) + 1
      BY <2>1, <3>1, <3>2, LogAppends DEF SwitchLineage
    <3>3. CASE i # Len(history) + 1
      <4>1. i \in 2 .. Len(history) /\ i - 1 \in 1 .. Len(history)
        BY <3>1, <3>3
      <4>2. history'[i] = history[i] /\ history'[i - 1] = history[i - 1]
        BY <2>1, <4>1, LogAppends
      <4> QED
        BY <4>1, <4>2 DEF SwitchLineage, ReleasedByAnother
    <3> QED
      BY <3>2, <3>3
  <2> QED
    BY <2>1, <2>2, LogAppends DEF SwitchLineage
<1> QED
  BY <1>1, <1>2, <1>3

\* Only Contain touches the switch.
LEMMA OthersKeepSwitch ==
  ASSUME [Next]_vars, ~Contain
  PROVE  UNCHANGED switchVars
<1>1. ASSUME NEW c \in Calls, Receive(c) \/ Proceed(c) PROVE UNCHANGED switchVars
  BY <1>1
  DEF Receive, Proceed, Deduplicate, PreflightBudget, PeekApproval, Authorize,
      PolicyFault, AppendIntent, CheckApproval, TakeApproval, Execute,
      CommitTokens, RecordUsage, AppendCompletion, Complete
<1> QED
  BY <1>1 DEF Next, Review, RegisterAgent, vars

\* Whoever engaged last is not the one to release (kill_switch.py:13-14).
THEOREM ReleasedByAnotherHolds == Spec => []ReleasedByAnother
<1>1. Init => SwitchLineage
  BY DEF Init, SwitchInit, SwitchLineage, ReleasedByAnother
<1>2. SwitchLineage /\ [Next]_vars => SwitchLineage'
  <2> SUFFICES ASSUME SwitchLineage, [Next]_vars PROVE SwitchLineage'
    OBVIOUS
  <2>1. CASE Contain
    BY <2>1, ContainKeepsSwitch
  <2>2. CASE ~Contain
    BY <2>2, OthersKeepSwitch DEF switchVars, SwitchLineage, ReleasedByAnother
  <2> QED
    BY <2>1, <2>2
<1>3. SwitchLineage => ReleasedByAnother
  BY DEF SwitchLineage
<1> QED
  BY <1>1, <1>2, <1>3, PTL DEF Spec

-----------------------------------------------------------------------------
\* A step of a call leaves the other calls where they are; it gets in flight only
\* when it is received, and only while the switch is off.
LEMMA CallStep ==
  ASSUME Contained, NEW c \in Calls, Receive(c) \/ Proceed(c)
  PROVE  /\ pc' \in [Calls -> Points]
         /\ outcome' \in [Calls -> Outcomes]
         /\ engaged => InFlight' \subseteq InFlight
         /\ UNCHANGED <<engaged, caught>>
<1>1. UNCHANGED <<engaged, caught>>
  BY DEF Receive, Proceed, Deduplicate, PreflightBudget, PeekApproval, Authorize,
         PolicyFault, AppendIntent, CheckApproval, TakeApproval, Execute,
         CommitTokens, RecordUsage, AppendCompletion, Complete, switchVars
<1>2. PICK point \in Points : pc' = [pc EXCEPT ![c] = point]
  <2>1. CASE Receive(c)
    BY <2>1 DEF Receive, Refuse, Return, Goto, Points
  <2>2. CASE Proceed(c)
    BY <2>2
    DEF Proceed, Deduplicate, PreflightBudget, PeekApproval, Authorize, PolicyFault,
        AppendIntent, CheckApproval, TakeApproval, Execute,
        CommitTokens, RecordUsage, AppendCompletion, Complete, Refuse, Return, Goto, Points
  <2> QED
    BY <2>1, <2>2
<1>3. outcome' \in [Calls -> Outcomes]
  BY GatewayAssumption
  DEF GatewayAssumption, Receive, Proceed, Deduplicate, PreflightBudget, PeekApproval,
      Authorize, PolicyFault, AppendIntent, CheckApproval, TakeApproval, Execute,
      CommitTokens, RecordUsage, AppendCompletion, Complete, Contained, Outcomes
<1>4. CASE Proceed(c)
  <2>1. pc[c] \notin {"idle", "done"}
    BY <1>4
    DEF Proceed, Deduplicate, PreflightBudget, PeekApproval, Authorize, PolicyFault,
        AppendIntent, CheckApproval, TakeApproval, Execute,
        CommitTokens, RecordUsage, AppendCompletion, Complete, At
  <2> QED
    BY <1>1, <1>2, <1>3, <2>1 DEF Contained, InFlight
<1>5. CASE Receive(c)
  <2>1. engaged => pc' = [pc EXCEPT ![c] = "done"]
    BY <1>5 DEF Receive, Refuse, Return, Goto
  <2> QED
    BY <1>1, <1>2, <1>3, <2>1 DEF Contained, InFlight
<1> QED
  BY <1>4, <1>5

\* While the switch is engaged no connector runs, save for the calls that were
\* past the check when it was engaged (kill_switch.py:3-6).
THEOREM OnlyCaughtCallsRunHolds == Spec => OnlyCaughtCallsRun
<1>1. Init => Contained
  BY DEF Init, SwitchInit, Contained, Points, Outcomes
<1>2. Contained /\ [Next]_vars => Contained'
  <2> SUFFICES ASSUME Contained, [Next]_vars PROVE Contained'
    OBVIOUS
  <2>1. ASSUME NEW c \in Calls, Receive(c) \/ Proceed(c) PROVE Contained'
    BY <2>1, CallStep DEF Contained
  <2>2. CASE Contain
    BY <2>2 DEF Contain, Engage, Disengage, Contained, InFlight
  <2>3. CASE Review \/ (\E a \in Agents : RegisterAgent(a)) \/ UNCHANGED vars
    BY <2>3
    DEF Review, RegisterAgent, vars, switchVars, callVars, Contained, InFlight
  <2> QED
    BY <2>1, <2>2, <2>3 DEF Next
<1>3. Contained /\ [Next]_vars => [engaged => Ran' \ Ran \subseteq caught]_vars
  <2> SUFFICES ASSUME Contained, Next, engaged PROVE Ran' \ Ran \subseteq caught
    OBVIOUS
  <2>1. ASSUME NEW c \in Calls, Execute(c) PROVE Ran' \ Ran \subseteq caught
    <3>1. c \in caught
      BY <2>1 DEF Execute, At, Contained, InFlight
    <3>2. \A d \in Calls \ {c} : outcome'[d] = outcome[d]
      BY <2>1 DEF Execute, Contained
    <3> QED
      BY <3>1, <3>2 DEF Ran
  <2>2. CASE \A c \in Calls : ~Execute(c)
    <3>1. outcome' = outcome
      BY <2>2
      DEF Next, Receive, Proceed, Deduplicate, PreflightBudget, PeekApproval, Authorize,
          PolicyFault, AppendIntent, CheckApproval, TakeApproval, CommitTokens,
          RecordUsage, AppendCompletion, Complete, Review, Contain, RegisterAgent, callVars
    <3> QED
      BY <3>1 DEF Ran
  <2> QED
    BY <2>1, <2>2
<1> QED
  BY <1>1, <1>2, <1>3, PTL DEF Spec, OnlyCaughtCallsRun

-----------------------------------------------------------------------------
(***************************************************************************)
(* How far a call is from its end: the most steps it can still take.       *)
(***************************************************************************)
StepsLeft(c) ==
  CASE pc[c] = "idle"       -> 13
    [] pc[c] = "masked"     -> 12
    [] pc[c] = "fresh"      -> 11
    [] pc[c] = "metered"    -> 10
    [] pc[c] = "peeked"     -> 9
    [] pc[c] = "authorized" -> 8
    [] pc[c] = "anchored"   -> 7
    [] pc[c] = "checked"    -> 6
    [] pc[c] = "cleared"    -> 5
    [] pc[c] = "executed"   -> 4
    [] pc[c] = "committed"  -> 3
    [] pc[c] = "settled"    -> 2
    [] pc[c] \in {"recorded", "unrecorded"} -> 1
    [] pc[c] = "done"       -> 0

\* A call never goes back or round: its own step, the one fairness is asked of,
\* takes it nearer its end, and no step of anyone else takes it further away.
CallsAdvance ==
  [][\A c \in Calls : /\ Proceed(c) => StepsLeft(c)' < StepsLeft(c)
                      /\ StepsLeft(c)' <= StepsLeft(c)]_vars

LEMMA StepAdvances ==
  ASSUME pc \in [Calls -> Points], NEW c \in Calls, Receive(c) \/ Proceed(c)
  PROVE  /\ StepsLeft(c)' < StepsLeft(c)
         /\ \A d \in Calls \ {c} : pc'[d] = pc[d]
<1>1. \A point : pc' = [pc EXCEPT ![c] = point] =>
        pc'[c] = point /\ \A d \in Calls \ {c} : pc'[d] = pc[d]
  OBVIOUS
<1>2. CASE Receive(c)
  BY <1>1, <1>2 DEF Receive, At, Refuse, Return, Goto, StepsLeft
<1>3. CASE Deduplicate(c) \/ PreflightBudget(c) \/ PeekApproval(c)
  BY <1>1, <1>3 DEF Deduplicate, PreflightBudget, PeekApproval, At, Return, Goto, StepsLeft
<1>4. CASE Authorize(c) \/ PolicyFault(c)
  BY <1>1, <1>4 DEF Authorize, PolicyFault, At, Refuse, Return, Goto, StepsLeft
<1>5. CASE AppendIntent(c)
  BY <1>1, <1>5 DEF AppendIntent, At, Return, Goto, StepsLeft
<1>6. CASE CheckApproval(c) \/ TakeApproval(c)
  BY <1>1, <1>6 DEF CheckApproval, TakeApproval, At, Refuse, Return, Goto, StepsLeft
<1>7. CASE Execute(c) \/ CommitTokens(c) \/ RecordUsage(c)
  BY <1>1, <1>7 DEF Execute, CommitTokens, RecordUsage, At, Goto, StepsLeft
<1>8. CASE AppendCompletion(c) \/ Complete(c)
  BY <1>1, <1>8 DEF AppendCompletion, Complete, At, Return, Goto, StepsLeft
<1> QED
  BY <1>2, <1>3, <1>4, <1>5, <1>6, <1>7, <1>8 DEF Proceed

\* A call takes at most thirteen steps, and each is one nearer its answer: there is
\* no loop and no retry in call() (gateway.py:155-455).
THEOREM CallsAdvanceHolds == Spec => CallsAdvance
<1> DEFINE Placed == pc \in [Calls -> Points]
<1>1. Init => Placed
  BY DEF Init, Points
<1>2. Placed /\ [Next]_vars => Placed'
  <2> SUFFICES ASSUME Placed, [Next]_vars PROVE Placed'
    OBVIOUS
  <2>1. ASSUME NEW c \in Calls, Receive(c) \/ Proceed(c) PROVE Placed'
    <3>1. CASE Receive(c)
      BY <3>1 DEF Receive, Refuse, Return, Goto, Points
    <3>2. CASE Proceed(c)
      BY <3>2
      DEF Proceed, Deduplicate, PreflightBudget, PeekApproval, Authorize, PolicyFault,
          AppendIntent, CheckApproval, TakeApproval, Execute, CommitTokens, RecordUsage,
          AppendCompletion, Complete, Refuse, Return, Goto, Points
    <3> QED
      BY <2>1, <3>1, <3>2
  <2>2. CASE UNCHANGED pc
    BY <2>2
  <2> QED
    BY <2>1, <2>2 DEF Next, Review, Contain, RegisterAgent, callVars, vars
<1>3. Placed /\ [Next]_vars =>
        [\A c \in Calls : /\ Proceed(c) => StepsLeft(c)' < StepsLeft(c)
                          /\ StepsLeft(c)' <= StepsLeft(c)]_vars
  <2> SUFFICES ASSUME Placed, Next, NEW c \in Calls
               PROVE  /\ Proceed(c) => StepsLeft(c)' < StepsLeft(c)
                      /\ StepsLeft(c)' <= StepsLeft(c)
    OBVIOUS
  <2>1. StepsLeft(c) \in Nat
    BY DEF Points, StepsLeft
  <2>2. pc'[c] = pc[c] => StepsLeft(c)' = StepsLeft(c)
    BY DEF StepsLeft
  <2>3. StepsLeft(c)' < StepsLeft(c) => StepsLeft(c)' <= StepsLeft(c)
    BY <1>2, <2>1 DEF StepsLeft, Points
  <2>4. StepsLeft(c)' <= StepsLeft(c)
    <3>1. ASSUME NEW d \in Calls, Receive(d) \/ Proceed(d) PROVE pc'[c] = pc[c] \/ d = c
      BY <3>1, StepAdvances
    <3>2. CASE Receive(c) \/ Proceed(c)
      BY <2>3, <3>2, StepAdvances
    <3>3. CASE pc'[c] = pc[c]
      BY <2>1, <2>2, <3>3
    <3> QED
      BY <3>1, <3>2, <3>3 DEF Next, Review, Contain, RegisterAgent, callVars
  <2> QED
    BY <2>4, StepAdvances
<1> QED
  BY <1>1, <1>2, <1>3, PTL DEF Spec, CallsAdvance

=============================================================================
