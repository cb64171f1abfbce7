----------------------------- MODULE TokenBudget -----------------------------
(***************************************************************************)
(* The in-process token meter (platform_core/token_budget.py): one         *)
(* BudgetMeter per registered agent, checked by preflight() before a spend *)
(* and advanced by commit() after it.                                      *)
(***************************************************************************)
EXTENDS Integers

CONSTANTS
  Manifests,    \* [registered agent -> manifest]; the budget line is .cap, .behavior
  Thresholds    \* alert_thresholds, in percent of the cap

VARIABLES
  used,         \* [agent -> BudgetMeter.used]
  alertsFired   \* [agent -> BudgetMeter._alerts_fired]

budgetVars == <<used, alertsFired>>

Agents == DOMAIN Manifests

\* What the manifest schema asks of a budget line.
BudgetAssumption ==
  /\ Thresholds \subseteq 1 .. 100
  /\ \A a \in Agents : /\ Manifests[a].cap \in Nat \ {0}
                       /\ Manifests[a].behavior \in {"hard", "soft"}

ASSUME BudgetAssumption

BudgetTypeOK ==
  /\ used \in [Agents -> Nat]
  /\ alertsFired \in [Agents -> SUBSET Thresholds]

BudgetInit ==
  /\ used = [a \in Agents |-> 0]
  /\ alertsFired = [a \in Agents |-> {}]

\* Variant: the test forgets the spend it is asked about.
PreflightAllows_IgnoresRequest(a, n) ==
  used[a] > Manifests[a].cap => Manifests[a].behavior = "soft"

\* preflight(): whether a spend of n may proceed; the meter is only read.
PreflightAllows(a, n) ==
  used[a] + n > Manifests[a].cap => Manifests[a].behavior = "soft"

\* _peek_alerts(): the thresholds a level reaches.
Reached(a, level) == {t \in Thresholds : level * 100 >= t * Manifests[a].cap}

\* Variant: the meter counts down.
CommitSpend_Downwards(a, n) ==
  /\ used' = [used EXCEPT ![a] = @ - n]
  /\ UNCHANGED alertsFired

\* commit(): the spend, and the alerts it newly crosses.
CommitSpend(a, n) ==
  /\ used' = [used EXCEPT ![a] = @ + n]
  /\ alertsFired' = [alertsFired EXCEPT ![a] = @ \cup Reached(a, used[a] + n)]

\* Variant: a new registration keeps the alerts of the meter it replaces.
RegisterMeter_KeepsAlerts(a) ==
  /\ used' = [used EXCEPT ![a] = 0]
  /\ UNCHANGED alertsFired

\* register_from_manifest(): a fresh meter replaces the agent's meter.
RegisterMeter(a) ==
  /\ used' = [used EXCEPT ![a] = 0]
  /\ alertsFired' = [alertsFired EXCEPT ![a] = {}]
=============================================================================
