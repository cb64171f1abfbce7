----------------------------- MODULE KillSwitch -----------------------------
(***************************************************************************)
(* The platform containment switch (platform_core/kill_switch.py).         *)
(*                                                                         *)
(* _zero_budgets() looks up "zero_all" on the budget registry; the         *)
(* registry has no such method, so the lookup yields None and engaging     *)
(* leaves every meter as it was.  A state change takes effect whether or   *)
(* not its audit row could be written, and nothing reads the row back, so  *)
(* the row is left out: history is the list the switch itself keeps.       *)
(***************************************************************************)
EXTENDS Naturals, Sequences

CONSTANTS
  Operators,    \* identities that may engage or disengage
  NoOperator,   \* the empty _engaged_by field
  MaxChanges    \* bound on the number of state changes

VARIABLES
  engaged,      \* _engaged
  engagedBy,    \* _engaged_by
  history       \* sequence of [action, actor]

switchVars == <<engaged, engagedBy, history>>

SwitchAssumption == NoOperator \notin Operators /\ MaxChanges \in Nat

ASSUME SwitchAssumption

Change == [action : {"ENGAGE", "DISENGAGE"}, actor : Operators]

SwitchTypeOK ==
  /\ engaged \in BOOLEAN
  /\ engagedBy \in Operators \cup {NoOperator}
  /\ history \in Seq(Change)

SwitchInit ==
  /\ engaged = FALSE
  /\ engagedBy = NoOperator
  /\ history = <<>>

Log(action, actor) ==
  /\ Len(history) < MaxChanges
  /\ history' = Append(history, [action |-> action, actor |-> actor])

\* engage(): idempotent; the latest engaging actor replaces the earlier one.
Engage(actor) ==
  /\ engaged' = TRUE
  /\ engagedBy' = actor
  /\ Log("ENGAGE", actor)

\* Variant: anyone may release.
Disengage_ByAnyone(actor) ==
  /\ engaged
  /\ engaged' = FALSE
  /\ engagedBy' = NoOperator
  /\ Log("DISENGAGE", actor)

\* disengage(): refused to the recorded engaging actor.
Disengage(actor) ==
  /\ engaged
  /\ actor # engagedBy
  /\ engaged' = FALSE
  /\ engagedBy' = NoOperator
  /\ Log("DISENGAGE", actor)

SwitchStep == \E actor \in Operators : Engage(actor) \/ Disengage(actor)
=============================================================================
