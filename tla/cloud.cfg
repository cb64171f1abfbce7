SPECIFICATION Spec
CONSTANTS
  Invocations = {"q1", "q2", "q3"}
  Event <- MCEvent
  Containers = {"c1", "c2"}
  SwitchTtl = 2
  Configured = {"c1"}
  MaxClock = 3
  Reservations = {"none", "some", "more", "over", "bad"}
  Want <- MCWant
  Cap = 4
  MaxResends = 1
  ResponseLost = TRUE
CHECK_DEADLOCK FALSE
INVARIANTS
  SwitchHoldsWithinTtl
  AnsweredByItsRow
  OnlyTheFirstMayPassTheCap
  AllowedIsCharged
