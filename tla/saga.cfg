SPECIFICATION FairSpec
CONSTANTS
  Sagas = {"first", "retry", "apart"}
  Keys = {"k1", "k2"}
  Input <- MCInput
  NoTicket = NoTicket
  KeyTtl = 1
  MaxTime = 2
  MaxDeaths = 2
CHECK_DEADLOCK FALSE
INVARIANTS
  OneTicketPerClaim
  NamedTicketsExist
  RollbackIsComplete
PROPERTY
  FailureIsCompensated
