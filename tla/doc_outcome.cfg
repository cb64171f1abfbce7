SPECIFICATION Spec
CONSTANTS
  AllowedPurposes = {"policy_search", "draft_response", "decision_support"}
  ConsentClasses = {"edu"}
  GovCloudClasses = {"fti"}
  GovCloudRegions = {"gov"}
  Requests = {"r1"}
  Filed <- MCFiled
  Attempts = {"sup", "retry", "self", "clerk", "blank", "clerk2"}
  Reviews <- MCReviews
  NoRequest = NoRequest
  NoWriter = NoWriter
  Workflow = Workflow
  ApprovalTtl = 1
  GateTtl = 1
  AuditMayFail = FALSE
  MaxTime = 2
  Calls = {"submit", "again", "crossed", "unentitled", "unmaskable", "search", "unasked", "nobody", "list", "hello"}
  PilotSent <- MCPilotSent
  PilotRegion = "east"
  Casts <- MCRefused
  MaxDeaths = 0
CHECK_DEADLOCK FALSE
INVARIANT
  EveryOutcomeAudited
