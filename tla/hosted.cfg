SPECIFICATION FairSpec
CONSTANTS
  AllowedPurposes = {"policy_search", "draft_response", "decision_support"}
  ConsentClasses = {"edu"}
  GovCloudClasses = {"fti"}
  GovCloudRegions = {"gov"}
  Requests = {"r1", "r2", "r3"}
  Filed <- MCFiled
  Attempts = {"sup", "sup2", "sup3", "retry", "self", "clerk", "blank"}
  Reviews <- MCReviews
  NoRequest = NoRequest
  NoWriter = NoWriter
  Workflow = Workflow
  ApprovalTtl = 1
  GateTtl = 1
  AuditMayFail = TRUE
  MaxTime = 2
  Calls = {"submit", "again", "crossed", "stolen", "reagent", "repurposed", "unentitled", "unmaskable", "search", "unasked", "nobody", "list", "hello"}
  PilotSent <- MCPilotSent
  PilotRegion = "east"
  Casts <- MCCasts
  MaxDeaths = 1
CHECK_DEADLOCK FALSE
INVARIANTS
  RunsWereReviewed
  RecordedBeforeRun
  ApprovedMeansReleased
PROPERTIES
  KeepsTheGrantPromise
  WorkflowsEnd
