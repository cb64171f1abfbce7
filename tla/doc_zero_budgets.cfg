SPECIFICATION Spec
CONSTANTS
  AllowedPurposes = {"intake", "triage"}
  ConsentClasses = {"edu"}
  GovCloudClasses = {"fti"}
  GovCloudRegions = {"gov"}
  Approvals = {}
  Asked <- AskedNone
  People = {"alice", "bob"}
  Nobody = Nobody
  MaxTime = 0
  Manifests <- MCManifests
  Thresholds = {60, 100}
  Operators = {"soc"}
  NoOperator = NoOperator
  MaxChanges = 3
  AuditFaults = {}
  Calls = {"read", "read2"}
  Sent <- SentReads
  NoCall = NoCall
  NoApproval = NoApproval
  Tools = {"read", "permit", "note"}
  ConnectorOutcomes = {"ok"}
  Reregister = FALSE
  Preemptible <- MCThreads
  MaxStarted = 2
  MaxInFlight = 1
CHECK_DEADLOCK FALSE
INVARIANT
  EngagedMeansNoBudget
