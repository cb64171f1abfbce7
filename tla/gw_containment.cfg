SPECIFICATION FairSpec
CONSTANTS
  AllowedPurposes = {"intake", "triage"}
  ConsentClasses = {"edu"}
  GovCloudClasses = {"fti"}
  GovCloudRegions = {"gov"}
  Approvals = {"first"}
  Asked <- AskedFirst
  People = {"alice", "bob"}
  Nobody = Nobody
  MaxTime = 0
  Manifests <- MCManifests
  Thresholds = {60, 100}
  Operators = {"soc", "lead"}
  NoOperator = NoOperator
  MaxChanges = 3
  AuditFaults = {"refused"}
  Calls = {"permit", "permit2"}
  Sent <- SentPair
  NoCall = NoCall
  NoApproval = NoApproval
  Tools = {"read", "permit", "note"}
  ConnectorOutcomes = {"ok", "raised"}
  Reregister = FALSE
  Preemptible <- MCAtomicConsume
  MaxStarted = 2
  MaxInFlight = 2
CHECK_DEADLOCK FALSE
INVARIANT
  ReleasedByAnother
PROPERTIES
  OnlyCaughtCallsRun
  CallsAreClosed
