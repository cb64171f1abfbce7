SPECIFICATION Spec
CONSTANTS
  AllowedPurposes = {"intake", "triage"}
  ConsentClasses = {"edu"}
  GovCloudClasses = {"fti"}
  GovCloudRegions = {"gov"}
  Approvals = {"first"}
  Asked <- AskedFirst
  People = {"alice", "bob"}
  Nobody = Nobody
  MaxTime = 2
  Manifests <- MCManifests
  Thresholds = {60, 100}
  Operators = {}
  NoOperator = NoOperator
  MaxChanges = 3
  AuditFaults = {"refused"}
  Calls = {"permit", "permit2", "permitOther", "permitPurpose"}
  Sent <- SentReview
  NoCall = NoCall
  NoApproval = NoApproval
  Tools = {"read", "permit", "note"}
  ConnectorOutcomes = {"ok", "raised"}
  Reregister = FALSE
  Preemptible <- MCAtomicConsume
  MaxStarted = 3
  MaxInFlight = 2
CHECK_DEADLOCK FALSE
INVARIANTS
  TypeOK
  Lineage
  SingleUse
  RunsUnderReview
  RefusalIsTruthful
  UsageMatchesMeter
PROPERTIES
  KeepsItsPromise
