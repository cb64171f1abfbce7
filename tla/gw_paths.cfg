SPECIFICATION Spec
CONSTANTS
  AllowedPurposes = {"intake", "triage"}
  ConsentClasses = {"edu"}
  GovCloudClasses = {"fti"}
  GovCloudRegions = {"gov"}
  Approvals = {"first"}
  Asked <- AskedFirst
  People = {"alice", "bob"}
  Nobody = Nobody
  MaxTime = 0
  Manifests <- MCManifests
  Thresholds = {60, 100}
  Operators = {}
  NoOperator = NoOperator
  MaxChanges = 3
  AuditFaults = {"refused", "file"}
  Calls = {"read", "readApproved", "readApproved2", "negative", "stranger", "unmaskable", "unentitled", "permit", "permitOther", "permitUnasked", "unwired", "noteUnasked", "readLarge", "readLarge2", "readSoft"}
  Sent <- SentPaths
  NoCall = NoCall
  NoApproval = NoApproval
  Tools = {"read", "permit", "note"}
  ConnectorOutcomes = {"ok", "raised", "raised_blank"}
  Reregister = TRUE
  Preemptible <- MCThreads
  MaxStarted = 2
  MaxInFlight = 1
CHECK_DEADLOCK FALSE
INVARIANTS
  AnsweredOnTheRecord
  AlertsTrackSpend
  HardCapHolds
PROPERTY
  CompletedKeyNeverRuns
