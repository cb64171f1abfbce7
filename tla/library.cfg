SPECIFICATION Spec
CONSTANTS
  Documents <- MCDocuments
  Deliveries <- MCDeliveries
  Texts <- MCTexts
  MaxNesting = 5
  AllowedPurposes = {"triage"}
  ConsentClasses = {"edu"}
  GovCloudClasses = {"fti"}
  GovCloudRegions = {"gov"}
  DataClasses = {"pii", "edu", "fti"}
  ToolIds = {"search", "submit"}
  Manifests <- MCManifests
  Contexts <- MCContexts
  Signings <- MCSignings
  Prompts <- MCPrompts
  Usages <- MCUsages
INVARIANTS
  ParsedAsWritten
  DeliveredIsClean
  MaskedAsMeant
  NoneIsLeft
  EnginesAgree
  VerifiedMeansUntouched
  GroundedMeansSourced
  ReportsAddUp
CHECK_DEADLOCK FALSE
