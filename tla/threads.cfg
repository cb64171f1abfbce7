SPECIFICATION Spec
CONSTANTS
  Writers = {"w1", "w2", "w3"}
  Exporters = {"worm"}
  Edited = "edited"
  MaxEdits = 1
  Changes = {"engage1", "engage2", "release1", "release2"}
  Does <- MCDoes
  NoOperator = NoOperator
  Reviewers = {"rae", "sam", "ann"}
  Consumers = {"c1", "c2"}
  Requester = "ann"
  NoReviewer = NoReviewer
CHECK_DEADLOCK FALSE
INVARIANTS
  ReturnedIsKept
  VerifyIsTruthful
  SealCoversItsRecords
PROPERTIES
  OwnReleaseNeedsAnOverlap
  ReplayNeedsALateApprove
