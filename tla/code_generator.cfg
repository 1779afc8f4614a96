SPECIFICATION Spec
CONSTANTS
  Protos <- MCProtos
  Fold <- MCFold
  ByHand = {"pb2server", "pb2client"}
  MaxDeaths = 1
  MaxEdits = 1
INVARIANTS
  OnlyStaleCodeBreaksTheBuild
  RoutesAgree
PROPERTIES
  HandWorkSurvives
