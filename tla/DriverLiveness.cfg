SPECIFICATION FairSpec
CONSTANTS
  Answers = {"A"}
  Confidences = {"HIGH"}
  AllowedConfidence = {"HIGH"}
  Risks = {"LOW"}
  BlockedRisk = {}
  MaxRevisionCycles = 1
  MaxSystemRetries = 0
  MaxValidationRetries = 1
  None = None
  p1 = p1
  p2 = p2
  i1 = i1
  i2 = i2
  Processes = {p1}
  Items = {i1}
  GeneratorBodies <- MCGeneratorBodies
  ReviewBodies <- MCFailingReviewBodies
  SolverBodies <- MCFailingSolverBodies
  Partial = {FALSE, TRUE}
  KeepSolverOutput = TRUE
  MaxCrashes = 1
PROPERTIES
  EveryItemEnds
