SPECIFICATION Spec
CONSTANTS
  Answers <- MCAnswers
  Confidences = {"HIGH", "LOW"}
  AllowedConfidence = {"HIGH"}
  Risks = {"LOW", "HIGH"}
  BlockedRisk = {"HIGH"}
  MaxRevisionCycles = 2
  MaxSystemRetries = 1
  MaxValidationRetries = 1
  None = None
  GeneratorBodies <- MCAlienGeneratorBodies
  ReviewBodies <- MCAlienReviewBodies
  SolverBodies <- MCGoodSolverBodies
  Redelivery = FALSE
  KeepSolverOutput = TRUE
  MaxSupplied = 3
INVARIANTS
  TerminalIsFinalizable
