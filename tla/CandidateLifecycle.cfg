SPECIFICATION Spec
CONSTANTS
  Answers <- MCAnswers
  Confidences = {"HIGH", "LOW"}
  AllowedConfidence = {"HIGH"}
  Risks = {"LOW", "HIGH"}
  BlockedRisk = {"HIGH"}
  MaxRevisionCycles = 2
  MaxSystemRetries = 1
  MaxValidationRetries = 1
  None = None
  GeneratorBodies <- MCGoodGeneratorBodies
  ReviewBodies <- MCGoodReviewBodies
  SolverBodies <- MCGoodSolverBodies
  Redelivery = TRUE
  KeepSolverOutput = TRUE
  MaxSupplied = 3
INVARIANTS
  TypeOK
  EvidenceIsCurrent
  AcceptedMeansAgreement
  RetryBudgets
  AttemptAccounting
  NeverRefused
  RetryPolicyEnforced
PROPERTIES
  PassIsFinal
