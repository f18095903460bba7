SPECIFICATION FairSpec
CONSTANTS
  Answers = {"A", "B"}
  Confidences = {"HIGH"}
  AllowedConfidence = {"HIGH"}
  Risks = {"LOW"}
  BlockedRisk = {}
  MaxRevisionCycles = 1
  MaxSystemRetries = 1
  MaxValidationRetries = 1
  None = None
  Cohorts = {1, 2}
  GENERATOR_VALIDATION_RETRIES = 1
  GeneratorBodies <- MCGeneratorBodies
  ReviewBodies <- MCReviewBodies
  SolverBodies <- MCSolverBodies
  Statuses = {"one_genuine_error"}
  Categories = {"infrastructure"}
  MaxItems = 2
  MaxDrift = 1
  Tamperable = {"reviewer"}
  MaxTampers = 1
CHECK_DEADLOCK FALSE
INVARIANTS
  EvidenceAccounted
  AcceptedIsEvidenced
  ReadyMeansThrough
PROPERTIES
  DriftFailsClosed
  ReportReproduces
  RunEnds
